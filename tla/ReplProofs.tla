------------------------------ MODULE ReplProofs ------------------------------
(***************************************************************************)
(* Theorems about the interactive loop (module Repl), for a line buffer of *)
(* any size, any characters and any inputs.  The invariant that carries    *)
(* them says, at each control point, what is on the value stack, how the   *)
(* line buffer, the position in the input and the history of lines go      *)
(* together, and what the return value stands for.                         *)
(***************************************************************************)
EXTENDS Repl, SequenceTheorems, TLAPS

\* What is pushed comes off again, and leaves what was there.
LEMMA PushPop ==
  ASSUME NEW s \in Seq(Kinds), NEW k \in Kinds
  PROVE  /\ Push(s, k) \in Seq(Kinds)
         /\ Len(Push(s, k)) = Len(s) + 1
         /\ \A i \in 1 .. Len(s) : Push(s, k)[i] = s[i]
         /\ Push(s, k)[Len(s) + 1] = k
         /\ CanPop(Push(s, k), 1)
         /\ Pop(Push(s, k)) = s
<1>1. Push(s, k) \in Seq(Kinds) /\ Len(Push(s, k)) = Len(s) + 1
      /\ (\A i \in 1 .. Len(s) : Push(s, k)[i] = s[i])
      /\ Push(s, k)[Len(s) + 1] = k
  BY AppendProperties DEF Push
<1>2. Pop(Push(s, k)) \in Seq(Kinds) /\ Len(Pop(Push(s, k))) = Len(s)
      /\ \A i \in 1 .. Len(s) : Pop(Push(s, k))[i] = Push(s, k)[i]
  BY <1>1, SubSeqProperties, LenProperties DEF Pop, PopN
<1>3. Pop(Push(s, k)) = s
  BY <1>1, <1>2, SeqEqual
<1>4. Len(s) \in Nat
  BY LenProperties
<1>5. QED
  BY <1>1, <1>3, <1>4 DEF CanPop

\* A frame cut back to its length before some values were pushed is what it was.
LEMMA CutBack ==
  ASSUME NEW s \in Seq(Kinds), NEW t \in Seq(Kinds), Len(s) <= Len(t),
         \A i \in 1 .. Len(s) : t[i] = s[i]
  PROVE  SubSeq(t, 1, Len(s)) = s
<1>1. Len(s) \in Nat /\ Len(t) \in Nat /\ \A i \in 1 .. Len(s) : t[i] \in Kinds
  BY LenProperties
<1>2. /\ SubSeq(t, 1, Len(s)) \in Seq(Kinds) /\ Len(SubSeq(t, 1, Len(s))) = Len(s)
      /\ \A i \in 1 .. Len(s) : SubSeq(t, 1, Len(s))[i] = t[i]
  BY <1>1, SubSeqProperties
<1>3. QED
  BY <1>2, SeqEqual

\* The arguments of the safe call, on the stack of the first script.
Arguments == Push(Push(Push(base, "pointer"), "number"), "string")

\* Where a line is being read or evaluated, and where it has been read.
Filling == { "read", "push", "compile", "dump", "run" }
Lined == { "push", "compile", "dump", "run" }

\* A line that ended there is followed by its newline, or by nothing.
EndsAt(end) == IF got_eof THEN end = pos /\ pos = Len(input)
               ELSE pos = end + 1 /\ input[pos] = Newline

\* Where the last line of the history ended.
LogEnd == log[Len(log)].from + Len(log[Len(log)].text)

\* A line of the history failed.
Failed == \E i \in DOMAIN log : log[i].end = "threw"

\* What the history holds, and what the types of the other variables are.
Entries == [ from : Nat, text : Seq(Chars), end : { "threw", "dumped", "ran" } ]

TypeInv ==
  /\ input \in Inputs
  /\ stack \in Seq(Kinds)
  /\ log \in Seq(Entries)

\* The value stack is that of the first script plus what the line at work put there.
StackInv ==
  /\ pc \in { "start", "prompt", "read", "push", "back" } => stack = base
  /\ pc = "compile" => stack = Arguments
  /\ pc \in { "dump", "run" } =>
       stack = Push(IF IsBytecode THEN Arguments ELSE Pop(Arguments), "function")
  /\ pc = "dump" => base = << "string" >> /\ ~ IsBytecode
  /\ pc = "complain" => stack = Push(base, "error")
  /\ pc = "settle" => stack = Push(base, "value")
  /\ exit = "success" => stack = << >>
  /\ exit # "none" => pc = "end"

\* The buffer holds the input since the line began, and the line ends at a newline
\* or at the end of the input.
BufferInv ==
  /\ pc \in { "start", "read" } => ~ got_eof
  /\ pc = "read" => pos = from + idx
  /\ pc \in Filling => \A k \in 1 .. idx : buffer[k - 1] = input[from + k]
  /\ pc \in Lined => EndsAt(from + idx)

\* An evaluated line is a whole line of the input, the next one or the first.
Sound(i) ==
  /\ log[i].from + Len(log[i].text) <= pos
  /\ \A k \in DOMAIN log[i].text :
       log[i].text[k] = input[log[i].from + k] /\ log[i].text[k] # Newline
  /\ IF i = 1 THEN log[i].from = 0
     ELSE /\ log[i].from = log[i - 1].from + Len(log[i - 1].text) + 1
          /\ input[log[i].from] = Newline
  /\ log[i].end = "dumped" =>
       base = << "string" >> /\ (log[i].text = << >> \/ log[i].text[1] # BytecodeMark)

\* Each line starts where the one before ended.
LogInv ==
  /\ \A i \in DOMAIN log : Sound(i)
  /\ pc = "start" => log = << >>
  /\ pc \in { "start", "prompt" } /\ log = << >> => pos = 0 /\ ~ got_eof
  /\ pc \in { "complain", "settle" } => log # << >>
  /\ pc \in { "prompt", "complain", "settle" } /\ log # << >> => EndsAt(LogEnd)
  /\ pc \in Filling =>
       IF log = << >> THEN from = 0 ELSE from = LogEnd + 1 /\ input[from] = Newline

\* A failure is remembered.
RetvalInv ==
  /\ pc = "start" => retval = 0
  /\ pc \in { "prompt", "settle" } \union Filling => (retval = -1 <=> Failed)
  /\ pc = "complain" => Failed
  /\ pc = "back" => (retval = -1 <=> Failed \/ ~ got_eof)

\* What every step keeps.
IInv == TypeOK /\ TypeInv /\ StackInv /\ BufferInv /\ LogInv /\ RetvalInv

------------------------------------------------------------------------------
\* The numbers and sequences of a state, in a form the provers use.
LEMMA Numbers ==
  ASSUME IInv
  PROVE  /\ pos \in Nat /\ from \in Nat /\ idx \in Nat /\ idx <= LineBufSize
         /\ LineBufSize \in Nat \ {0}
         /\ input \in Seq(Chars \union { Newline })
         /\ Len(input) \in Nat /\ pos <= Len(input) /\ from <= pos
         /\ Len(log) \in Nat /\ DOMAIN log = 1 .. Len(log)
         /\ log = << >> <=> Len(log) = 0
         /\ \A i \in 1 .. Len(log) : log[i] \in Entries
         /\ base \in Seq(Kinds)
         /\ { "pointer", "number", "string", "function", "value", "error" } \subseteq Kinds
<1>1. input \in Seq(Chars \union { Newline })
  BY ReplAssumption DEF IInv, TypeInv
<1>2. Len(input) \in Nat
  BY <1>1, LenProperties
<1>3. log \in Seq(Entries)
  BY DEF IInv, TypeInv
<1>4. /\ Len(log) \in Nat /\ DOMAIN log = 1 .. Len(log)
      /\ \A i \in 1 .. Len(log) : log[i] \in Entries
  BY <1>3, LenProperties, ElementOfSeq
<1>5. log = << >> <=> Len(log) = 0
  BY <1>3, <1>4, EmptySeq
<1>6. { "pointer", "number", "string", "function", "value", "error" } \subseteq Kinds
  BY DEF Kinds
<1>7. base \in Seq(Kinds)
  <2>1. base \in Bases
    BY DEF IInv, TypeOK
  <2>2. base = << >> \/ base = << "value" >> \/ base = << "string" >>
    BY <2>1 DEF Bases
  <2>3. << "value" >> \in Seq(Kinds) /\ << "string" >> \in Seq(Kinds) /\ << >> \in Seq(Kinds)
    BY <1>6
  <2>4. QED
    BY <2>2, <2>3
<1>8. QED
  BY <1>1, <1>2, <1>4, <1>5, <1>6, <1>7, ReplAssumption DEF IInv, TypeOK

\* The line is what the buffer holds.
LEMMA LineIs ==
  ASSUME IInv
  PROVE  /\ Line \in Seq(Chars) /\ Len(Line) = idx /\ DOMAIN Line = 1 .. idx
         /\ \A k \in 1 .. idx : Line[k] = buffer[k - 1] /\ Line[k] \in Chars
<1>1. \A k \in 1 .. idx : k - 1 \in 0 .. LineBufSize - 1
  BY Numbers
<1>2. \A k \in 1 .. idx : buffer[k - 1] \in Chars
  BY <1>1 DEF IInv, TypeOK
<1>3. Line \in [ 1 .. idx -> Chars ]
  BY <1>2 DEF Line
<1>4. Line \in Seq(Chars)
  BY <1>3, Numbers, SeqDef
<1>5. Len(Line) \in Nat /\ 1 .. Len(Line) = 1 .. idx
  BY <1>3, <1>4, LenProperties
<1>6. Len(Line) = idx
  BY <1>5, Numbers
<1>7. QED
  BY <1>2, <1>3, <1>4, <1>6 DEF Line

\* A stack that holds n values above those of the first script, a pointer first.
Above(s, n) ==
  /\ s \in Seq(Kinds)
  /\ Len(s) = Len(base) + n
  /\ \A i \in 1 .. Len(base) : s[i] = base[i]
  /\ s[Len(base) + 1] = "pointer"

\* It stays one when a value is pushed, and is the stack of the first script again when
\* it is cut back.
LEMMA PushAbove ==
  ASSUME IInv, NEW n \in Nat \ {0}, NEW s, Above(s, n), NEW k \in Kinds
  PROVE  /\ Above(Push(s, k), n + 1)
         /\ Pop(Push(s, k)) = s
         /\ Cut(s) = base
<1>1. base \in Seq(Kinds) /\ Len(base) \in Nat
  BY Numbers, LenProperties
<1>2. s \in Seq(Kinds) /\ Len(s) = Len(base) + n
      /\ (\A i \in 1 .. Len(base) : s[i] = base[i]) /\ s[Len(base) + 1] = "pointer"
  BY DEF Above
<1>3. Push(s, k) \in Seq(Kinds) /\ Len(Push(s, k)) = Len(s) + 1
      /\ (\A i \in 1 .. Len(s) : Push(s, k)[i] = s[i]) /\ Pop(Push(s, k)) = s
  BY <1>2, PushPop
<1> DEFINE t == Push(s, k)
<1> HIDE DEF t
<1>4. /\ t \in Seq(Kinds) /\ Len(t) = Len(base) + n + 1
      /\ \A i \in 1 .. Len(base) : t[i] = base[i]
      /\ t[Len(base) + 1] = "pointer"
  BY <1>1, <1>2, <1>3 DEF t
<1>5. Above(t, n + 1)
  BY <1>1, <1>4 DEF Above
<1>6. Cut(s) = base
  BY <1>1, <1>2, CutBack DEF Cut
<1>7. QED
  BY <1>3, <1>5, <1>6 DEF t

\* The frame of the safe call: cutting it back leaves the stack of the first script,
\* and the kind at index -4 is that of its result, unless bytecode moved it.
LEMMA Frame ==
  ASSUME IInv
  PROVE  /\ Arguments \in Seq(Kinds)
         /\ Cut(Arguments) = base
         /\ Push(Arguments, "function") \in Seq(Kinds)
         /\ Push(Pop(Arguments), "function") \in Seq(Kinds)
         /\ Cut(Push(Arguments, "function")) = base
         /\ Cut(Push(Pop(Arguments), "function")) = base
         /\ Below(Push(Arguments, "function"), 4) # "string"
         /\ Below(Push(Pop(Arguments), "function"), 4) = "string" => base = << "string" >>
<1> DEFINE one == Push(base, "pointer")
           two == Push(one, "number")
<1>1. base \in Seq(Kinds) /\ Len(base) \in Nat
  BY Numbers, LenProperties
<1>2. /\ "pointer" \in Kinds /\ "number" \in Kinds /\ "string" \in Kinds
      /\ "function" \in Kinds
  BY DEF Kinds
<1>3. Above(one, 1)
  BY <1>1, <1>2, PushPop DEF Above
<1> HIDE DEF one
<1>4. Above(two, 2)
  BY <1>2, <1>3, PushAbove
<1> HIDE DEF two
<1>5. Above(Push(two, "string"), 3) /\ Pop(Push(two, "string")) = two
      /\ Above(Push(two, "function"), 3)
  BY <1>2, <1>4, PushAbove
<1>6. Arguments = Push(two, "string")
  BY DEF Arguments, one, two
<1>7. Above(Push(Arguments, "function"), 4)
  BY <1>2, <1>5, <1>6, PushAbove
<1> DEFINE swapped == Push(Pop(Arguments), "function")
           four == Push(Arguments, "function")
<1>8. Above(swapped, 3) /\ Above(Arguments, 3) /\ Above(four, 4)
  BY <1>5, <1>6, <1>7
<1> HIDE DEF swapped, four
<1>9. Cut(Arguments) = base /\ Cut(four) = base /\ Cut(swapped) = base
  BY <1>2, <1>8, PushAbove
<1>10. Below(four, 4) # "string"
  BY <1>1, <1>8 DEF Below, Above
<1>11. Below(swapped, 4) = "string" => base = << "string" >>
  <2>1. Below(swapped, 4) = IF Len(base) >= 1 THEN base[Len(base)] ELSE "none"
    BY <1>1, <1>8 DEF Below, Above
  <2>2. base = << >> \/ base = << "value" >> \/ base = << "string" >>
    BY DEF IInv, TypeOK, Bases
  <2>3. QED
    BY <2>1, <2>2
<1>12. QED
  BY <1>8, <1>9, <1>10, <1>11 DEF Above, four, swapped

------------------------------------------------------------------------------
\* The history stays sound while more is read.
LEMMA SoundKept ==
  ASSUME IInv, UNCHANGED << log, base, input >>, pos' \in Nat, pos <= pos'
  PROVE  \A i \in DOMAIN log' : Sound(i)'
<1> SUFFICES ASSUME NEW i \in DOMAIN log PROVE Sound(i)'
  OBVIOUS
<1>1. Sound(i)
  BY DEF IInv, LogInv
<1>2. log[i].from \in Nat /\ Len(log[i].text) \in Nat
  BY Numbers, LenProperties DEF Entries
<1>3. log[i].from + Len(log[i].text) <= pos'
  BY <1>1, <1>2, Numbers DEF Sound
<1>4. QED
  BY <1>1, <1>3 DEF Sound

\* Before anything is read, all is in order.
LEMMA InitIInv == Init => IInv
<1> SUFFICES ASSUME Init PROVE IInv
  OBVIOUS
<1> USE DEF Init
<1>1. /\ input \in Seq(Chars \union { Newline }) /\ Len(input) \in Nat
      /\ LineBufSize \in Nat \ {0}
  BY ReplAssumption, LenProperties
<1>2. base \in Seq(Kinds)
  <2>1. base = << >> \/ base = << "value" >> \/ base = << "string" >>
    BY DEF Bases
  <2>2. << "value" >> \in Seq(Kinds) /\ << "string" >> \in Seq(Kinds) /\ << >> \in Seq(Kinds)
    BY DEF Kinds
  <2>3. QED
    BY <2>1, <2>2
<1>3. \A i \in 1 .. Len(stack) : stack[i] \in Kinds
  BY <1>2, ElementOfSeq
<1>4. TypeOK
  <2>1. PICK c \in Chars : buffer = [ i \in 0 .. LineBufSize - 1 |-> c ]
    OBVIOUS
  <2>2. buffer \in [ 0 .. LineBufSize - 1 -> Chars ]
    BY <2>1
  <2>3. pos \in 0 .. Len(input) /\ from \in 0 .. pos /\ idx \in 0 .. LineBufSize
    BY <1>1
  <2>4. QED
    BY <1>3, <2>2, <2>3 DEF TypeOK, Pcs
<1>5. << >> \in Seq(Entries) /\ Len(<< >>) = 0 /\ DOMAIN << >> = {}
  BY EmptySeq
<1>6. TypeInv
  BY <1>2, <1>5 DEF TypeInv
<1>7. StackInv /\ BufferInv /\ LogInv /\ RetvalInv
  BY <1>5 DEF StackInv, BufferInv, LogInv, RetvalInv, Filling, Lined
<1>8. QED
  BY <1>4, <1>6, <1>7 DEF IInv

\* There is a buffer, or the loop gives up at once.
LEMMA StartStep ==
  ASSUME IInv, Start
  PROVE  IInv'
<1> USE DEF Start, reading, At, Goto
<1>1. TypeOK' /\ TypeInv'
  BY DEF IInv, TypeOK, TypeInv, Pcs
<1>2. StackInv' /\ BufferInv'
  BY DEF IInv, StackInv, BufferInv, Filling, Lined
<1>3. log = << >> /\ DOMAIN log = {}
  BY Numbers DEF IInv, LogInv
<1>4. LogInv' /\ RetvalInv'
  BY <1>3 DEF IInv, LogInv, RetvalInv, BufferInv, Failed, Filling
<1>5. QED
  BY <1>1, <1>2, <1>4 DEF IInv

\* A line begins where reading has come to.
LEMMA PromptStep ==
  ASSUME IInv, Prompt
  PROVE  IInv'
<1> USE DEF Prompt, At, Goto
<1>1. TypeOK' /\ TypeInv'
  BY Numbers DEF IInv, TypeOK, TypeInv, Pcs
<1>2. StackInv' /\ BufferInv'
  BY Numbers DEF IInv, StackInv, BufferInv, Filling, Lined
<1>3. \A i \in DOMAIN log' : Sound(i)'
  BY Numbers, SoundKept
<1>4. IF log = << >> THEN pos = 0 ELSE pos = LogEnd + 1 /\ input[pos] = Newline
  BY DEF IInv, LogInv, EndsAt
<1>5. LogInv'
  BY <1>3, <1>4 DEF LogInv, LogEnd, Filling
<1>6. RetvalInv'
  BY DEF IInv, RetvalInv, Failed, Filling
<1>7. QED
  BY <1>1, <1>2, <1>5, <1>6 DEF IInv

\* The loop ends at a prompt after the end of the input.
LEMMA QuitStep ==
  ASSUME IInv, Quit
  PROVE  IInv'
<1> USE DEF Quit, reading, At, Goto
<1>1. TypeOK' /\ TypeInv'
  BY DEF IInv, TypeOK, TypeInv, Pcs
<1>2. StackInv' /\ BufferInv'
  BY DEF IInv, StackInv, BufferInv, Filling, Lined
<1>3. \A i \in DOMAIN log' : Sound(i)'
  BY Numbers, SoundKept
<1>4. LogInv' /\ RetvalInv'
  BY <1>3 DEF IInv, LogInv, RetvalInv, Failed, Filling
<1>5. QED
  BY <1>1, <1>2, <1>4 DEF IInv

\* The line ends with the input.
LEMMA ReadEofStep ==
  ASSUME IInv, ReadEof
  PROVE  IInv'
<1> USE DEF ReadEof, At, Goto
<1>1. TypeOK' /\ TypeInv'
  BY DEF IInv, TypeOK, TypeInv, Pcs
<1>2. StackInv' /\ BufferInv'
  BY DEF IInv, StackInv, BufferInv, Filling, Lined, EndsAt
<1>3. \A i \in DOMAIN log' : Sound(i)'
  BY Numbers, SoundKept
<1>4. LogInv' /\ RetvalInv'
  BY <1>3 DEF IInv, LogInv, RetvalInv, LogEnd, Failed, Filling
<1>5. QED
  BY <1>1, <1>2, <1>4 DEF IInv

\* The line ends with its newline.
LEMMA ReadNewlineStep ==
  ASSUME IInv, ReadNewline
  PROVE  IInv'
<1> USE DEF ReadNewline, MoreInput, NextChar, At, Goto
<1>1. TypeOK' /\ TypeInv'
  BY Numbers DEF IInv, TypeOK, TypeInv, Pcs
<1>2. StackInv' /\ BufferInv'
  BY Numbers DEF IInv, StackInv, BufferInv, Filling, Lined, EndsAt
<1>3. \A i \in DOMAIN log' : Sound(i)'
  BY Numbers, SoundKept
<1>4. LogInv' /\ RetvalInv'
  BY <1>3 DEF IInv, LogInv, RetvalInv, LogEnd, Failed, Filling
<1>5. QED
  BY <1>1, <1>2, <1>4 DEF IInv

\* One more character of the line is in the buffer, which has room for it.
LEMMA ReadCharStep ==
  ASSUME IInv, ReadChar
  PROVE  IInv'
<1> USE DEF ReadChar, MoreInput, NextChar, Room, At
<1>1. NextChar \in Chars /\ pos + 1 \in 1 .. Len(input)
  <2>1. pos + 1 \in 1 .. Len(input)
    BY Numbers
  <2>2. input[pos + 1] \in Chars \union { Newline }
    BY <2>1, Numbers, ElementOfSeq
  <2>3. QED
    BY <2>1, <2>2
<1>2. /\ buffer' \in [ 0 .. LineBufSize - 1 -> Chars ]
      /\ buffer'[idx] = input[pos + 1]
      /\ \A i \in 0 .. LineBufSize - 1 : i # idx => buffer'[i] = buffer[i]
  <2>1. buffer \in [ 0 .. LineBufSize - 1 -> Chars ] /\ idx \in 0 .. LineBufSize - 1
    BY Numbers DEF IInv, TypeOK
  <2>2. DOMAIN buffer \union { idx } = 0 .. LineBufSize - 1
    BY <2>1
  <2>3. buffer' = [ i \in 0 .. LineBufSize - 1 |-> IF i = idx THEN NextChar ELSE buffer[i] ]
    BY <2>2
  <2>4. QED
    BY <1>1, <2>1, <2>3
<1>3. TypeOK' /\ TypeInv'
  BY <1>1, <1>2, Numbers DEF IInv, TypeOK, TypeInv
<1>4. StackInv'
  BY DEF IInv, StackInv
<1>5. BufferInv'
  <2>1. ASSUME NEW k \in 1 .. idx + 1
        PROVE  buffer'[k - 1] = input[from + k]
    <3>1. CASE k = idx + 1
      <4>1. pos = from + idx /\ k - 1 = idx /\ from + k = pos + 1
        BY <3>1, Numbers DEF IInv, BufferInv
      <4>2. QED
        BY <1>2, <4>1
    <3>2. CASE k # idx + 1
      <4>1. k \in 1 .. idx /\ k - 1 \in 0 .. LineBufSize - 1 /\ k - 1 # idx
        BY <3>2, Numbers
      <4>2. QED
        BY <1>2, <4>1 DEF IInv, BufferInv, Filling
    <3>3. QED
      BY <3>1, <3>2
  <2>2. pos' = from + idx' /\ ~ got_eof /\ pc \notin Lined
    BY Numbers DEF IInv, BufferInv, Lined
  <2>3. QED
    BY <2>1, <2>2 DEF BufferInv
<1>6. \A i \in DOMAIN log' : Sound(i)'
  BY Numbers, SoundKept
<1>7. LogInv' /\ RetvalInv'
  BY <1>6 DEF IInv, LogInv, RetvalInv, LogEnd, Failed, Filling
<1>8. QED
  BY <1>3, <1>4, <1>5, <1>7 DEF IInv

\* A line that does not fit ends the loop with a failure.
LEMMA LineTooLongStep ==
  ASSUME IInv, LineTooLong
  PROVE  IInv'
<1> USE DEF LineTooLong, MoreInput, At, Goto
<1>1. TypeOK' /\ TypeInv'
  BY Numbers DEF IInv, TypeOK, TypeInv, Pcs
<1>2. StackInv' /\ BufferInv'
  BY DEF IInv, StackInv, BufferInv, Filling, Lined
<1>3. \A i \in DOMAIN log' : Sound(i)'
  BY Numbers, SoundKept
<1>4. LogInv' /\ RetvalInv'
  BY <1>3 DEF IInv, BufferInv, LogInv, RetvalInv, Failed, Filling
<1>5. QED
  BY <1>1, <1>2, <1>4 DEF IInv

------------------------------------------------------------------------------
\* A stack of kinds is one as TypeOK states it.
LEMMA StackTyped ==
  ASSUME NEW s \in Seq(Kinds)
  PROVE  \A i \in 1 .. Len(s) : s[i] \in Kinds
BY ElementOfSeq

\* The arguments of the safe call go onto the stack of the first script.
LEMMA PushLineStep ==
  ASSUME IInv, PushLine
  PROVE  IInv'
<1> USE DEF PushLine, reading, At, Goto
<1>1. stack' = Arguments /\ Arguments' = Arguments /\ stack' \in Seq(Kinds)
  <2>1. stack = base
    BY DEF IInv, StackInv
  <2>2. QED
    BY <2>1, Frame DEF Arguments
<1>2. TypeOK' /\ TypeInv'
  BY <1>1, StackTyped DEF IInv, TypeOK, TypeInv, Pcs
<1>3. StackInv' /\ BufferInv'
  BY <1>1 DEF IInv, StackInv, BufferInv, Filling, Lined, EndsAt
<1>4. \A i \in DOMAIN log' : Sound(i)'
  BY Numbers, SoundKept
<1>5. LogInv' /\ RetvalInv'
  BY <1>4 DEF IInv, LogInv, RetvalInv, LogEnd, Failed, Filling
<1>6. QED
  BY <1>2, <1>3, <1>5 DEF IInv

\* Only a source, not bytecode, can bring the result of the first script to index -4.
LEMMA CompileStep ==
  ASSUME IInv, Compile
  PROVE  IInv'
<1> USE DEF Compile, reading, At, Goto
<1>1. stack = Arguments /\ Arguments' = Arguments /\ IsBytecode' = IsBytecode
  BY DEF IInv, StackInv, Arguments, IsBytecode
<1>2. stack' = Push(IF IsBytecode THEN Arguments ELSE Pop(Arguments), "function")
  BY <1>1
<1>3. stack' \in Seq(Kinds)
  BY <1>2, Frame
<1>4. pc' \in { "dump", "run" } /\ (pc' = "dump" => base = << "string" >> /\ ~ IsBytecode)
  BY <1>2, Frame
<1>5. TypeOK' /\ TypeInv'
  BY <1>3, <1>4, StackTyped DEF IInv, TypeOK, TypeInv, Pcs
<1>6. StackInv' /\ BufferInv'
  BY <1>1, <1>2, <1>4 DEF IInv, StackInv, BufferInv, Filling, Lined, EndsAt
<1>7. \A i \in DOMAIN log' : Sound(i)'
  BY Numbers, SoundKept
<1>8. LogInv' /\ RetvalInv'
  BY <1>4, <1>7 DEF IInv, LogInv, RetvalInv, LogEnd, Failed, Filling
<1>9. QED
  BY <1>5, <1>6, <1>8 DEF IInv

\* A line that ends, whichever way, leaves one value, and goes into the history.
LEMMA EndsStep ==
  ASSUME IInv, NEW end \in { "threw", "dumped", "ran" }, Ends(end),
         pc \in { "compile", "dump", "run" }, end = "dumped" => pc = "dump"
  PROVE  IInv'
<1> USE DEF reading, Goto
<1> DEFINE e == [ from |-> from, text |-> Line, end |-> end ]
<1>1. /\ log' = Append(log, e)
      /\ stack' = Push(Cut(stack), IF end = "threw" THEN "error" ELSE "value")
      /\ pc' = IF end = "threw" THEN "complain" ELSE "settle"
      /\ UNCHANGED << input, pos, base, buffer, idx, got_eof, from, retval, exit >>
  BY DEF Ends
<1>2. stack' = Push(base, IF end = "threw" THEN "error" ELSE "value")
  <2>1. Cut(stack) = base
    BY Frame DEF IInv, StackInv
  <2>2. QED
    BY <1>1, <2>1
<1>3. stack' \in Seq(Kinds)
  BY <1>2, Numbers, PushPop
<1>4. e \in Entries /\ e.from = from /\ e.text = Line /\ e.end = end
  BY Numbers, LineIs DEF Entries
<1> HIDE DEF e
<1>5. /\ log' \in Seq(Entries) /\ Len(log') = Len(log) + 1
      /\ \A i \in 1 .. Len(log) : log'[i] = log[i]
      /\ log'[Len(log) + 1] = e /\ DOMAIN log' = 1 .. Len(log) + 1 /\ log' # << >>
  <2>1. log \in Seq(Entries)
    BY DEF IInv, TypeInv
  <2>2. /\ log' \in Seq(Entries) /\ Len(log') = Len(log) + 1
        /\ \A i \in 1 .. Len(log) : log'[i] = log[i]
        /\ log'[Len(log) + 1] = e
    BY <1>1, <1>4, <2>1, AppendProperties
  <2>3. DOMAIN log' = 1 .. Len(log) + 1 /\ log' # << >>
    BY <2>2, LenProperties, EmptySeq, Numbers
  <2>4. QED
    BY <2>2, <2>3
<1>6. TypeOK' /\ TypeInv'
  BY <1>1, <1>3, <1>5, StackTyped DEF IInv, TypeOK, TypeInv, Pcs
<1>7. StackInv' /\ BufferInv'
  BY <1>1, <1>2 DEF IInv, StackInv, BufferInv, Filling, Lined
<1>8. EndsAt(from + idx) /\ from + idx <= pos
  BY Numbers DEF IInv, BufferInv, Lined, EndsAt
<1>9. \A i \in DOMAIN log' : Sound(i)'
  <2> SUFFICES ASSUME NEW i \in 1 .. Len(log) + 1
               PROVE  Sound(i)'
    BY <1>5
  <2>1. CASE i \in 1 .. Len(log)
    <3>1. Sound(i)
      BY <2>1, Numbers DEF IInv, LogInv
    <3>2. log'[i] = log[i] /\ (i # 1 => log'[i - 1] = log[i - 1])
      <4>1. i # 1 => i - 1 \in 1 .. Len(log)
        BY <2>1, Numbers
      <4>2. QED
        BY <1>5, <2>1, <4>1
    <3>3. QED
      BY <1>1, <3>1, <3>2 DEF Sound
  <2>2. CASE i = Len(log) + 1
    <3>1. log'[i].from = from /\ log'[i].text = Line /\ log'[i].end = end
      BY <1>4, <1>5, <2>2
    <3>2. /\ from + Len(Line) <= pos
          /\ \A k \in DOMAIN Line : Line[k] = input[from + k] /\ Line[k] # Newline
      BY <1>8, LineIs, ReplAssumption DEF IInv, BufferInv, Filling
    <3>3. IF i = 1 THEN from = 0
          ELSE from = log[i - 1].from + Len(log[i - 1].text) + 1 /\ input[from] = Newline
      BY <2>2, Numbers DEF IInv, LogInv, LogEnd, Filling
    <3>4. i # 1 => log'[i - 1] = log[i - 1]
      BY <1>5, <2>2, Numbers
    <3>5. end = "dumped" => base = << "string" >> /\ (Line = << >> \/ Line[1] # BytecodeMark)
      <4> SUFFICES ASSUME end = "dumped"
                   PROVE  base = << "string" >> /\ (Line = << >> \/ Line[1] # BytecodeMark)
        OBVIOUS
      <4>1. base = << "string" >> /\ ~ IsBytecode
        BY DEF IInv, StackInv
      <4>2. CASE idx = 0
        BY <4>1, <4>2, LineIs, EmptySeq
      <4>3. CASE idx # 0
        BY <4>1, <4>3, LineIs, Numbers DEF IsBytecode
      <4>4. QED
        BY <4>2, <4>3, <4>1
    <3>6. QED
      BY <1>1, <3>1, <3>2, <3>3, <3>4, <3>5 DEF Sound
  <2>3. QED
    BY <2>1, <2>2, Numbers
<1>10. LogInv'
  <2>1. LogEnd' = from + idx
    BY <1>4, <1>5, LineIs DEF LogEnd
  <2>2. EndsAt(from + idx)'
    BY <1>1, <1>8 DEF EndsAt
  <2>3. EndsAt(LogEnd)'
    BY <1>1, <2>1, <2>2 DEF EndsAt
  <2>4. QED
    BY <1>1, <1>5, <1>9, <2>3 DEF LogInv, Filling
<1>11. RetvalInv'
  <2>1. /\ Len(log) \in Nat /\ DOMAIN log = 1 .. Len(log) /\ DOMAIN log' = 1 .. Len(log) + 1
        /\ log'[Len(log) + 1].end = end /\ \A i \in 1 .. Len(log) : log'[i].end = log[i].end
    BY <1>4, <1>5, Numbers
  <2>2. Failed \/ end = "threw" => Failed'
    BY <2>1 DEF Failed
  <2>3. Failed' => Failed \/ end = "threw"
    <3>1. \A i \in 1 .. Len(log) + 1 : i \in 1 .. Len(log) \/ i = Len(log) + 1
      BY <2>1
    <3>2. QED
      BY <2>1, <3>1 DEF Failed
  <2>4. QED
    BY <1>1, <2>2, <2>3 DEF IInv, RetvalInv, Filling
<1>12. QED
  BY <1>6, <1>7, <1>10, <1>11 DEF IInv

\* The error is reported and taken off; the loop goes on, and remembers.
LEMMA ComplainStep ==
  ASSUME IInv, Complain
  PROVE  IInv'
<1> USE DEF Complain, reading, At, Goto
<1>1. stack' = base /\ base \in Seq(Kinds)
  BY Numbers, PushPop DEF IInv, StackInv
<1>2. TypeOK' /\ TypeInv'
  BY <1>1, StackTyped DEF IInv, TypeOK, TypeInv, Pcs
<1>3. StackInv' /\ BufferInv'
  BY <1>1 DEF IInv, StackInv, BufferInv, Filling, Lined
<1>4. \A i \in DOMAIN log' : Sound(i)'
  BY Numbers, SoundKept
<1>5. LogInv' /\ RetvalInv'
  BY <1>4 DEF IInv, LogInv, RetvalInv, LogEnd, EndsAt, Failed, Filling
<1>6. QED
  BY <1>2, <1>3, <1>5 DEF IInv

\* What the line gave is taken off.
LEMMA SettleStep ==
  ASSUME IInv, Settle
  PROVE  IInv'
<1> USE DEF Settle, reading, At, Goto
<1>1. stack' = base /\ base \in Seq(Kinds)
  BY Numbers, PushPop DEF IInv, StackInv
<1>2. TypeOK' /\ TypeInv'
  BY <1>1, StackTyped DEF IInv, TypeOK, TypeInv, Pcs
<1>3. StackInv' /\ BufferInv'
  BY <1>1 DEF IInv, StackInv, BufferInv, Filling, Lined
<1>4. \A i \in DOMAIN log' : Sound(i)'
  BY Numbers, SoundKept
<1>5. LogInv' /\ RetvalInv'
  BY <1>4 DEF IInv, LogInv, RetvalInv, LogEnd, EndsAt, Failed, Filling
<1>6. QED
  BY <1>2, <1>3, <1>5 DEF IInv

\* The pop in main takes the result of the first script, the only value there is.
LEMMA BackStep ==
  ASSUME IInv, Back
  PROVE  IInv'
<1> USE DEF Back, reading, At, Goto
<1>1. stack = base
  BY DEF IInv, StackInv
<1>2. \/ CanPop(base, 1) /\ stack' = Pop(base) /\ exit' = "success"
      \/ ~ CanPop(base, 1) /\ stack' = base /\ exit' = "abort"
  BY <1>1
<1>3. CanPop(base, 1) => Pop(base) = << >>
  <2>1. base = << >> \/ base = << "value" >> \/ base = << "string" >>
    BY DEF IInv, TypeOK, Bases
  <2>2. ~ CanPop(<< >>, 1)
    BY DEF CanPop
  <2>3. ASSUME NEW k
        PROVE  Pop(<< k >>) = << >>
    <3>1. Len(<< k >>) - 1 = 0
      OBVIOUS
    <3>2. QED
      BY <3>1, SubSeqEmpty DEF Pop, PopN
  <2>4. QED
    BY <2>1, <2>2, <2>3
<1>4. stack' \in Seq(Kinds)
  BY <1>2, <1>3, Numbers, EmptySeq
<1>5. TypeOK' /\ TypeInv'
  BY <1>2, <1>4, StackTyped DEF IInv, TypeOK, TypeInv, Pcs
<1>6. StackInv' /\ BufferInv'
  BY <1>2, <1>3 DEF IInv, StackInv, BufferInv, Filling, Lined
<1>7. \A i \in DOMAIN log' : Sound(i)'
  BY Numbers, SoundKept
<1>8. LogInv' /\ RetvalInv'
  BY <1>7 DEF IInv, LogInv, RetvalInv, Filling
<1>9. QED
  BY <1>5, <1>6, <1>8 DEF IInv

\* When nothing changes.
LEMMA StutterStep ==
  ASSUME IInv, UNCHANGED vars
  PROVE  IInv'
<1> USE DEF vars
<1>1. TypeOK' /\ TypeInv' /\ StackInv' /\ BufferInv'
  BY DEF IInv, TypeOK, TypeInv, StackInv, BufferInv, EndsAt, Arguments, IsBytecode
<1>2. \A i \in DOMAIN log' : Sound(i)'
  BY Numbers, SoundKept
<1>3. LogInv' /\ RetvalInv'
  BY <1>2 DEF IInv, LogInv, RetvalInv, LogEnd, EndsAt, Failed
<1>4. QED
  BY <1>1, <1>3 DEF IInv

\* Every step keeps the invariant.
LEMMA NextIInv ==
  ASSUME IInv, [Next]_vars
  PROVE  IInv'
<1>1. ASSUME Throws PROVE IInv'
  BY <1>1, EndsStep DEF Throws
<1>2. ASSUME Dump PROVE IInv'
  BY <1>2, EndsStep DEF Dump, At
<1>3. ASSUME Run PROVE IInv'
  BY <1>3, EndsStep DEF Run, At
<1>4. QED
  BY <1>1, <1>2, <1>3, StartStep, PromptStep, QuitStep, ReadEofStep, ReadNewlineStep,
     ReadCharStep, LineTooLongStep, PushLineStep, CompileStep, ComplainStep, SettleStep,
     BackStep, StutterStep DEF Next

\* Every state of the loop is in order, whatever is typed and however lines end.
THEOREM Invariance == Spec => []IInv
<1>1. Init => IInv
  BY InitIInv
<1>2. IInv /\ [Next]_vars => IInv'
  BY NextIInv
<1>3. QED
  BY <1>1, <1>2, PTL DEF Spec

------------------------------------------------------------------------------
\* Types: the line buffer, above all, is never written beyond its end.
THEOREM BufferNotOverrun == Spec => []TypeOK
<1>1. IInv => TypeOK
  BY DEF IInv
<1>2. QED
  BY <1>1, Invariance, PTL

\* The stack of the first script is there again whenever a line begins, and main pops
\* its result.
THEOREM StackBalanced == Spec => []LinesLeaveNoTrace
<1>1. IInv => LinesLeaveNoTrace
  BY DEF IInv, StackInv, LinesLeaveNoTrace
<1>2. QED
  BY <1>1, Invariance, PTL

\* What is evaluated is the input, line by line, each whole and once.
THEOREM EvaluatesTheInput == Spec => []LinesAreTheInput
<1>1. IInv => LinesAreTheInput
  <2> SUFFICES ASSUME IInv PROVE LinesAreTheInput
    OBVIOUS
  <2>1. pc = "prompt" /\ got_eof =>
          log # << >> /\ log[Len(log)].from + Len(log[Len(log)].text) = Len(input)
    BY DEF IInv, LogInv, LogEnd, EndsAt
  <2>2. QED
    BY <2>1 DEF IInv, LogInv, Sound, LinesAreTheInput
<1>2. QED
  BY <1>1, Invariance, PTL

\* The return value tells whether anything failed.
THEOREM FailuresRemembered == Spec => []FailuresTaint
<1>1. IInv => FailuresTaint
  BY DEF IInv, RetvalInv, Failed, FailuresTaint, At
<1>2. QED
  BY <1>1, Invariance, PTL

\* Nothing is dumped to a file unless the first script gave its name.
THEOREM DumpsNamed == Spec => []DumpsExplained
<1>1. IInv => DumpsExplained
  BY DEF IInv, LogInv, Sound, DumpsExplained
<1>2. QED
  BY <1>1, Invariance, PTL

==============================================================================
