--------------------------------- MODULE Repl ---------------------------------
(***************************************************************************)
(* The interactive loop of the repl program (c/repl.c).  After the loader  *)
(* has left the result of the first script on the value stack, or nothing, *)
(* handle_interactive reads standard input character by character into a   *)
(* line buffer and evaluates each line inside duk_safe_call, which shares  *)
(* the stack frame of its caller.  What compiling, running and formatting  *)
(* a line gives is a choice.                                               *)
(***************************************************************************)
EXTENDS DuktapeStack

CONSTANTS
  LineBufSize,        \* LINEBUF_SIZE
  Chars,              \* the characters of a line
  BytecodeMark,       \* 0xbf, one of them
  Inputs              \* what standard input may hold

Newline == "newline"
ASSUME ReplAssumption ==
  /\ LineBufSize \in Nat \ {0}
  /\ BytecodeMark \in Chars /\ Newline \notin Chars
  /\ Inputs \subseteq Seq(Chars \union { Newline })

\* The stack the loader leaves: the result of the first script, if one ran.
Bases == { << >>, << "value" >>, << "string" >> }

VARIABLES
  input, pos,         \* standard input and how much of it is read
  base,               \* the stack at the start
  pc,
  stack,
  buffer, idx,        \* the line buffer; it is not cleared between lines
  got_eof,
  from,               \* history: pos where the line started
  log,                \* history: the lines evaluated and how each ended
  retval,             \* of handle_interactive
  exit                \* of the program

vars == << input, pos, base, pc, stack, buffer, idx, got_eof, from, log, retval, exit >>
reading == << input, pos, base, buffer, idx, got_eof, from >>

At(label) == pc = label
Goto(label) == pc' = label

Init ==
  /\ input \in Inputs /\ pos = 0
  /\ base \in Bases
  /\ pc = "start"
  /\ stack = base
  /\ buffer \in { [ i \in 0 .. LineBufSize - 1 |-> c ] : c \in Chars } /\ idx = 0
  /\ got_eof = FALSE
  /\ from = 0 /\ log = << >>
  /\ retval = 0 /\ exit = "none"

------------------------------------------------------------------------------
(* Reading a line. *)

\* malloc of the line buffer.
Start ==
  /\ At("start")
  /\ \/ Goto("prompt") /\ UNCHANGED retval
     \/ Goto("back") /\ retval' = -1
  /\ UNCHANGED << reading, stack, log, exit >>

\* Faulty: the line before is still in the buffer.
PromptKeeping ==
  /\ At("prompt") /\ ~ got_eof
  /\ Goto("read")
  /\ from' = pos
  /\ UNCHANGED << input, pos, base, buffer, idx, got_eof, stack, log, retval, exit >>

Prompt ==
  /\ At("prompt") /\ ~ got_eof
  /\ Goto("read")
  /\ idx' = 0 /\ from' = pos
  /\ UNCHANGED << input, pos, base, buffer, got_eof, stack, log, retval, exit >>

Quit ==
  /\ At("prompt") /\ got_eof
  /\ Goto("back")
  /\ UNCHANGED << reading, stack, log, retval, exit >>

\* fgetc at the end of the input: what is in the buffer is a line, too.
ReadEof ==
  /\ At("read") /\ pos = Len(input)
  /\ got_eof' = TRUE
  /\ Goto("push")
  /\ UNCHANGED << input, pos, base, buffer, idx, from, stack, log, retval, exit >>

MoreInput == pos < Len(input)
NextChar == input[pos + 1]

ReadNewline ==
  /\ At("read") /\ MoreInput /\ NextChar = Newline
  /\ pos' = pos + 1
  /\ Goto("push")
  /\ UNCHANGED << input, base, buffer, idx, got_eof, from, stack, log, retval, exit >>

\* Faulty: one character too many.
RoomAndOne == idx <= LineBufSize
Room == idx < LineBufSize

ReadChar ==
  /\ At("read") /\ MoreInput /\ NextChar # Newline
  /\ Room
  /\ pos' = pos + 1
  /\ buffer' = [ i \in DOMAIN buffer \union { idx } |-> IF i = idx THEN NextChar ELSE buffer[i] ]
  /\ idx' = idx + 1
  /\ UNCHANGED << input, base, pc, got_eof, from, stack, log, retval, exit >>

LineTooLong ==
  /\ At("read") /\ MoreInput /\ NextChar # Newline
  /\ ~ Room
  /\ pos' = pos + 1
  /\ retval' = -1
  /\ Goto("back")
  /\ UNCHANGED << input, base, buffer, idx, got_eof, from, stack, log, exit >>

------------------------------------------------------------------------------
(* Evaluating it. *)

Line == [ i \in 1 .. idx |-> buffer[i - 1] ]
IsBytecode == idx >= 1 /\ buffer[0] = BytecodeMark

\* The kind of the value at index -n of the frame the line is evaluated in.
Below(s, n) == IF n <= Len(s) THEN s[Len(s) - n + 1] ELSE "none"

\* The arguments of the safe call.
PushLine ==
  /\ At("push")
  /\ stack' = Push(Push(Push(stack, "pointer"), "number"), "string")
  /\ Goto("compile")
  /\ UNCHANGED << reading, log, retval, exit >>

\* Faulty: both take it.
CompileAlike ==
  /\ At("compile")
  /\ stack' = Push(Pop(stack), "function")
  /\ Goto(IF Below(stack', 4) = "string" THEN "dump" ELSE "run")
  /\ UNCHANGED << reading, log, retval, exit >>

\* The source takes the file name off the stack, bytecode leaves it there.
Compile ==
  /\ At("compile")
  /\ stack' = Push(IF IsBytecode THEN stack ELSE Pop(stack), "function")
  /\ Goto(IF Below(stack', 4) = "string" THEN "dump" ELSE "run")
  /\ UNCHANGED << reading, log, retval, exit >>

\* duk_safe_call cuts the frame back to where the arguments began and leaves
\* one value.
Cut(s) == SubSeq(s, 1, Len(base))
Ends(end) ==
  /\ log' = Append(log, [ from |-> from, text |-> Line, end |-> end ])
  /\ stack' = Push(Cut(stack), IF end = "threw" THEN "error" ELSE "value")
  /\ Goto(IF end = "threw" THEN "complain" ELSE "settle")
  /\ UNCHANGED << reading, retval, exit >>

\* Refused by the compiler or the bytecode loader; thrown by the line or by
\* the string coercion of what it gave; a file that does not open or is
\* written in part.
Throws == pc \in { "compile", "dump", "run" } /\ Ends("threw")

\* The function is written to a file instead of being called.
Dump == At("dump") /\ Ends("dumped")
Run == At("run") /\ Ends("ran")

\* Faulty: the error stays on the stack.
ComplainOnly ==
  /\ At("complain")
  /\ retval' = -1
  /\ Goto("prompt")
  /\ UNCHANGED << reading, stack, log, exit >>

\* Faulty: an error is forgotten.
ComplainUntainted ==
  /\ At("complain")
  /\ stack' = Pop(stack)
  /\ Goto("prompt")
  /\ UNCHANGED << reading, log, retval, exit >>

\* print_pop_error.
Complain ==
  /\ At("complain")
  /\ stack' = Pop(stack)
  /\ retval' = -1
  /\ Goto("prompt")
  /\ UNCHANGED << reading, log, exit >>

Settle ==
  /\ At("settle")
  /\ stack' = Pop(stack)
  /\ Goto("prompt")
  /\ UNCHANGED << reading, log, retval, exit >>

\* main pops the result of the first script and ends well whatever retval is;
\* on an empty stack the pop throws with nobody to catch it.
Back ==
  /\ At("back")
  /\ IF CanPop(stack, 1) THEN stack' = Pop(stack) /\ exit' = "success"
                         ELSE exit' = "abort" /\ UNCHANGED stack
  /\ Goto("end")
  /\ UNCHANGED << reading, log, retval >>

Next == Start \/ Prompt \/ Quit \/ ReadEof \/ ReadNewline \/ ReadChar \/ LineTooLong
        \/ PushLine \/ Compile \/ Throws \/ Dump \/ Run \/ Complain \/ Settle \/ Back

\* One thread; a line that never ends is cut off by the machine.
Spec == Init /\ [][Next]_vars /\ WF_vars(Next)

------------------------------------------------------------------------------
(* Properties. *)

Pcs == { "start", "prompt", "read", "push", "compile", "dump", "run", "complain",
         "settle", "back", "end" }

\* Every variable keeps its type; in particular no character is stored beyond
\* the line buffer (c/repl.c:170-176).
TypeOK ==
  /\ base \in Bases
  /\ pc \in Pcs
  /\ pos \in 0 .. Len(input) /\ from \in 0 .. pos
  /\ \A i \in 1 .. Len(stack) : stack[i] \in Kinds
  /\ buffer \in [ 0 .. LineBufSize - 1 -> Chars ]
  /\ idx \in 0 .. LineBufSize
  /\ got_eof \in BOOLEAN
  /\ retval \in { 0, -1 } /\ exit \in { "none", "success", "abort" }

\* However a line ends, the stack is as the first script left it when the next
\* line begins, and the pop in main takes the result of the first script, not
\* something of a line (c/repl.c:186-194, :20).
LinesLeaveNoTrace ==
  /\ pc \in { "start", "prompt", "read", "push", "back" } => stack = base
  /\ exit = "success" => stack = << >>

\* The lines evaluated are those of the input, each once, in order and whole,
\* the last one also without a newline; nothing of an earlier line that is
\* still in the buffer is evaluated again (c/repl.c:157-186).
LinesAreTheInput ==
  /\ \A i \in DOMAIN log :
       /\ log[i].from + Len(log[i].text) <= pos
       /\ \A k \in DOMAIN log[i].text :
            log[i].text[k] = input[log[i].from + k] /\ log[i].text[k] # Newline
       /\ IF i = 1 THEN log[i].from = 0
          ELSE /\ log[i].from = log[i - 1].from + Len(log[i - 1].text) + 1
               /\ input[log[i].from] = Newline
  /\ pc = "prompt" /\ got_eof =>
       log # << >> /\ log[Len(log)].from + Len(log[Len(log)].text) = Len(input)

\* The loop reports a failure exactly if a line failed, a line was too long or
\* there was no buffer (c/repl.c:153, :173, :191).
FailuresTaint ==
  At("back") =>
    (retval = -1 <=> \/ \E i \in DOMAIN log : log[i].end = "threw"
                     \/ ~ got_eof)

\* A line is dumped to a file only if the first script gave a string: its
\* source takes the place of the file name at index -4; bytecode never does
\* (c/repl.c:73).
DumpsExplained ==
  \A i \in DOMAIN log :
    log[i].end = "dumped" =>
      base = << "string" >> /\ (log[i].text = << >> \/ log[i].text[1] # BytecodeMark)

\* What c/repl.c:72 says: dumping is optional, so a line of the interactive
\* program, which has no such option, is run.
DumpIsOptional == \A i \in DOMAIN log : log[i].end # "dumped"
==============================================================================
