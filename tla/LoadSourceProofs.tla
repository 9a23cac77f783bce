--------------------------- MODULE LoadSourceProofs ---------------------------
(***************************************************************************)
(* Theorems about LoadSource, for every set of worlds.  The invariant that *)
(* carries them follows the control point: what the value stack holds at   *)
(* each, that input_seg still points at the input wherever it is read,     *)
(* and that the bytes handed to _ckb_load_js_source are the code asked     *)
(* for.                                                                    *)
(***************************************************************************)
EXTENDS LoadSource, SequenceTheorems, TLAPS

\* What is pushed comes off again, and leaves what was there.
LEMMA PushPop ==
  ASSUME NEW s \in Seq(Kinds), NEW k \in Kinds
  PROVE  /\ Push(s, k) \in Seq(Kinds)
         /\ Len(Push(s, k)) = Len(s) + 1
         /\ \A i \in 1 .. Len(s) : Push(s, k)[i] = s[i]
         /\ Push(s, k)[Len(s) + 1] = k
         /\ CanPop(Push(s, k), 1)
         /\ Pop(Push(s, k)) = s
<1>1. Push(s, k) \in Seq(Kinds) /\ Len(Push(s, k)) = Len(s) + 1
      /\ (\A i \in 1 .. Len(s) : Push(s, k)[i] = s[i])
      /\ Push(s, k)[Len(s) + 1] = k
  BY AppendProperties DEF Push
<1>2. Pop(Push(s, k)) \in Seq(Kinds) /\ Len(Pop(Push(s, k))) = Len(s)
      /\ \A i \in 1 .. Len(s) : Pop(Push(s, k))[i] = Push(s, k)[i]
  BY <1>1, SubSeqProperties, LenProperties DEF Pop, PopN
<1>3. Pop(Push(s, k)) = s
  BY <1>1, <1>2, SeqEqual
<1>4. Len(s) \in Nat
  BY LenProperties
<1>5. QED
  BY <1>1, <1>3, <1>4 DEF CanPop

\* Two values pushed and two removed.
LEMMA PushPopTwo ==
  ASSUME NEW s \in Seq(Kinds), NEW j \in Kinds, NEW k \in Kinds
  PROVE  PopN(Push(Push(s, j), k), 2) = s
<1> DEFINE t == Push(Push(s, j), k)
<1>1. /\ t \in Seq(Kinds) /\ Len(t) = Len(s) + 2
      /\ \A i \in 1 .. Len(s) : t[i] = s[i]
  BY AppendProperties, LenProperties DEF Push
<1>2. PopN(t, 2) \in Seq(Kinds) /\ Len(PopN(t, 2)) = Len(s)
      /\ \A i \in 1 .. Len(s) : PopN(t, 2)[i] = t[i]
  BY <1>1, SubSeqProperties, LenProperties DEF PopN
<1>3. QED
  BY <1>1, <1>2, SeqEqual

Given == IF world.argc >= 1 THEN world.hexRet = 0 ELSE ScriptLoaded
Intact == at = "argv" \/ script
Ref == << world.input.index, world.input.source >>

Early == { "boot", "begin", "verify", "prepare", "unwrap", "load", "eval" }
Reading == { "verify", "prepare", "items", "unwrap" }
Prepared == { "unwrap", "load", "eval", "running" }
Evaluating == { "eval", "running" }
Back == { "returned", "finish" }

StackInv ==
  /\ pc \in Early => vstack = << >>
  /\ pc = "items" => vstack = Preparing
  /\ pc = "running" => vstack = Calling
  /\ pc \in Back /\ ret = CKB_SUCCESS /\ exit = "running" =>
       vstack = IF ran = {} THEN << >> ELSE Push(<< >>, "value")

InputInv ==
  /\ pc \in Reading \union {"load"} \union Evaluating => Given
  /\ pc \in Reading => Intact
  /\ pc = "verify" => ~ (world.input.tag = "empty" /\ world.argc = 0)
  /\ pc \in { "prepare", "items", "unwrap", "load" } \union Evaluating =>
       world.input.tag \in { "bytes", "cell" }
  /\ pc = "load" => world.input.tag = "cell" /\ cell = Ref
  /\ pc \in Evaluating =>
       \/ codeAt = "input" /\ Intact /\ world.input.tag = "bytes"
       \/ /\ codeAt = "data" /\ world.input.tag = "cell"
          /\ Ref \in DOMAIN world.tx
          /\ world.tx[Ref].size <= BufferSize
          /\ data = world.tx[Ref]

ArgvInv ==
  /\ pc = "items" => /\ Len(array) <= Len(world.input.args)
                     /\ \A i \in 1 .. Len(array) : array[i] = world.input.args[i]
  /\ pc \in Prepared => argv = world.input.args

Ended == Asked = NoCode \/ (ran = {Asked} /\ Asked.effect = "value")

RanInv ==
  /\ pc \in Early \union {"items"} => ran = {}
  /\ pc = "running" => ran = {CodeSeen}
  /\ ran # {} => ran = {Asked} /\ Asked \in Runnable
  /\ pc \in Back /\ ret = CKB_SUCCESS => Ended
  /\ exit = "exited" => pc \in Back
  /\ pc = "finish" => ret = CKB_SUCCESS /\ world.main = "repl"

HeapInv ==
  /\ heap = "destroyed" => exit = "exited"
  /\ exit = "exited" /\ Cleans =>
       heap = "destroyed" /\ (ret = CKB_SUCCESS => vstack = << >>)

IInv == TypeOK /\ StackInv /\ InputInv /\ ArgvInv /\ RanInv /\ HeapInv

------------------------------------------------------------------------------
(* The value stack. *)

\* AddItem's calls leave the stack as they found it.
LEMMA AddItemBalanced ==
  ASSUME NEW s \in Seq(Kinds)
  PROVE  PutProp(Pop(SwapTop(Push(Push(s, "buffer"), "arraybuffer")))) = s
<1> DEFINE t == Push(Push(s, "buffer"), "arraybuffer")
<1>1. "buffer" \in Kinds /\ "arraybuffer" \in Kinds
  BY DEF Kinds
<1>2. PopN(t, 2) = s
  BY <1>1, PushPopTwo
<1>3. t[Len(t)] = "arraybuffer" /\ t[Len(t) - 1] = "buffer"
  BY <1>1, AppendProperties, LenProperties DEF Push
<1>4. SwapTop(t) = Push(Push(s, "arraybuffer"), "buffer")
  BY <1>2, <1>3 DEF SwapTop
<1>5. Push(s, "arraybuffer") \in Seq(Kinds)
  BY <1>1, PushPop
<1>6. QED
  BY <1>1, <1>4, <1>5, PushPop DEF PutProp

\* The stacks that StackInv names, and what the loader's calls make of them.
LEMMA StackShapes ==
  /\ << >> \in Seq(Kinds) /\ ~ CanPop(<< >>, 1)
  /\ Preparing \in Seq(Kinds) /\ Pop(PutProp(Preparing)) = << >>
  /\ Calling \in Seq(Kinds) /\ PopN(Calling, 2) = << >>
  /\ \A k \in Kinds : Push(<< >>, k) \in Seq(Kinds)
                      /\ CallMethod(Calling, k) = Push(<< >>, k)
                      /\ Pop(Push(<< >>, k)) = << >>
  /\ {"object", "array", "function", "value", "string"} \subseteq Kinds
<1>1. << >> \in Seq(Kinds) /\ Len(<< >>) = 0
  BY EmptySeq
<1>2. {"object", "array", "function", "value", "string"} \subseteq Kinds
  BY DEF Kinds
<1>3. \A k \in Kinds : Push(<< >>, k) \in Seq(Kinds) /\ Pop(Push(<< >>, k)) = << >>
  BY <1>1, PushPop
<1>4. Preparing \in Seq(Kinds) /\ Calling \in Seq(Kinds)
  BY <1>2, <1>3, PushPop DEF Preparing, Calling
<1>5. Pop(PutProp(Preparing)) = << >>
  BY <1>2, <1>3, PushPop DEF Preparing, PutProp
<1>6. PopN(Calling, 2) = << >>
  BY <1>1, <1>2, PushPopTwo DEF Calling
<1>7. \A k \in Kinds : CallMethod(Calling, k) = Push(<< >>, k)
  BY <1>6 DEF CallMethod
<1>8. ~ CanPop(<< >>, 1)
  BY <1>1 DEF CanPop
<1>9. QED
  BY <1>1, <1>2, <1>3, <1>4, <1>5, <1>6, <1>7, <1>8

------------------------------------------------------------------------------
(* Reading the world. *)

LEMMA WorldFixed ==
  ASSUME world' = world
  PROVE  /\ Asked' = Asked /\ Given' = Given /\ Ref' = Ref /\ Cleans' = Cleans
         /\ ScriptLoaded' = ScriptLoaded
  BY DEF Asked, Given, Ref, ScriptLoaded, Cleans

LEMMA SeenInput ==
  ASSUME Intact
  PROVE  InputSeen = world.input
  BY DEF Intact, InputSeen

\* Where the code is about to be evaluated, the bytes at hand are the code
\* that was asked for.
LEMMA SeenCode ==
  ASSUME TypeOK, InputInv, pc \in Evaluating
  PROVE  /\ CodeSeen \in Codes
         /\ Asked = Wanted(CodeSeen)
<1>1. IsWorld(world) /\ Given
  BY DEF TypeOK, InputInv, Evaluating
<1>2. CASE codeAt = "input" /\ Intact /\ world.input.tag = "bytes"
  <2>1. CodeSeen = world.input.code
    BY <1>2, SeenInput DEF CodeSeen
  <2>2. world.input.code \in Codes
    BY <1>1 DEF IsWorld, Inputs
  <2>3. Asked = Wanted(world.input.code)
    BY <1>1, <1>2 DEF Asked, Given
  <2>4. QED
    BY <2>1, <2>2, <2>3
<1>3. CASE /\ codeAt = "data" /\ world.input.tag = "cell"
           /\ Ref \in DOMAIN world.tx
           /\ world.tx[Ref].size <= BufferSize
           /\ data = world.tx[Ref]
  <2>1. CodeSeen = world.tx[Ref]
    BY <1>3 DEF CodeSeen
  <2>2. world.tx[Ref] \in Codes
    BY <1>1, <1>3 DEF IsWorld
  <2>3. Asked = Wanted(world.tx[Ref])
    BY <1>1, <1>3 DEF Asked, Given, Ref
  <2>4. QED
    BY <2>1, <2>2, <2>3
<1>4. QED
  BY <1>2, <1>3 DEF InputInv, Evaluating

------------------------------------------------------------------------------
(* The invariant. *)

LEMMA InitIInv == Init => IInv
<1> SUFFICES ASSUME Init PROVE IInv
  OBVIOUS
<1>1. IsWorld(world)
  BY WorldsAssumption DEF Init
<1>2. TypeOK
  <2>1. << >> \in Seq(Kinds) /\ << >> \in Seq(Items)
    BY EmptySeq
  <2>2. NoCode \in [ size : Nat, head : Heads, effect : Effects ]
    BY DEF NoCode, Heads, Effects
  <2>3. QED
    BY <1>1, <2>1, <2>2 DEF Init, TypeOK, NoCell, CKB_SUCCESS
<1>3. StackInv /\ InputInv /\ ArgvInv /\ RanInv /\ HeapInv
  BY DEF Init, StackInv, InputInv, ArgvInv, RanInv, HeapInv, Early, Reading, Evaluating,
         Prepared, Back
<1>4. QED
  BY <1>2, <1>3 DEF IInv

LEMMA StepIInv == IInv /\ [Next]_vars => IInv'
<1> SUFFICES ASSUME IInv, [Next]_vars PROVE IInv'
  OBVIOUS
<1> USE DEF IInv, At, Goto, Return, Abort, Leave, locals, context
<1> USE DEF CKB_SUCCESS, ERROR_LOADING_SCRIPT, ERROR_DUKTAPE, ERROR_LOADING_DATA, ERROR_HEX
<1>1. CASE Boot
  BY <1>1, WorldFixed DEF Boot, TypeOK, StackInv, Early, Back, InputInv,
     Reading, Evaluating, Intact, ArgvInv, Prepared, RanInv, Ended, HeapInv
<1>2. CASE FailMain
  BY <1>2, WorldFixed DEF FailMain, TypeOK, StackInv, Early, Back, InputInv,
     Reading, Evaluating, Intact, ArgvInv, Prepared, RanInv, Ended, HeapInv
<1>3. CASE QuitMain
  BY <1>3, WorldFixed DEF QuitMain, TypeOK, StackInv, Early, Back, InputInv,
     Reading, Evaluating, Intact, ArgvInv, Prepared, RanInv, Ended, HeapInv
<1>4. CASE Interact
  BY <1>4, WorldFixed DEF Interact, TypeOK, StackInv, Early, Back, InputInv,
     Reading, Evaluating, Intact, ArgvInv, Prepared, RanInv, Ended, HeapInv
<1>5. CASE PopResult
  <2> USE <1>5, WorldFixed DEF PopResult
  <2>1. vstack' = << >> /\ pc \in Back /\ ret = CKB_SUCCESS
    <3>1. pc \in Back /\ ret = CKB_SUCCESS /\ exit = "running"
      BY DEF Finishing, RanInv, Back
    <3>2. vstack = Push(<< >>, "value")
      BY <3>1, StackShapes DEF StackInv
    <3>3. QED
      BY <3>1, <3>2, StackShapes
  <2>2. TypeOK'
    BY <2>1, StackShapes DEF TypeOK
  <2>3. StackInv'
    BY <2>1 DEF StackInv, Early, Back
  <2>4. InputInv'
    BY <2>1 DEF InputInv, Reading, Evaluating, Back
  <2>5. ArgvInv'
    BY <2>1 DEF ArgvInv, Prepared, Back
  <2>6. RanInv'
    BY <2>1 DEF RanInv, Early, Back, Ended
  <2>7. HeapInv'
    BY <2>1 DEF HeapInv
  <2>8. QED
    BY <2>2, <2>3, <2>4, <2>5, <2>6, <2>7
<1>6. CASE PopNothing
  <2> USE <1>6, WorldFixed DEF PopNothing
  <2>1. RanInv'
    BY DEF RanInv, Early, Back, Ended, CodeSeen, InputSeen, Finishing
  <2>2. HeapInv'
    BY DEF HeapInv, Finishing
  <2>3. TypeOK' /\ StackInv' /\ InputInv' /\ ArgvInv'
    BY DEF TypeOK, StackInv, Early, Back, InputInv, Reading, Evaluating, Intact,
       ArgvInv, Prepared
  <2>4. QED
    BY <2>1, <2>2, <2>3
<1>7. CASE RejectHex
  BY <1>7, WorldFixed DEF RejectHex, TypeOK, StackInv, Early, Back, InputInv,
     Reading, Evaluating, Intact, ArgvInv, Prepared, RanInv, Ended, HeapInv
<1>8. CASE DecodeArgv
  <2> USE <1>8, WorldFixed DEF DecodeArgv
  <2>1. InputInv'
    BY DEF InputInv, Reading, Evaluating, Intact, Given
  <2>2. TypeOK' /\ StackInv' /\ ArgvInv' /\ RanInv' /\ HeapInv'
    BY DEF TypeOK, StackInv, Early, Back, ArgvInv, Prepared, RanInv, Ended,
       HeapInv
  <2>3. QED
    BY <2>1, <2>2
<1>9. CASE RejectScript
  BY <1>9, WorldFixed DEF RejectScript, TypeOK, StackInv, Early, Back, InputInv,
     Reading, Evaluating, Intact, ArgvInv, Prepared, RanInv, Ended, HeapInv
<1>10. CASE NothingAsked
  <2> USE <1>10, WorldFixed DEF NothingAsked
  <2>1. Asked = NoCode /\ ran = {} /\ vstack = << >>
    BY DEF Asked, RanInv, StackInv, Early
  <2>2. StackInv'
    BY <2>1 DEF StackInv, Early, Back
  <2>3. RanInv'
    BY <2>1 DEF RanInv, Early, Back, Ended
  <2>4. TypeOK' /\ InputInv' /\ ArgvInv' /\ HeapInv'
    BY <2>1 DEF TypeOK, InputInv, Reading, Evaluating, Intact, ArgvInv,
       Prepared, HeapInv
  <2>5. QED
    BY <2>2, <2>3, <2>4
<1>11. CASE LoadScript
  <2> USE <1>11, WorldFixed DEF LoadScript
  <2>1. InputInv'
    BY DEF InputInv, Reading, Evaluating, Intact, Given
  <2>2. TypeOK' /\ StackInv' /\ ArgvInv' /\ RanInv' /\ HeapInv'
    BY DEF TypeOK, StackInv, Early, Back, ArgvInv, Prepared, RanInv, Ended,
       HeapInv
  <2>3. QED
    BY <2>1, <2>2
<1>12. CASE RejectInput
  BY <1>12, WorldFixed DEF RejectInput, TypeOK, StackInv, Early, Back, InputInv,
     Reading, Evaluating, Intact, ArgvInv, Prepared, RanInv, Ended, HeapInv
<1>13. CASE AcceptInput
  <2> USE <1>13, WorldFixed DEF AcceptInput
  <2>1. InputInv'
    BY SeenInput DEF InputInv, Reading, Evaluating, Intact, Verified
  <2>2. TypeOK' /\ StackInv' /\ ArgvInv' /\ RanInv' /\ HeapInv'
    BY DEF TypeOK, StackInv, Early, Back, ArgvInv, Prepared, RanInv, Ended,
       HeapInv
  <2>3. QED
    BY <2>1, <2>2
<1>14. CASE OpenArgv
  <2> USE <1>14, WorldFixed DEF OpenArgv
  <2>1. vstack' = Preparing /\ array' \in Seq(Items)
    BY EmptySeq DEF StackInv, Early, Preparing
  <2>2. TypeOK'
    BY <2>1, StackShapes DEF TypeOK
  <2>3. StackInv'
    BY <2>1 DEF StackInv, Early, Back
  <2>4. InputInv' /\ ArgvInv' /\ RanInv' /\ HeapInv'
    BY <2>1 DEF InputInv, Reading, Evaluating, Intact, ArgvInv, Prepared,
       RanInv, Ended, HeapInv, Early, Back
  <2>5. QED
    BY <2>2, <2>3, <2>4
<1>15. CASE AddItem
  <2> USE <1>15, WorldFixed DEF AddItem
  <2>1. /\ vstack' = vstack /\ InputSeen = world.input
        /\ world.input.args \in Seq(Items)
        /\ array' \in Seq(Items) /\ Len(array') = Len(array) + 1
        /\ \A i \in 1 .. Len(array) : array'[i] = array[i]
        /\ array'[Len(array) + 1] = world.input.args[Len(array) + 1]
    <3>1. InputSeen = world.input
      BY SeenInput DEF InputInv, Reading
    <3>2. world.input.args \in Seq(Items) /\ vstack \in Seq(Kinds) /\ array \in Seq(Items)
      BY DEF TypeOK, IsWorld, Inputs
    <3>3. Len(array) + 1 \in 1 .. Len(world.input.args)
      BY <3>1, <3>2, LenProperties
    <3>4. world.input.args[Len(array) + 1] \in Items
      BY <3>2, <3>3, ElementOfSeq
    <3>5. vstack' = vstack
      BY <3>2, AddItemBalanced
    <3>6. QED
      BY <3>1, <3>2, <3>4, <3>5, AppendProperties
  <2>2. TypeOK'
    BY <2>1 DEF TypeOK
  <2>3. StackInv'
    BY <2>1 DEF StackInv, Early, Back
  <2>4. ArgvInv'
    <3>1. Len(array) \in Nat /\ Len(world.input.args) \in Nat
      BY <2>1, LenProperties DEF TypeOK
    <3>2. QED
      BY <2>1, <3>1 DEF ArgvInv, Prepared
  <2>5. InputInv' /\ RanInv' /\ HeapInv'
    BY <2>1 DEF InputInv, Reading, Evaluating, Intact, RanInv, Ended, HeapInv,
       Early, Back
  <2>6. QED
    BY <2>2, <2>3, <2>4, <2>5
<1>16. CASE SetArgv
  <2> USE <1>16, WorldFixed DEF SetArgv
  <2>1. vstack' = << >> /\ array = world.input.args
    <3>1. InputSeen = world.input
      BY SeenInput DEF InputInv, Reading
    <3>2. world.input.args \in Seq(Items) /\ array \in Seq(Items)
      BY DEF TypeOK, IsWorld, Inputs
    <3>3. Len(array) = Len(world.input.args)
      BY <3>1, <3>2, LenProperties DEF ArgvInv
    <3>4. array = world.input.args
      BY <3>2, <3>3, SeqEqual DEF ArgvInv
    <3>5. QED
      BY <3>4, StackShapes DEF StackInv
  <2>2. TypeOK'
    BY <2>1, StackShapes DEF TypeOK
  <2>3. StackInv'
    BY <2>1 DEF StackInv, Early, Back
  <2>4. ArgvInv'
    BY <2>1 DEF ArgvInv, Prepared
  <2>5. InputInv' /\ RanInv' /\ HeapInv'
    BY <2>1 DEF InputInv, Reading, Evaluating, Intact, RanInv, Ended, HeapInv,
       Early, Back
  <2>6. QED
    BY <2>2, <2>3, <2>4, <2>5
<1>17. CASE TakeBytes
  <2> USE <1>17, WorldFixed DEF TakeBytes
  <2>1. InputSeen = world.input
    BY SeenInput DEF InputInv, Reading
  <2>2. InputInv'
    BY <2>1 DEF InputInv, Reading, Evaluating, Intact
  <2>3. TypeOK' /\ StackInv' /\ ArgvInv' /\ RanInv' /\ HeapInv'
    BY <2>1 DEF TypeOK, StackInv, Early, Back, ArgvInv, Prepared, RanInv, Ended,
       HeapInv
  <2>4. QED
    BY <2>2, <2>3
<1>18. CASE TakeCell
  <2> USE <1>18, WorldFixed DEF TakeCell
  <2>1. InputSeen = world.input /\ Ref \in Nat \X Nat
    BY SeenInput DEF InputInv, Reading, TypeOK, IsWorld, Inputs, Ref
  <2>2. TypeOK'
    BY <2>1 DEF TypeOK, Ref
  <2>3. InputInv'
    BY <2>1 DEF InputInv, Reading, Evaluating, Intact, Ref
  <2>4. StackInv' /\ ArgvInv' /\ RanInv' /\ HeapInv'
    BY <2>1 DEF StackInv, Early, Back, ArgvInv, Prepared, RanInv, Ended, HeapInv
  <2>5. QED
    BY <2>2, <2>3, <2>4
<1>19. CASE MissCell
  BY <1>19, WorldFixed DEF MissCell, TypeOK, StackInv, Early, Back, InputInv,
     Reading, Evaluating, Intact, ArgvInv, Prepared, RanInv, Ended, HeapInv
<1>20. CASE RejectCell
  <2> USE <1>20, WorldFixed DEF RejectCell
  <2>1. data' \in [ size : Nat, head : Heads, effect : Effects ] /\ script' \in BOOLEAN
    <3>1. world.tx[cell] \in [ size : Nat, head : Heads, effect : Effects ]
      BY CodesAssumption DEF TypeOK, IsWorld, Exists
    <3>2. QED
      BY <3>1, BufferAssumption DEF FillData, Cut, TypeOK, IsWorld
  <2>2. TypeOK'
    BY <2>1 DEF TypeOK
  <2>3. StackInv' /\ InputInv' /\ ArgvInv' /\ RanInv' /\ HeapInv'
    BY <2>1 DEF StackInv, Early, Back, InputInv, Reading, Evaluating, Intact,
       ArgvInv, Prepared, RanInv, Ended, HeapInv
  <2>4. QED
    BY <2>2, <2>3
<1>21. CASE LoadCell
  <2> USE <1>21, WorldFixed DEF LoadCell
  <2>1. /\ data' = world.tx[Ref] /\ script' \in BOOLEAN /\ cell = Ref
        /\ Ref \in DOMAIN world.tx /\ world.tx[Ref].size <= BufferSize
        /\ data' \in [ size : Nat, head : Heads, effect : Effects ]
    <3>1. cell = Ref /\ Ref \in DOMAIN world.tx
      BY DEF InputInv, Exists
    <3>2. world.tx[Ref] \in [ size : Nat, head : Heads, effect : Effects ]
      BY <3>1, CodesAssumption DEF TypeOK, IsWorld
    <3>3. world.tx[Ref].size \in Nat /\ world.tx[Ref].size <= BufferSize
      BY <3>1, <3>2 DEF Fits
    <3>4. data' = world.tx[Ref]
      BY <3>1, <3>3, BufferAssumption DEF FillData, Cut
    <3>5. QED
      BY <3>1, <3>2, <3>3, <3>4 DEF FillData, TypeOK, IsWorld
  <2>2. TypeOK'
    BY <2>1 DEF TypeOK
  <2>3. InputInv'
    BY <2>1 DEF InputInv, Reading, Evaluating, Intact
  <2>4. StackInv' /\ ArgvInv' /\ RanInv' /\ HeapInv'
    BY <2>1 DEF StackInv, Early, Back, ArgvInv, Prepared, RanInv, Ended, HeapInv
  <2>5. QED
    BY <2>2, <2>3, <2>4
<1>22. CASE EvalNothing
  <2> USE <1>22, WorldFixed DEF EvalNothing
  <2>1. Asked = NoCode /\ ran = {} /\ vstack = << >>
    BY SeenCode DEF Evaluating, Wanted, RanInv, StackInv, Early
  <2>2. StackInv'
    BY <2>1 DEF StackInv, Early, Back
  <2>3. RanInv'
    BY <2>1 DEF RanInv, Early, Back, Ended
  <2>4. TypeOK' /\ InputInv' /\ ArgvInv' /\ HeapInv'
    BY <2>1 DEF TypeOK, InputInv, Reading, Evaluating, Intact, ArgvInv,
       Prepared, HeapInv
  <2>5. QED
    BY <2>2, <2>3, <2>4
<1>23. CASE Compile
  <2> USE <1>23, WorldFixed DEF Compile
  <2>1. /\ vstack' = Calling /\ ran' = {CodeSeen} /\ CodeSeen' = CodeSeen
        /\ CodeSeen = Asked /\ Asked \in Runnable
        /\ CodeSeen \in [ size : Nat, head : Heads, effect : Effects ]
    <3>1. CodeSeen \in Codes /\ Asked = Wanted(CodeSeen)
      BY SeenCode DEF Evaluating
    <3>2. CodeSeen \in [ size : Nat, head : Heads, effect : Effects ]
      BY <3>1, CodesAssumption
    <3>3. CodeSeen = Asked /\ Asked \in Runnable
      BY <3>1, <3>2 DEF Wanted, Runnable
    <3>4. vstack' = Calling /\ ran' = {CodeSeen}
      BY DEF StackInv, RanInv, Early, Calling
    <3>5. CodeSeen' = CodeSeen
      BY DEF CodeSeen, InputSeen
    <3>6. QED
      BY <3>2, <3>3, <3>4, <3>5
  <2>2. TypeOK'
    BY <2>1, StackShapes DEF TypeOK
  <2>3. StackInv'
    BY <2>1 DEF StackInv, Early, Back
  <2>4. RanInv'
    BY <2>1 DEF RanInv, Early, Back, Ended
  <2>5. InputInv' /\ ArgvInv' /\ HeapInv'
    BY <2>1 DEF InputInv, Reading, Evaluating, Intact, ArgvInv, Prepared,
       HeapInv
  <2>6. QED
    BY <2>2, <2>3, <2>4, <2>5
<1>24. CASE CompileFails
  <2> USE <1>24, WorldFixed DEF CompileFails
  <2>1. vstack' \in Seq(Kinds)
    BY PushPop DEF TypeOK, Kinds
  <2>2. TypeOK'
    BY <2>1 DEF TypeOK
  <2>3. StackInv' /\ InputInv' /\ ArgvInv' /\ RanInv' /\ HeapInv'
    BY <2>1 DEF StackInv, Early, Back, InputInv, Reading, Evaluating, Intact,
       ArgvInv, Prepared, RanInv, Ended, HeapInv
  <2>4. QED
    BY <2>2, <2>3
<1>25. CASE BadBytecode
  BY <1>25, WorldFixed DEF BadBytecode, TypeOK, StackInv, Early, Back, InputInv,
     Reading, Evaluating, Intact, ArgvInv, Prepared, RanInv, Ended, HeapInv
<1>26. CASE CallEnds
  <2> USE <1>26, WorldFixed DEF CallEnds
  <2>1. /\ vstack' = Push(<< >>, "value") /\ vstack' \in Seq(Kinds)
        /\ ran = {CodeSeen}
    <3>1. vstack = Calling
      BY DEF StackInv
    <3>2. QED
      BY <3>1, StackShapes DEF RanInv
  <2>2. TypeOK'
    BY <2>1 DEF TypeOK
  <2>3. StackInv'
    BY <2>1 DEF StackInv, Early, Back
  <2>4. InputInv' /\ ArgvInv' /\ RanInv' /\ HeapInv'
    BY <2>1 DEF InputInv, Reading, Evaluating, Intact, ArgvInv, Prepared,
       RanInv, Ended, HeapInv, Early, Back
  <2>5. QED
    BY <2>2, <2>3, <2>4
<1>27. CASE CallThrows
  <2> USE <1>27, WorldFixed DEF CallThrows
  <2>1. vstack' \in Seq(Kinds)
    <3>1. vstack = Calling /\ "string" \in Kinds
      BY DEF StackInv, Kinds
    <3>2. QED
      BY <3>1, StackShapes
  <2>2. TypeOK'
    BY <2>1 DEF TypeOK
  <2>3. StackInv' /\ InputInv' /\ ArgvInv' /\ RanInv' /\ HeapInv'
    BY <2>1 DEF StackInv, Early, Back, InputInv, Reading, Evaluating, Intact,
       ArgvInv, Prepared, RanInv, Ended, HeapInv
  <2>4. QED
    BY <2>2, <2>3
<1>28. CASE OutOfMemory
  <2> USE <1>28, WorldFixed DEF OutOfMemory
  <2>1. RanInv'
    BY DEF RanInv, Early, Back, Ended, CodeSeen, InputSeen
  <2>2. TypeOK' /\ StackInv' /\ InputInv' /\ ArgvInv' /\ HeapInv'
    BY DEF TypeOK, StackInv, Early, Back, InputInv, Reading, Evaluating, Intact,
       ArgvInv, Prepared, HeapInv
  <2>3. QED
    BY <2>1, <2>2
<1>29. CASE OutOfCycles
  <2> USE <1>29, WorldFixed DEF OutOfCycles
  <2>1. RanInv'
    BY DEF RanInv, Early, Back, Ended, CodeSeen, InputSeen
  <2>2. TypeOK' /\ StackInv' /\ InputInv' /\ ArgvInv' /\ HeapInv'
    BY DEF TypeOK, StackInv, Early, Back, InputInv, Reading, Evaluating, Intact,
       ArgvInv, Prepared, HeapInv
  <2>3. QED
    BY <2>1, <2>2
<1>30. CASE UNCHANGED vars
  BY <1>30, WorldFixed DEF vars, TypeOK, StackInv, InputInv, ArgvInv, RanInv, HeapInv, Ended,
     Intact, CodeSeen, InputSeen
<1>31. QED
  BY <1>1, <1>2, <1>3, <1>4, <1>5, <1>6, <1>7, <1>8, <1>9, <1>10, <1>11, <1>12, <1>13, <1>14, <1>15, <1>16, <1>17, <1>18, <1>19, <1>20, <1>21, <1>22, <1>23, <1>24, <1>25, <1>26, <1>27, <1>28, <1>29, <1>30 DEF Next, Main, Find, Prepare, Fetch, Evaluate

LEMMA SpecIInv == Spec => []IInv
  BY InitIInv, StepIInv, PTL DEF Spec

------------------------------------------------------------------------------
(* The properties. *)

\* The loader keeps its types in every world.
THEOREM TypeCorrect == Spec => []TypeOK
<1>1. IInv => TypeOK
  BY DEF IInv
<1>2. QED
  BY SpecIInv, <1>1, PTL

\* No program of c/ exits with 0 unless the code it was asked for ran to its end,
\* or nothing was asked for.
THEOREM AcceptanceIsEarned == Spec => []AcceptMeansEvaluated
<1>1. IInv => AcceptMeansEvaluated
  BY DEF IInv, AcceptMeansEvaluated, RanInv, Ended
<1>2. QED
  BY SpecIInv, <1>1, PTL

\* Whatever the verdict, the only code that runs is the one asked for, whole.
THEOREM NothingElseRuns == Spec => []OnlyAskedRuns
<1>1. IInv => OnlyAskedRuns
  BY DEF IInv, OnlyAskedRuns, RanInv
<1>2. QED
  BY SpecIInv, <1>1, PTL

\* The code starts with its arguments in CKB.ARGV and an otherwise empty stack.
THEOREM ArgumentsAreThere == Spec => []RunsWithArguments
<1>1. IInv => RunsWithArguments
  BY DEF IInv, RunsWithArguments, StackInv, ArgvInv, Prepared, At
<1>2. QED
  BY SpecIInv, <1>1, PTL

\* The programs that clean up exit with their heap destroyed and nothing of the
\* evaluation left on the stack.
THEOREM CleanExit == Spec => []LeavesNothing
<1>1. IInv => LeavesNothing
  BY DEF IInv, LeavesNothing, HeapInv
<1>2. QED
  BY SpecIInv, <1>1, PTL

------------------------------------------------------------------------------
(* Why a program fails, and why it is aborted. *)

WhyInv == (pc \in Back => Explained) /\ CrashesExplained

\* A code that was asked for is no failure to find one.
LEMMA CodesAreAvailable ==
  /\ NoCode # Unavailable
  /\ \A c \in Codes : c.size # 0 => c # Unavailable
  BY DEF NoCode, Unavailable

\* An input that was given has arrived.
LEMMA GivenArrived ==
  ASSUME IsWorld(world), Given
  PROVE  Arrived
  BY DEF IsWorld, Given, Arrived, BadHex, BadScript

\* The reasons are in the world, and stay.
LEMMA ReasonsFixed ==
  ASSUME world' = world
  PROVE  /\ BadHex' <=> BadHex
         /\ BadScript' <=> BadScript
         /\ BadInput' <=> BadInput
         /\ BadCell' <=> BadCell
         /\ Asked' = Asked
  BY WorldFixed DEF BadHex, BadScript, BadInput, BadCell, Arrived, ScriptLoaded

\* What is explained stays so until something runs or is returned.
LEMMA StillExplained ==
  ASSUME world' = world, ret' = ret, ran' = ran, Explained
  PROVE  Explained'
  BY ReasonsFixed DEF Explained

\* Of the four reasons for a failure one applies at most.
LEMMA OneReason ==
  /\ BadHex => ~ BadScript /\ ~ BadInput /\ ~ BadCell
  /\ BadScript => ~ BadHex /\ ~ BadInput /\ ~ BadCell
  /\ BadInput => ~ BadHex /\ ~ BadScript /\ ~ BadCell
  /\ BadCell => ~ BadHex /\ ~ BadScript /\ ~ BadInput
  BY DEF BadHex, BadScript, BadInput, BadCell, Arrived

\* A cell fits or is too large.
LEMMA SizesKnown ==
  ASSUME IsWorld(world), NEW ref \in DOMAIN world.tx
  PROVE  world.tx[ref].size <= BufferSize <=> ~ (world.tx[ref].size > BufferSize)
  BY CodesAssumption, BufferAssumption DEF IsWorld

\* Where something is evaluated, none of them applies.
LEMMA NoReason ==
  ASSUME TypeOK, InputInv, pc \in Evaluating
  PROVE  ~ BadHex /\ ~ BadScript /\ ~ BadInput /\ ~ BadCell
<1>1. Arrived /\ world.input.tag \in { "bytes", "cell" }
  BY GivenArrived DEF TypeOK, InputInv, Evaluating
<1>2. CASE world.input.tag = "bytes"
  BY <1>1, <1>2 DEF Arrived, BadInput, BadCell
<1>3. CASE world.input.tag = "cell"
  <2>1. Ref \in DOMAIN world.tx /\ world.tx[Ref].size <= BufferSize
    BY <1>3 DEF InputInv, Evaluating
  <2>2. ~ BadCell
    BY <2>1, SizesKnown DEF BadCell, Ref, TypeOK
  <2>3. QED
    BY <1>1, <2>2 DEF Arrived, BadInput
<1>4. QED
  BY <1>1, <1>2, <1>3

\* What is evaluated, when there is something to evaluate, was asked for.
LEMMA SeenIsAsked ==
  ASSUME IInv, pc \in Evaluating, CodeSeen.size # 0
  PROVE  CodeSeen = Asked /\ Asked \in Codes /\ Asked # Unavailable
  BY SeenCode, CodesAreAvailable DEF IInv, Wanted

LEMMA HeadedIsAsked ==
  ASSUME IInv, pc \in Evaluating, CodeSeen.head # "none"
  PROVE  CodeSeen = Asked /\ Asked \in Codes /\ Asked # Unavailable
<1>1. CodeSeen \in Codes
  BY SeenCode DEF IInv
<1>2. CodeSeen.size # 0
  BY <1>1, CodesAssumption
<1>3. QED
  BY <1>2, SeenIsAsked

LEMMA StepWhy == IInv /\ IInv' /\ WhyInv /\ [Next]_vars => WhyInv'
<1> SUFFICES ASSUME IInv, IInv', WhyInv, [Next]_vars PROVE WhyInv'
  OBVIOUS
<1> USE DEF At, Goto, Return, Abort, Leave, locals, context
<1> USE DEF CKB_SUCCESS, ERROR_LOADING_SCRIPT, ERROR_DUKTAPE, ERROR_LOADING_DATA, ERROR_HEX
<1>1. CASE RejectHex \/ RejectScript
  <2>1. Asked = Unavailable /\ ran' = {} /\ world' = world
    BY <1>1 DEF RejectHex, RejectScript, Asked, IInv, RanInv, Early, TypeOK, IsWorld
  <2>2. BadHex \/ BadScript
    BY <1>1 DEF RejectHex, RejectScript, BadHex, BadScript
  <2>3. (ret' = ERROR_HEX /\ BadHex) \/ (ret' = ERROR_LOADING_SCRIPT /\ BadScript)
    BY <1>1 DEF RejectHex, RejectScript, BadHex, BadScript
  <2>4. Explained'
    BY <2>1, <2>2, <2>3, ReasonsFixed, OneReason DEF Explained
  <2>5. QED
    BY <1>1, <2>4 DEF RejectHex, RejectScript, WhyInv, CrashesExplained
<1>2. CASE RejectInput
  <2>1. BadInput /\ ran' = {} /\ world' = world /\ ret' = ERROR_LOADING_SCRIPT /\ exit' = exit
    <3>1. InputSeen = world.input /\ Given /\ world.input.tag \notin { "bytes", "cell" }
      BY <1>2, SeenInput DEF RejectInput, Verified, IInv, InputInv, Reading
    <3>2. Arrived /\ (world.input.tag = "empty" => world.argc >= 1)
      BY <1>2, <3>1 DEF RejectInput, IInv, InputInv, TypeOK, IsWorld, Given, Arrived, BadHex, BadScript
    <3>3. QED
      BY <1>2, <3>1, <3>2 DEF RejectInput, BadInput, IInv, RanInv, Early
  <2>2. Explained'
    BY <2>1, ReasonsFixed, OneReason DEF Explained
  <2>3. QED
    BY <2>1, <2>2, <1>2 DEF RejectInput, WhyInv, CrashesExplained
<1>3. CASE MissCell \/ RejectCell
  <2>1. world.input.tag = "cell" /\ cell = Ref /\ world' = world /\ exit' = exit /\ Given
        /\ ret' = ERROR_LOADING_DATA /\ ran' = {}
    BY <1>3 DEF MissCell, RejectCell, IInv, InputInv, RanInv, Early
  <2>2. Ref \in DOMAIN world.tx => ~ (world.tx[Ref].size <= BufferSize)
    BY <1>3, <2>1 DEF MissCell, RejectCell, Exists, Fits
  <2>3. BadCell
    BY <2>1, <2>2, SizesKnown, GivenArrived DEF BadCell, Ref, IInv, TypeOK
  <2>4. Explained'
    BY <2>1, <2>3, ReasonsFixed, OneReason DEF Explained
  <2>5. QED
    BY <1>3, <2>1, <2>4 DEF MissCell, RejectCell, WhyInv, CrashesExplained
<1>4. CASE NothingAsked \/ EvalNothing
  <2>1. ret' = CKB_SUCCESS /\ pc' \in Back /\ exit' = exit /\ world' = world
    BY <1>4 DEF NothingAsked, EvalNothing, Back
  <2>2. ran' = {}
    BY <1>4 DEF NothingAsked, EvalNothing, IInv, RanInv, Early
  <2>3. ~ BadHex /\ ~ BadScript /\ ~ BadInput /\ ~ BadCell
    <3>1. CASE NothingAsked
      BY <3>1 DEF NothingAsked, BadHex, BadScript, BadInput, BadCell
    <3>2. CASE EvalNothing
      BY <3>2, NoReason DEF EvalNothing, Evaluating, IInv
    <3>3. QED
      BY <1>4, <3>1, <3>2
  <2>4. Explained'
    BY <2>1, <2>2, <2>3, ReasonsFixed DEF Explained
  <2>5. QED
    BY <1>4, <2>1, <2>4 DEF WhyInv, CrashesExplained, NothingAsked, EvalNothing
<1>5. CASE CallEnds \/ CallThrows
  <2>1. /\ ran' = {CodeSeen} /\ CodeSeen = Asked /\ world' = world /\ exit' = exit
        /\ pc \in Evaluating
    BY <1>5 DEF CallEnds, CallThrows, IInv, RanInv, Evaluating
  <2>2. ~ BadHex /\ ~ BadScript /\ ~ BadInput /\ ~ BadCell
    BY <2>1, NoReason DEF IInv
  <2>3. \/ ret' = CKB_SUCCESS
        \/ ret' = ERROR_DUKTAPE /\ (Asked.effect = "throws" \/ world.short = "memory")
    BY <1>5, <2>1 DEF CallEnds, CallThrows
  <2>4. ran' # {} /\ ran' = {Asked}
    BY <2>1
  <2>5. Explained'
    BY <2>1, <2>2, <2>3, <2>4, ReasonsFixed DEF Explained
  <2>6. QED
    BY <1>5, <2>5 DEF CallEnds, CallThrows, WhyInv, CrashesExplained
<1>6. CASE CompileFails
  <2>1. Asked = CodeSeen /\ Asked \in Codes /\ pc \in Evaluating
    BY <1>6, HeadedIsAsked DEF CompileFails, Evaluating
  <2>2. /\ ret' = ERROR_DUKTAPE /\ ran' = {} /\ world' = world /\ exit' = exit
        /\ Asked.head = "js" /\ (Asked.effect = "malformed" \/ world.short = "memory")
    BY <1>6, <2>1 DEF CompileFails, IInv, RanInv, Early
  <2>3. ~ BadHex /\ ~ BadScript /\ ~ BadInput /\ ~ BadCell
    BY <2>1, NoReason DEF IInv
  <2>4. Explained'
    BY <2>1, <2>2, <2>3, ReasonsFixed DEF Explained
  <2>5. QED
    BY <1>6, <2>4 DEF CompileFails, WhyInv, CrashesExplained
<1>7. CASE BadBytecode
  <2>1. Asked = CodeSeen /\ Asked \in Codes
    BY <1>7, HeadedIsAsked DEF BadBytecode, Evaluating
  <2>2. QED
    BY <1>7, <2>1, WorldFixed, StillExplained DEF BadBytecode, WhyInv, CrashesExplained
<1>8. CASE PopNothing
  <2>1. Cleans /\ ret = CKB_SUCCESS /\ pc \in Back /\ exit = "running" /\ world' = world
    BY <1>8 DEF PopNothing, Finishing, Back, IInv, RanInv, Cleans
  <2>2. CanPop(Push(<< >>, "value"), 1)
    BY DEF CanPop, Push
  <2>3. ran = {}
    BY <1>8, <2>1, <2>2 DEF PopNothing, IInv, StackInv
  <2>4. Asked = NoCode
    BY <2>1, <2>3 DEF IInv, RanInv, Ended
  <2>5. QED
    BY <1>8, <2>1, <2>4, WorldFixed, StillExplained DEF PopNothing, WhyInv, CrashesExplained
<1>9. CASE OutOfMemory \/ OutOfCycles
  BY <1>9, WorldFixed, StillExplained DEF OutOfMemory, OutOfCycles, WhyInv, CrashesExplained
<1>10. CASE FailMain \/ QuitMain \/ PopResult
  BY <1>10, WorldFixed, StillExplained DEF FailMain, QuitMain, PopResult, Finishing, WhyInv,
     CrashesExplained, Back, IInv, RanInv
<1>11. CASE Boot \/ Interact
  BY <1>11, WorldFixed, StillExplained DEF Boot, Interact, WhyInv, CrashesExplained, Back
<1>12. CASE DecodeArgv \/ LoadScript \/ AcceptInput \/ Prepare
  BY <1>12, WorldFixed DEF DecodeArgv, LoadScript, AcceptInput, Prepare, OpenArgv, AddItem,
     SetArgv, WhyInv, CrashesExplained, Back
<1>13. CASE TakeBytes \/ TakeCell \/ LoadCell \/ Compile
  BY <1>13, WorldFixed DEF TakeBytes, TakeCell, LoadCell, Compile, WhyInv, CrashesExplained,
     Back
<1>14. CASE UNCHANGED vars
  BY <1>14, WorldFixed, StillExplained DEF vars, WhyInv, CrashesExplained
<1>15. QED
  BY <1>1, <1>2, <1>3, <1>4, <1>5, <1>6, <1>7, <1>8, <1>9, <1>10, <1>11, <1>12, <1>13,
     <1>14 DEF Next, Main, Find, Prepare, Fetch, Evaluate

LEMMA SpecWhy == Spec => []WhyInv
<1>1. Init => WhyInv
  BY DEF Init, WhyInv, Back, CrashesExplained
<1>2. QED
  BY SpecIInv, StepWhy, <1>1, PTL DEF Spec

\* The code a program exits with names the step that failed - a text that is not
\* hexadecimal, a script or an Input that cannot be had, a cell that is missing or
\* too large, a code that is not compiled or throws - and nothing has run before the
\* last of these.
THEOREM FailuresExplained == Spec => []ErrorsExplained
<1>1. IInv /\ WhyInv => ErrorsExplained
  BY DEF IInv, RanInv, WhyInv, Explained, ErrorsExplained
<1>2. QED
  BY SpecIInv, SpecWhy, <1>1, PTL

\* The only aborts are those of short memory, of refused bytecode and of the
\* result that is not there.
THEOREM AbortsExplained == Spec => []CrashesExplained
<1>1. WhyInv => CrashesExplained
  BY DEF WhyInv
<1>2. QED
  BY SpecWhy, <1>1, PTL

------------------------------------------------------------------------------
(* Refinement. *)

LEMMA AskedIsRequest ==
  ASSUME IsWorld(world)
  PROVE  Asked \in Codes \union { NoCode, Unavailable }
<1>1. world.input.code \in Codes
  BY DEF IsWorld, Inputs
<1>2. << world.input.index, world.input.source >> \in DOMAIN world.tx =>
        world.tx[<< world.input.index, world.input.source >>] \in Codes
  BY DEF IsWorld
<1>3. QED
  BY <1>1, <1>2 DEF Asked, Wanted

\* A step that leaves the exit alone and starts nothing is a stutter.
LEMMA Stutter ==
  ASSUME world' = world, ran' = ran, exit' = exit, exit = "running"
  PROVE  UNCHANGED SV!vars
  BY WorldFixed DEF SV!vars

LEMMA StepRefines ==
  ASSUME IInv, IInv', [Next]_vars
  PROVE  [SV!Next]_(SV!vars)
<1> USE DEF At, Goto, Return, Abort, Leave, locals, context
<1>1. CASE Compile
  <2>1. ran = {} /\ ran' = {Asked} /\ Asked \in Runnable
    BY <1>1, WorldFixed DEF Compile, IInv, RanInv, Early
  <2>2. world' = world /\ exit' = exit /\ exit = "running"
    BY <1>1 DEF Compile
  <2>3. SV!Start
    BY <2>1, <2>2, WorldFixed DEF SV!Start
  <2>4. QED
    BY <2>3 DEF SV!Next
<1>2. CASE FailMain \/ QuitMain \/ PopResult
  <2>1. world' = world /\ ran' = ran /\ ret' = ret /\ exit = "running" /\ exit' = "exited"
    BY <1>2 DEF FailMain, QuitMain, PopResult, Finishing
  <2>2. CASE ret = CKB_SUCCESS
    <3>1. Asked = NoCode \/ (ran = {Asked} /\ Asked \in Runnable /\ Asked.effect = "value")
      BY <2>1, <2>2, WorldFixed DEF IInv, RanInv, Ended
    <3>2. SV!Accept
      BY <2>1, <2>2, <3>1, WorldFixed DEF SV!Accept, Runnable
    <3>3. QED
      BY <3>2 DEF SV!Next
  <2>3. CASE ret # CKB_SUCCESS
    <3>1. SV!Refuse
      BY <2>1, <2>3, WorldFixed DEF SV!Refuse
    <3>2. QED
      BY <3>1 DEF SV!Next
  <2>4. QED
    BY <2>2, <2>3
<1>3. CASE PopNothing \/ BadBytecode \/ OutOfMemory \/ OutOfCycles
  <2>1. world' = world /\ ran' = ran /\ exit = "running" /\ exit' \in { "aborted", "killed" }
    BY <1>3 DEF PopNothing, BadBytecode, OutOfMemory, OutOfCycles, Finishing
  <2>2. SV!Refuse
    BY <2>1, WorldFixed DEF SV!Refuse
  <2>3. QED
    BY <2>2 DEF SV!Next
<1>4. CASE Find
  BY <1>4, Stutter DEF Find, RejectHex, DecodeArgv, RejectScript, NothingAsked, LoadScript,
     RejectInput, AcceptInput
<1>5. CASE Prepare \/ Fetch
  BY <1>5, Stutter DEF Prepare, OpenArgv, AddItem, SetArgv, Fetch, TakeBytes, TakeCell,
     MissCell, RejectCell, LoadCell
<1>6. CASE EvalNothing \/ CompileFails \/ CallEnds \/ CallThrows
  BY <1>6, Stutter DEF EvalNothing, CompileFails, CallEnds, CallThrows
<1>7. CASE Boot \/ Interact
  BY <1>7, Stutter DEF Boot, Interact
<1>8. CASE UNCHANGED vars
  BY <1>8, WorldFixed DEF vars, SV!vars
<1>9. QED
  BY <1>1, <1>2, <1>3, <1>4, <1>5, <1>6, <1>7, <1>8 DEF Next, Main, Evaluate

\* In every world the loader under its four programs implements the verdict a
\* script promises.
THEOREM VerdictImplemented == Spec => ImplementsVerdict
<1>1. Init => SV!Init
  <2>1. Init => Asked \in Codes \union { NoCode, Unavailable }
    BY WorldsAssumption, AskedIsRequest DEF Init
  <2>2. QED
    BY <2>1 DEF Init, SV!Init
<1>2. IInv /\ IInv' /\ [Next]_vars => [SV!Next]_(SV!vars)
  BY StepRefines
<1>3. QED
  BY SpecIInv, <1>1, <1>2, PTL DEF Spec, ImplementsVerdict, SV!Spec
==============================================================================
