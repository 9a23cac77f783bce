----------------------------- MODULE DuktapeStack -----------------------------
(***************************************************************************)
(* The value stack of a Duktape context as the callers of its API see it:  *)
(* a sequence of the kinds of its values, the top last.  Only what the     *)
(* code in c/ calls is here (duktape/duktape.c).                           *)
(***************************************************************************)
EXTENDS Integers, Sequences

Kinds == { "object", "array", "buffer", "arraybuffer", "function", "value",
           "string", "error", "pointer", "number" }

\* duk_push_*: one value on top.
Push(s, kind) == Append(s, kind)

\* duk_pop: an error is thrown when the stack is empty, so callers check.
CanPop(s, n) == Len(s) >= n
PopN(s, n) == SubSeq(s, 1, Len(s) - n)
Pop(s) == PopN(s, 1)

\* duk_swap(-1, -2).
SwapTop(s) == Push(Push(PopN(s, 2), s[Len(s)]), s[Len(s) - 1])

\* duk_put_prop_* and duk_put_global_*: the value on top goes into an object.
PutProp(s) == Pop(s)

\* duk_pcall_method(0) and duk_call_method(0): function and this give way to
\* one result, or to the error that was thrown.
CallMethod(s, result) == Push(PopN(s, 2), result)
==============================================================================
