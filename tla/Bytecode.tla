------------------------------- MODULE Bytecode -------------------------------
(***************************************************************************)
(* How Duktape turns a compiled function into bytes and back               *)
(* (duktape/duktape.c:14480-15246), with the two steps around it: the      *)
(* template the compiler leaves and the closure made of a template.  Bytes *)
(* are a sequence of tokens, one for each value that is written; a string  *)
(* or a buffer and the length before it are one token.  Reading has no     *)
(* bounds: past the last token, or of a token of another kind, it gives    *)
(* anything, and everything after it too.                                  *)
(***************************************************************************)
EXTENDS Integers, Sequences
LOCAL INSTANCE SequencesExt
LOCAL INSTANCE Functions

Global == << "global" >>        \* the environment of global code
NoFormals == -1                 \* 0xffffffff

------------------------------------------------------------------------------
(* Functions.  The properties of a function are a function from the names  *)
(* of those it has.                                                        *)

\* The names of the arguments are needed for the arguments object only.
KeepFormals(c) == c.arguments /\ c.argnames # << >>

\* Registers have to be found by name from inner functions and eval.
KeepVarmap(c) == (c.slow \/ c.arguments \/ c.funcs # << >>) /\ c.varmap # << >>

\* What the compiler makes of what it has found out about a function.
Template(c) ==
  [ code   |-> c.code,
    consts |-> c.consts,
    funcs  |-> c.funcs,
    nargs  |-> Len(c.argnames),
    flags  |-> { flag \in { "newenv", "createargs", "namebinding", "strict", "constructable" } :
                   CASE flag = "newenv" -> c.function
                     [] flag = "createargs" -> c.function /\ c.arguments /\ ~ c.shadowed
                     [] flag = "namebinding" -> c.function /\ c.named /\ flag \in c.flags
                     [] OTHER -> flag \in c.flags },
    env    |-> << >>,
    props  |-> Restrict([ name |-> c.name, varmap |-> c.varmap, formals |-> c.argnames,
                          pc2line |-> c.lines, fileName |-> "input" ],
                        { "pc2line", "fileName" }
                          \union (IF c.named THEN { "name" } ELSE { })
                          \union (IF KeepVarmap(c) THEN { "varmap" } ELSE { })
                          \union (IF KeepFormals(c) THEN { "formals" } ELSE { })) ]

Has(f, key) == key \in DOMAIN f.props
Property(f, key, default) == IF Has(f, key) THEN f.props[key] ELSE default

\* The environment of a function: a named function expression sees itself.
Scope(flags, name, outer) ==
  IF "namebinding" \in flags THEN << name >> \o outer ELSE outer

\* The function that a template gives in an environment.
Closure(t, outer) ==
  [ t EXCEPT
      !.env = IF "newenv" \in t.flags THEN Scope(t.flags, Property(t, "name", "undefined"), outer)
                                      ELSE outer,
      !.props =
        [ key \in DOMAIN t.props \union { "length" }
                    \union (t.flags \intersect { "constructable" }) |->
            CASE key = "length" -> IF Has(t, "formals") THEN Len(t.props.formals) ELSE t.nargs
              [] key = "constructable" -> TRUE
              [] OTHER -> t.props[key] ] ]

\* What a call of a function and of the functions in it can tell.
RECURSIVE Observed(_)
Observed(f) ==
  [ code |-> f.code, consts |-> f.consts, nargs |-> f.nargs, flags |-> f.flags,
    env |-> f.env, name |-> Property(f, "name", ""), length |-> f.props.length,
    prototype |-> Has(f, "constructable"),
    registers |-> Property(f, "varmap", << >>),
    arguments |-> << Has(f, "formals"), Property(f, "formals", << >>) >>,
    lines |-> << Property(f, "pc2line", "none"), Property(f, "fileName", "") >>,
    funcs |-> [ i \in DOMAIN f.funcs |-> Observed(Closure(f.funcs[i], f.env)) ] ]

------------------------------------------------------------------------------
(* Dump. *)

Token(kind, val) == << [ kind |-> kind, val |-> val ] >>
Marker == Token("marker", 0)            \* 0xbf

DumpVarmap(f) ==
  FlattenSeq([ i \in DOMAIN Property(f, "varmap", << >>) |->
                 Token("string", f.props.varmap[i][1]) \o Token("u32", f.props.varmap[i][2]) ])
    \o Token("string", "")

\* Faulty: a function without the names has none, instead of no list.
DumpFormalsNoMarker(f) ==
  LET names == Property(f, "formals", << >>)
  IN Token("u32", Len(names)) \o FlattenSeq([ i \in DOMAIN names |-> Token("string", names[i]) ])

DumpFormals(f) ==
  IF Has(f, "formals")
  THEN LET names == f.props.formals
       IN Token("u32", Len(names)) \o FlattenSeq([ i \in DOMAIN names |-> Token("string", names[i]) ])
  ELSE Token("u32", NoFormals)

RECURSIVE DumpFunc(_)
DumpFunc(f) ==
  Token("header", [ consts |-> Len(f.consts), funcs |-> Len(f.funcs),
                    nargs |-> f.nargs, flags |-> f.flags ])
    \o Token("code", f.code)
    \o FlattenSeq([ i \in DOMAIN f.consts |->
                      Token("type", f.consts[i][1]) \o Token(f.consts[i][1], f.consts[i][2]) ])
    \o FlattenSeq([ i \in DOMAIN f.funcs |-> DumpFunc(f.funcs[i]) ])
    \o Token("u32", Property(f, "length", f.nargs))
    \o Token("string", Property(f, "name", ""))
    \o Token("string", Property(f, "fileName", ""))
    \o Token("buffer", Property(f, "pc2line", "empty"))
    \o DumpVarmap(f)
    \o DumpFormals(f)

Dump(f) == Marker \o DumpFunc(f)

------------------------------------------------------------------------------
(* Load.  A reader gives what it has read and where the next one starts;   *)
(* nowhere (0) if it read outside, or if the format is refused.            *)

Got(at, val) == [ at |-> at, val |-> val ]
Wild == Got(0, "wild")

Read(b, at, kind) ==
  IF at \in DOMAIN b /\ b[at].kind = kind THEN Got(at + 1, b[at].val) ELSE Wild

\* n values, one after the other.
Times(n, start, Reader(_)) ==
  FoldLeft(LAMBDA acc, i : LET r == Reader(acc.at) IN Got(r.at, Append(acc.val, r.val)),
           Got(start, << >>), [ i \in 1 .. n |-> i ])

\* The type says how the constant is read.
LoadConst(b, at) ==
  LET type == Read(b, at, "type")
      const == Read(b, type.at, type.val)
  IN IF type.at = 0 THEN Wild ELSE Got(const.at, << type.val, const.val >>)

\* Names and registers up to the empty name.
RECURSIVE LoadVarmap(_, _, _)
LoadVarmap(b, at, found) ==
  LET name == Read(b, at, "string")
      register == Read(b, name.at, "u32")
  IN CASE name.at = 0 -> Wild
       [] name.at # 0 /\ name.val = "" -> Got(name.at, found)
       [] OTHER -> LoadVarmap(b, register.at, Append(found, << name.val, register.val >>))

\* A marker in place of the length says that there is no list.
LoadFormals(b, at) ==
  LET limit == Read(b, at, "u32")
      names == Times(limit.val, limit.at, LAMBDA p : Read(b, p, "string"))
  IN CASE limit.at = 0 -> Wild
       [] limit.at # 0 /\ limit.val = NoFormals -> Got(limit.at, [ kept |-> FALSE, names |-> << >> ])
       [] OTHER -> Got(names.at, [ kept |-> TRUE, names |-> names.val ])

\* The environments are not dumped: functions are loaded into the global one.
RECURSIVE LoadFunc(_, _)
LoadFunc(b, at) ==
  LET header   == Read(b, at, "header")
      code     == Read(b, header.at, "code")
      consts   == Times(header.val.consts, code.at, LAMBDA p : LoadConst(b, p))
      funcs    == Times(header.val.funcs, consts.at, LAMBDA p : LoadFunc(b, p))
      length   == Read(b, funcs.at, "u32")
      name     == Read(b, length.at, "string")
      fileName == Read(b, name.at, "string")
      pc2line  == Read(b, fileName.at, "buffer")
      varmap   == LoadVarmap(b, pc2line.at, << >>)
      formals  == LoadFormals(b, varmap.at)
      props    == [ length |-> length.val, name |-> name.val, fileName |-> fileName.val,
                    constructable |-> TRUE, pc2line |-> pc2line.val, varmap |-> varmap.val,
                    formals |-> formals.val.names ]
      absent   == ({ "constructable" } \ header.val.flags)
                    \union { key \in { "formals" } : ~ formals.val.kept }
  IN IF header.at = 0 \/ formals.at = 0
     THEN Wild
     ELSE Got(formals.at,
              [ code |-> code.val, consts |-> consts.val, funcs |-> funcs.val,
                nargs |-> header.val.nargs, flags |-> header.val.flags,
                env |-> Scope(header.val.flags, name.val, Global),
                props |-> [ key \in DOMAIN props \ absent |-> props[key] ] ])

\* Of the bytes only the first is checked.
Load(b) == IF b # << >> /\ b[1].kind = "marker" THEN LoadFunc(b, 2) ELSE Got(0, "format_error")
===============================================================================
