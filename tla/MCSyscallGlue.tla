---------------------------- MODULE MCSyscallGlue ----------------------------
(***************************************************************************)
(* Calls and hosts for TLC, with ints of 4 bits (up to 7), sizes of 7 bits *)
(* (up to 127) and hashes of 2 bytes.  Items are empty, small, at the int  *)
(* limit, one above it and far above it; numbers are in range, negative    *)
(* and too large.                                                          *)
(***************************************************************************)
EXTENDS SyscallGlue, TLC

Offsets == { JsNumber(0), JsNumber(1), JsNumber(7), JsNumber(8), JsNumber(-1), Undefined }
Indices == { JsNumber(0), JsNumber(1), JsNumber(-3), JsString(0) }
Sources ==
  { Exported(name) : name \in { "INPUT", "HEADER_DEP", "GROUP_INPUT", "GROUP_OUTPUT" } }
  \union { JsString(-1), JsString(100), Undefined }
Fields == { JsNumber(0), JsNumber(1), JsNumber(9), Undefined }
Buffers == { JsBuffer(0), JsBuffer(2), JsBuffer(20), JsNumber(2) }

MCValues == Offsets \union Indices \union Sources \union Fields \union Buffers

\* The lists of arguments of the system calls, without and with a buffer.
Shown == { Binding("tx_hash", FALSE, 0), Binding("script", FALSE, 1), Binding("script", TRUE, 1),
           Binding("cell", FALSE, 3), Binding("cell", TRUE, 3),
           Binding("cell_by_field", FALSE, 4), Binding("cell_by_field", TRUE, 4) }
Selectors(depth) ==
  CASE depth = 0 -> { << >> }
    [] depth = 1 -> { << o >> : o \in Offsets }
    [] depth = 3 -> { << o, JsNumber(0), s >> : o \in Offsets, s \in Sources }
                   \union { << JsNumber(1), i, s >> : i \in Indices, s \in Sources }
    [] depth = 4 -> { << JsNumber(0), i, s, f >> : i \in { JsNumber(0), Undefined },
                                                 s \in Sources, f \in Fields }
Arguments(bd) ==
  IF bd.raw THEN { << bf >> \o l : bf \in Buffers, l \in Selectors(bd.depth) }
  ELSE Selectors(bd.depth)
MCCalls == UNION { { [ binding |-> bd, args |-> l ] : l \in Arguments(bd) } : bd \in Shown }

\* Item sizes; the item of the group input differs from that of input.
Sizings ==
  { << "script", 0, 0, 0 >> :> n @@ << "cell", 0, 1, 0 >> :> n @@ << "cell", 1, 1, 0 >> :> 1
    @@ << "cell", 0, GroupFlag + 1, 0 >> :> 3 @@ << "cell_by_field", 0, 1, 0 >> :> n
    @@ << "cell_by_field", 0, GroupFlag + 2, 1 >> :> 2 :
      n \in { 0, 1, 7, 8, 16, 60 } }
MCHosts ==
  { [ sizes |-> s, hash |-> h, missing |-> 2, flaky |-> f, tight |-> t ] :
      s \in Sizings, h \in { 2, 3 }, f \in BOOLEAN, t \in BOOLEAN }
==============================================================================
