----------------------------- MODULE MCInputCodec -----------------------------
(***************************************************************************)
(* Cells of four values and numbers of three cells (up to 63): encodings   *)
(* of inputs without and with code, with cells, with up to two arguments,  *)
(* each of them with one cell changed, cut at every length, one longer,    *)
(* with a third field or a gap, and all short texts.                       *)
(***************************************************************************)
EXTENDS InputCodec

MCSources == { Bytes(<< >>), Bytes(<< 3 >>), Bytes(<< 0, 1, 3 >>),
               ExistingCell(0, 3), ExistingCell(9, 1025) }
MCArgs == { << >>, << << >> >>, << << 2 >>, << >> >>, << << 1, 2 >>, << 3 >> >> }
MCInputs == { [ source |-> s, args |-> l ] : s \in MCSources, l \in MCArgs }

Alter(t) == { [ t EXCEPT ![i] = c ] : i \in DOMAIN t, c \in 0 .. Base - 1 }
Trim(t) == { SubSeq(t, 1, n) : n \in 0 .. Len(t) }
\* Cut, with the total corrected.
Shorten(t) == { Pack(n) \o SubSeq(t, NumSize + 1, n) : n \in NumSize .. Len(t) }
\* With a third field, or with a cell between the offsets and the source.
Stuffed(v, extra, after) ==
  LET s == EncodeSource(v.source)
      l == EncodeVec(v.args)
      header == 3 * NumSize + Len(extra)
  IN  Pack(header + Len(s) + Len(l) + Len(after)) \o Pack(header)
      \o Pack(header + Len(s)) \o extra \o s \o l \o after
Extended(v) == Stuffed(v, Pack(Len(Encode(v)) + NumSize), << 1 >>)
Gapped(v) == Stuffed(v, << 1 >>, << >>)
Widen(t) == { Append(t, c) : c \in 0 .. Base - 1 }
MCTexts ==
  UNION { Alter(t) \union Trim(t) \union Shorten(t) \union Widen(t) : t \in { Encode(v) : v \in MCInputs } }
  \union { Extended(v) : v \in MCInputs } \union { Gapped(v) : v \in MCInputs }
  \union UNION { [ 1 .. n -> 0 .. Base - 1 ] : n \in 0 .. 4 }
==============================================================================
