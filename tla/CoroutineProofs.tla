-------------------------- MODULE CoroutineProofs --------------------------
(***************************************************************************)
(* Proofs about threads, call stacks and the C stack (module Coroutine),   *)
(* for any number of threads and any depth of calls.                       *)
(*                                                                         *)
(* The threads being run are a chain, and the catchpoints lie along it: a  *)
(* catchpoint higher on the C stack was made by a thread that is the same  *)
(* or further along.  IInv says this with a rank, the place of each thread *)
(* in the chain; only a resume changes it.  The rest of IInv says what     *)
(* each catchpoint restores, where it lies on its thread's stack, which    *)
(* activations an executor was started for, and in what state the stack is *)
(* while an error is under way and the two stacks do not fit each other.   *)
(*                                                                         *)
(* The last sections prove that the module implements ResumeChain.  The    *)
(* chain is a row: a sequence of all the threads being run, each resumed   *)
(* by the one before it.  There is one row at most (two would differ first *)
(* somewhere, and a thread has one resumer), so what a resume, a yield or  *)
(* an end does to the row is what it does to the chain.  That the thread   *)
(* resumed may be resumed is checked by the call of resume(), before the   *)
(* switch.  With a value nothing runs in between, and ValueInv, a lemma,   *)
(* says so.  With an error the handler errThrow may run in between, and    *)
(* begin or end the thread: nothing is claimed of it when the switch comes,*)
(* and where it was ended the mapping takes it as over before and after.   *)
(*                                                                         *)
(* The actions differ in few ways from one another: the lemmas named       *)
(* ...Step each prove one such way to preserve the invariant, in the order *)
(* of a call, a return, a protected call, a change of thread; the actions  *)
(* follow from them.                                                       *)
(***************************************************************************)
EXTENDS Coroutine, SequenceTheorems, FiniteSetTheorems, FunctionTheorems,
        WellFoundedInduction, TLAPS

\* On the chain of the threads being run.
Active(t) == state[t] \in {"running", "resumed"}

Acts ==
  {a \in [kind : {"ecma", "native", "resume", "yield"}, entry : BOOLEAN,
          cat : {"none", "catch", "finally", "throwing", "returning"},
          to : Thread \cup {None}, iserror : BOOLEAN] :
     /\ a.cat # "none" => a.kind = "ecma"
     /\ a.to # None <=> a.kind = "resume"
     /\ a.entry => a.kind = "ecma"}

Catches ==
  [kind : {"executor", "safe"}, thr : Thread, depth : Nat,
   what : {"host", "pcall", "errThrow", "finalizer", "call"},
   curr : Thread \cup {None}, state : State]

Jumps ==
  [type : {"none", "resume", "yield", "throw"}, to : Thread \cup {None}, iserror : BOOLEAN]

\* The types of the state, stacks and counter included.
TypeInv ==
  /\ state \in [Thread -> State]
  /\ resumer \in [Thread -> Thread \cup {None}]
  /\ callstack \in [Thread -> Seq(Acts)]
  /\ preventcount \in [Thread -> Int]
  /\ native \subseteq Thread
  /\ curr \in Thread \cup {None}
  /\ cstack \in Seq(Catches)
  /\ lj \in Jumps
  /\ finalizer \in {"due", "running", "ran", "refused"}

OnExecutor == cstack # <<>> /\ Innermost.kind = "executor"
Falling == lj.type = "throw"

\* The threads being run form a chain: rank is the place of each in it.
ChainInv(rank) ==
  /\ rank[Main] = 0
  /\ curr = None => \A t \in Thread : ~Active(t)
  /\ curr # None => Active(Main)
  /\ \A t \in Thread : state[t] = "running" <=> t = curr
  /\ \A t \in Thread : Active(t) => rank[t] <= rank[curr]
  /\ \A s, t \in Thread : Active(s) /\ Active(t) /\ rank[s] = rank[t] => s = t
  /\ \A t \in Thread : resumer[t] # None =>
       /\ Active(t)
       /\ state[resumer[t]] = "resumed"
       /\ rank[t] = rank[resumer[t]] + 1
       /\ callstack[resumer[t]] # <<>>
       /\ Top(resumer[t]).kind = "resume"
       /\ Top(resumer[t]).to = t
  /\ \A r \in Thread : state[r] = "resumed" => \E t \in Thread : resumer[t] = r
  /\ \A t \in Thread \ {Main} : Active(t) => resumer[t] # None

\* What threads that are not being run have on their stacks.
RestInv ==
  /\ state[Main] \in {"inactive", "running", "resumed"}
  /\ \A t \in Thread : ~Active(t) /\ state[t] # "yielded" => callstack[t] = <<>>
  /\ \A t \in Thread : state[t] = "yielded" => callstack[t] # <<>> /\ Top(t).kind = "yield"
  /\ \A t \in Thread : callstack[t] # <<>> => callstack[t][1].kind = "ecma"
  /\ OnExecutor /\ ~Falling => callstack[curr] # <<>>

\* A finalizer that the heap thread could not be called for.
Refused(c) == c.curr # None /\ c.curr # c.thr

RefusedInv(i) ==
  LET c == cstack[i]
  IN  Refused(c) =>
        /\ i = Len(cstack) /\ i > 1
        /\ Falling /\ c.kind = "safe" /\ c.thr = Main
        /\ curr = c.curr /\ state[Main] = c.state /\ c.depth = Depth(Main)

\* Each catchpoint: what it restores, and where it lies on its thread's stack.
CatchInv(i) ==
  LET c == cstack[i]
  IN  /\ Active(c.thr)
      /\ c.depth <= Depth(c.thr)
      /\ c.thr # curr /\ ~Refused(c) => c.depth < Depth(c.thr)
      /\ c.kind = "executor" => c.depth >= 1 /\ callstack[c.thr][c.depth].entry
      /\ i = 1 => c.curr = None
      /\ c.curr = None => i = 1 /\ c.kind = "safe" /\ c.thr = Main /\ c.state = "inactive" /\ c.depth = 0
      /\ c.curr # None /\ ~Refused(c) => c.state = "running"

\* Two catchpoints, one above the other.
OrderInv(rank, i, j) ==
  LET c == cstack[i]
      d == cstack[j]
  IN  i < j =>
        /\ ~Refused(d) => rank[c.thr] <= rank[d.thr]
        /\ c.thr = d.thr => c.depth <= d.depth /\ (d.kind = "executor" => c.depth < d.depth)

\* Two neighbours.
LinkInv(i) ==
  LET c == cstack[i]
      d == cstack[i + 1]
  IN  i < Len(cstack) =>
      /\ c.kind = "safe" /\ ~Refused(d) =>
           d.thr = c.thr /\ d.depth = (IF d.kind = "executor" THEN c.depth + 1 ELSE c.depth)
      /\ c.kind = "safe" /\ Refused(d) => c.thr = curr /\ Depth(curr) = c.depth
      /\ c.kind = "executor" /\ ~Refused(d) =>
           d.depth >= (IF d.kind = "executor" THEN 2 ELSE 1)
      /\ c.kind = "executor" /\ Refused(d) => callstack[curr] # <<>>

\* A protected call that has control, or that an error goes to, is on the current
\* thread; an executor the error has left may have kept its activation.
SafeTopInv ==
  cstack # <<>> /\ Innermost.kind = "safe" /\ ~Refused(Innermost) =>
    /\ Innermost.thr = curr
    /\ \/ Depth(curr) = Innermost.depth
       \/ Falling /\ Depth(curr) = Innermost.depth + 1 /\ Top(curr).cat \notin Catching

CStackInv(rank) ==
  /\ curr = None <=> cstack = <<>>
  /\ \A i \in DOMAIN cstack : RefusedInv(i) /\ CatchInv(i) /\ LinkInv(i)
  /\ \A i, j \in DOMAIN cstack : OrderInv(rank, i, j)
  /\ SafeTopInv

\* An executor was started for each activation marked so, or the error it left with
\* is about to drop the activation too.
EntryInv ==
  \A t \in Thread : \A d \in DOMAIN callstack[t] : callstack[t][d].entry =>
    \/ \E i \in DOMAIN cstack :
         cstack[i].kind = "executor" /\ cstack[i].thr = t /\ cstack[i].depth = d
    \/ /\ Falling /\ t = curr /\ d = Depth(t) /\ callstack[t][d].cat \notin Catching
       /\ ~Refused(Innermost)
       /\ \A i \in DOMAIN cstack :
            ~Refused(cstack[i]) /\ cstack[i].thr = curr => cstack[i].depth < d

\* The protected calls made on t, and what the counter of t counts.
SafesOf(cs, t) == {i \in 1 .. Len(cs) : cs[i].kind = "safe" /\ cs[i].thr = t}
CountInv ==
  \A t \in Thread : preventcount[t] = Preventing(callstack[t]) + Cardinality(SafesOf(cstack, t))

\* A resume or yield whose checks failed: its error is under way.
Failed(t, d) == t = curr /\ d = Depth(t) /\ Falling /\ OnExecutor

\* A call of resume() names a thread further along the chain or off it, a call of
\* yield() has nothing under it that forbids it.
PendingAt(rank, t, d) ==
  LET a == callstack[t][d]
  IN  /\ Active(t) /\ a.kind = "resume" /\ Active(a.to) /\ ~Failed(t, d) => rank[a.to] > rank[t]
      /\ a.kind = "yield" /\ ~Failed(t, d) =>
           d >= 2 /\ t # Main /\ \A e \in 1 .. d - 1 : ~Prevents(callstack[t][e])

PendingInv(rank) ==
  \A t \in Thread : \A d \in DOMAIN callstack[t] : PendingAt(rank, t, d)

\* A longjmp for a resume or yield was begun by the call on top.
JumpInv ==
  /\ lj.type = "none" => lj = NoJump
  /\ lj.type # "none" => cstack # <<>>
  /\ lj.type \in {"resume", "yield"} =>
       /\ OnExecutor
       /\ callstack[curr] # <<>>
       /\ Top(curr).kind = lj.type
       /\ Top(curr).to = lj.to

\* All of it, for a rank of the threads.
Inv(rank) ==
  /\ TypeInv /\ RestInv /\ EntryInv /\ CountInv /\ JumpInv
  /\ ChainInv(rank) /\ CStackInv(rank) /\ PendingInv(rank)

Ranks == [Thread -> Nat]
IInv == \E rank \in Ranks : Inv(rank)

-----------------------------------------------------------------------------
(* Counting what forbids a yield *)

PreventingAt(s) == {i \in 1 .. Len(s) : Prevents(s[i])}

\* The count of a stack is the size of a finite set.
LEMMA PreventingCounts ==
  ASSUME NEW s \in Seq(Acts)
  PROVE  /\ IsFiniteSet(PreventingAt(s))
         /\ Preventing(s) = Cardinality(PreventingAt(s)) /\ Preventing(s) \in Nat
<1>1. Len(s) \in Nat /\ DOMAIN s = 1 .. Len(s)
  BY LenProperties
<1>2. IsFiniteSet(1 .. Len(s))
  BY <1>1, FS_Interval
<1>3. IsFiniteSet(PreventingAt(s))
  BY <1>2, FS_Subset DEF PreventingAt
<1>4. Preventing(s) = Cardinality(PreventingAt(s))
  BY <1>1 DEF Preventing, PreventingAt
<1>5. QED
  BY <1>3, <1>4, FS_CardinalityType

\* Two stacks that agree on who forbids.
LEMMA PreventingSame ==
  ASSUME NEW r \in Seq(Acts), NEW s \in Seq(Acts), Len(r) = Len(s),
         \A i \in 1 .. Len(s) : Prevents(r[i]) <=> Prevents(s[i])
  PROVE  Preventing(r) = Preventing(s)
<1>1. PreventingAt(r) = PreventingAt(s)
  BY DEF PreventingAt
<1>2. QED
  BY <1>1, PreventingCounts

\* A stack of which nothing forbids a yield.
LEMMA PreventingNone ==
  ASSUME NEW s \in Seq(Acts)
  PROVE  Preventing(s) = 0 <=> \A i \in 1 .. Len(s) : ~Prevents(s[i])
<1>1. Cardinality(PreventingAt(s)) = 0 <=> PreventingAt(s) = {}
  BY PreventingCounts, FS_EmptySet
<1>2. QED
  BY <1>1, PreventingCounts DEF PreventingAt

\* An activation more.
LEMMA PreventingPush ==
  ASSUME NEW s \in Seq(Acts), NEW a \in Acts
  PROVE  Preventing(Append(s, a)) = Preventing(s) + (IF Prevents(a) THEN 1 ELSE 0)
<1> DEFINE n == Len(s)
           r == Append(s, a)
<1>1. n \in Nat
  BY LenProperties
<1>2. r \in Seq(Acts) /\ Len(r) = n + 1 /\ r[n + 1] = a /\ \A i \in 1 .. n : r[i] = s[i]
  BY AppendProperties
<1> HIDE DEF r
<1>3. /\ IsFiniteSet(PreventingAt(s)) /\ n + 1 \notin PreventingAt(s)
      /\ Preventing(s) = Cardinality(PreventingAt(s)) /\ Preventing(s) \in Nat
      /\ Preventing(r) = Cardinality(PreventingAt(r))
  <2>1. n + 1 \notin PreventingAt(s)
    BY <1>1 DEF PreventingAt
  <2>2. QED
    BY <1>2, <2>1, PreventingCounts
<1>4. CASE Prevents(a)
  <2>1. PreventingAt(r) = PreventingAt(s) \cup {n + 1}
    BY <1>1, <1>2, <1>4 DEF PreventingAt
  <2>2. Cardinality(PreventingAt(r)) = Cardinality(PreventingAt(s)) + 1
    BY <1>3, <2>1, FS_AddElement
  <2>3. QED
    BY <1>3, <1>4, <2>2 DEF r
<1>5. CASE ~Prevents(a)
  <2>1. PreventingAt(r) = PreventingAt(s)
    BY <1>1, <1>2, <1>5 DEF PreventingAt
  <2>2. QED
    BY <1>3, <1>5, <2>1 DEF r
<1>6. QED
  BY <1>4, <1>5

\* What is cut off a stack and what stays make up what there was.
LEMMA PreventingCut ==
  ASSUME NEW s \in Seq(Acts), NEW d \in 0 .. Len(s)
  PROVE  /\ SubSeq(s, 1, d) \in Seq(Acts) /\ Len(SubSeq(s, 1, d)) = d
         /\ \A i \in 1 .. d : SubSeq(s, 1, d)[i] = s[i]
         /\ Preventing(SubSeq(s, d + 1, Len(s))) = Preventing(s) - Preventing(SubSeq(s, 1, d))
<1> DEFINE n == Len(s)
           low == SubSeq(s, 1, d)
           high == SubSeq(s, d + 1, n)
           up == {i \in d + 1 .. n : Prevents(s[i])}
<1>1. n \in Nat /\ d \in Nat /\ d <= n /\ \A i \in 1 .. n : s[i] \in Acts
  BY LenProperties
<1>2. low \in Seq(Acts) /\ Len(low) = d /\ \A i \in 1 .. d : low[i] = s[i]
  <2>1. \A i \in 1 .. d : s[i] \in Acts
    BY <1>1
  <2>2. QED
    BY <1>1, <2>1, SubSeqProperties
<1>3. high \in Seq(Acts) /\ Len(high) = n - d /\ \A i \in 1 .. n - d : high[i] = s[d + i]
  <2>1. \A i \in d + 1 .. n : s[i] \in Acts
    BY <1>1
  <2>2. /\ high \in Seq(Acts) /\ Len(high) = (IF d + 1 <= n THEN n - (d + 1) + 1 ELSE 0)
        /\ \A i \in 1 .. n - (d + 1) + 1 : high[i] = s[d + 1 + i - 1]
    BY <1>1, <2>1, SubSeqProperties
  <2>3. QED
    BY <1>1, <2>2
<1> HIDE DEF low, high
<1>4. PreventingAt(s) = PreventingAt(low) \cup up /\ PreventingAt(low) \cap up = {}
  BY <1>1, <1>2 DEF PreventingAt
<1>5. IsFiniteSet(up)
  <2>1. up \subseteq PreventingAt(s)
    BY <1>4
  <2>2. QED
    BY <2>1, PreventingCounts, FS_Subset
<1>6. Cardinality(PreventingAt(s)) = Cardinality(PreventingAt(low)) + Cardinality(up)
  <2>1. IsFiniteSet(PreventingAt(low)) /\ Cardinality(PreventingAt(low)) \in Nat
    BY <1>2, PreventingCounts
  <2>2. Cardinality(PreventingAt(low) \cup up) =
          Cardinality(PreventingAt(low)) + Cardinality(up) - Cardinality(PreventingAt(low) \cap up)
    BY <1>5, <2>1, FS_Union
  <2>3. Cardinality(PreventingAt(low) \cap up) = 0
    BY <1>4, FS_EmptySet
  <2>4. Cardinality(up) \in Nat
    BY <1>5, FS_CardinalityType
  <2>5. QED
    BY <1>4, <2>1, <2>2, <2>3, <2>4
<1>7. Cardinality(PreventingAt(high)) = Cardinality(up)
  <2> DEFINE f == [i \in PreventingAt(high) |-> d + i]
  <2>1. f \in Bijection(PreventingAt(high), up)
    <3>1. f \in [PreventingAt(high) -> up]
      <4>1. \A i \in PreventingAt(high) : d + i \in up
        BY <1>1, <1>3 DEF PreventingAt
      <4>2. QED
        BY <4>1
    <3>2. \A i, j \in PreventingAt(high) : f[i] = f[j] => i = j
      BY <1>1, <1>3 DEF PreventingAt
    <3>3. \A k \in up : \E i \in PreventingAt(high) : f[i] = k
      <4>1. TAKE k \in up
      <4>2. k - d \in PreventingAt(high)
        BY <1>1, <1>3 DEF PreventingAt
      <4>3. f[k - d] = k
        BY <1>1, <4>2
      <4>4. QED
        BY <4>2, <4>3
    <3>4. QED
      BY <3>1, <3>2, <3>3, Fun_IsBij
  <2>2. ExistsBijection(PreventingAt(high), up)
    BY <2>1 DEF ExistsBijection
  <2>3. IsFiniteSet(PreventingAt(high))
    BY <1>3, PreventingCounts
  <2>4. QED
    BY <2>2, <2>3, FS_Bijection
<1>8. /\ Preventing(s) = Cardinality(PreventingAt(s)) /\ Preventing(s) \in Nat
      /\ Preventing(low) = Cardinality(PreventingAt(low)) /\ Preventing(low) \in Nat
      /\ Preventing(high) = Cardinality(PreventingAt(high)) /\ Preventing(high) \in Nat
  BY <1>2, <1>3, PreventingCounts
<1>9. Preventing(high) = Preventing(s) - Preventing(low)
  BY <1>6, <1>7, <1>8
<1>10. QED
  BY <1>2, <1>9 DEF low, high

\* The protected calls made on a thread are finitely many.
LEMMA SafesCount ==
  ASSUME NEW cs \in Seq(Catches), NEW t \in Thread
  PROVE  IsFiniteSet(SafesOf(cs, t)) /\ Cardinality(SafesOf(cs, t)) \in Nat
<1>1. Len(cs) \in Nat
  BY LenProperties
<1>2. IsFiniteSet(1 .. Len(cs))
  BY <1>1, FS_Interval
<1>3. IsFiniteSet(SafesOf(cs, t))
  BY <1>2, FS_Subset DEF SafesOf
<1>4. QED
  BY <1>3, FS_CardinalityType

\* A catchpoint more on the C stack.
LEMMA SafesPush ==
  ASSUME NEW cs \in Seq(Catches), NEW c \in Catches, NEW t \in Thread
  PROVE  Cardinality(SafesOf(Append(cs, c), t)) =
           Cardinality(SafesOf(cs, t)) + (IF c.kind = "safe" /\ c.thr = t THEN 1 ELSE 0)
<1> DEFINE n == Len(cs)
           r == Append(cs, c)
<1>1. n \in Nat
  BY LenProperties
<1>2. r \in Seq(Catches) /\ Len(r) = n + 1 /\ r[n + 1] = c /\ \A i \in 1 .. n : r[i] = cs[i]
  BY AppendProperties
<1> HIDE DEF r
<1>3. /\ IsFiniteSet(SafesOf(cs, t)) /\ Cardinality(SafesOf(cs, t)) \in Nat
      /\ n + 1 \notin SafesOf(cs, t)
  <2>1. n + 1 \notin SafesOf(cs, t)
    BY <1>1 DEF SafesOf
  <2>2. QED
    BY <2>1, SafesCount
<1>4. CASE c.kind = "safe" /\ c.thr = t
  <2>1. SafesOf(r, t) = SafesOf(cs, t) \cup {n + 1}
    BY <1>1, <1>2, <1>4 DEF SafesOf
  <2>2. Cardinality(SafesOf(r, t)) = Cardinality(SafesOf(cs, t)) + 1
    BY <1>3, <2>1, FS_AddElement
  <2>3. QED
    BY <1>4, <2>2 DEF r
<1>5. CASE ~(c.kind = "safe" /\ c.thr = t)
  <2>1. SafesOf(r, t) = SafesOf(cs, t)
    BY <1>1, <1>2, <1>5 DEF SafesOf
  <2>2. QED
    BY <1>3, <1>5, <2>1 DEF r
<1>6. QED
  BY <1>4, <1>5

\* The C stack without its innermost catchpoint.
LEMMA CPop ==
  ASSUME NEW cs \in Seq(Catches), cs # <<>>
  PROVE  /\ PopC(cs) \in Seq(Catches) /\ Len(PopC(cs)) = Len(cs) - 1 /\ Len(cs) \in Nat \ {0}
         /\ \A i \in 1 .. Len(cs) - 1 : PopC(cs)[i] = cs[i]
         /\ \A t \in Thread :
              Cardinality(SafesOf(PopC(cs), t)) = Cardinality(SafesOf(cs, t))
                - (IF cs[Len(cs)].kind = "safe" /\ cs[Len(cs)].thr = t THEN 1 ELSE 0)
<1>1. Len(cs) \in Nat \ {0} /\ \A i \in 1 .. Len(cs) : cs[i] \in Catches
  BY LenProperties, EmptySeq
<1>2. /\ PopC(cs) \in Seq(Catches) /\ Len(PopC(cs)) = Len(cs) - 1
      /\ \A i \in 1 .. Len(cs) - 1 : PopC(cs)[i] = cs[i]
  <2>1. Len(cs) - 1 \in Nat /\ \A i \in 1 .. Len(cs) - 1 : cs[i] \in Catches
    BY <1>1
  <2> DEFINE m == Len(cs) - 1
             low == SubSeq(cs, 1, m)
  <2>2. m \in Nat /\ 1 \in Int /\ \A i \in 1 .. m : cs[i] \in Catches
    BY <2>1
  <2> HIDE DEF m
  <2>3. /\ low \in Seq(Catches) /\ Len(low) = (IF 1 <= m THEN m - 1 + 1 ELSE 0)
        /\ \A i \in 1 .. m - 1 + 1 : low[i] = cs[1 + i - 1]
    BY <2>2, SubSeqProperties
  <2> HIDE DEF low
  <2>4. low \in Seq(Catches) /\ Len(low) = m /\ \A i \in 1 .. m : low[i] = cs[i]
    BY <2>2, <2>3
  <2>5. QED
    BY <2>4 DEF PopC, low, m
<1>3. cs = Append(PopC(cs), cs[Len(cs)])
  <2> DEFINE last == cs[Len(cs)]
             r == Append(PopC(cs), last)
  <2>1. last \in Catches
    BY <1>1
  <2>2. /\ r \in Seq(Catches) /\ Len(r) = Len(PopC(cs)) + 1 /\ r[Len(PopC(cs)) + 1] = last
        /\ \A i \in 1 .. Len(PopC(cs)) : r[i] = PopC(cs)[i]
    BY <1>2, <2>1, AppendProperties
  <2> HIDE DEF r
  <2>3. \A i \in 1 .. Len(r) : r[i] = cs[i]
    BY <1>1, <1>2, <2>2
  <2>4. cs = r
    BY <1>1, <1>2, <2>2, <2>3, SeqEqual
  <2>5. QED
    BY <2>4 DEF r
<1>4. ASSUME NEW t \in Thread
      PROVE  Cardinality(SafesOf(PopC(cs), t)) = Cardinality(SafesOf(cs, t))
                - (IF cs[Len(cs)].kind = "safe" /\ cs[Len(cs)].thr = t THEN 1 ELSE 0)
  <2>1. cs[Len(cs)] \in Catches
    BY <1>1
  <2>2. Cardinality(SafesOf(cs, t)) = Cardinality(SafesOf(PopC(cs), t))
                + (IF cs[Len(cs)].kind = "safe" /\ cs[Len(cs)].thr = t THEN 1 ELSE 0)
    <3>1. Cardinality(SafesOf(Append(PopC(cs), cs[Len(cs)]), t)) =
            Cardinality(SafesOf(PopC(cs), t))
              + (IF cs[Len(cs)].kind = "safe" /\ cs[Len(cs)].thr = t THEN 1 ELSE 0)
      BY <1>2, <2>1, SafesPush
    <3>2. SafesOf(cs, t) = SafesOf(Append(PopC(cs), cs[Len(cs)]), t)
      BY <1>3
    <3>3. QED
      BY <3>1, <3>2
  <2>3. Cardinality(SafesOf(PopC(cs), t)) \in Nat /\ Cardinality(SafesOf(cs, t)) \in Nat
    BY <1>2, SafesCount
  <2>4. QED
    BY <2>2, <2>3
<1>5. QED
  BY <1>1, <1>2, <1>4

-----------------------------------------------------------------------------
(* What the invariant says of the thread that runs *)

\* What the types of the stacks come to, at each index.
LEMMA Types ==
  ASSUME TypeInv
  PROVE  /\ \A t \in Thread :
              /\ callstack[t] \in Seq(Acts) /\ Depth(t) \in Nat
              /\ DOMAIN callstack[t] = 1 .. Depth(t)
              /\ callstack[t] # <<>> <=> Depth(t) > 0
              /\ \A d \in 1 .. Depth(t) : callstack[t][d] \in Acts
         /\ Len(cstack) \in Nat /\ DOMAIN cstack = 1 .. Len(cstack)
         /\ cstack # <<>> <=> Len(cstack) > 0
         /\ \A i \in 1 .. Len(cstack) : cstack[i] \in Catches
<1>1. ASSUME NEW t \in Thread
      PROVE  /\ callstack[t] \in Seq(Acts) /\ Depth(t) \in Nat
             /\ DOMAIN callstack[t] = 1 .. Depth(t)
             /\ callstack[t] # <<>> <=> Depth(t) > 0
             /\ \A d \in 1 .. Depth(t) : callstack[t][d] \in Acts
  <2>1. callstack[t] \in Seq(Acts)
    BY DEF TypeInv
  <2>2. QED
    BY <2>1, LenProperties, EmptySeq DEF Depth
<1>2. cstack \in Seq(Catches)
  BY DEF TypeInv
<1>3. /\ Len(cstack) \in Nat /\ DOMAIN cstack = 1 .. Len(cstack)
      /\ cstack # <<>> <=> Len(cstack) > 0
      /\ \A i \in 1 .. Len(cstack) : cstack[i] \in Catches
  BY <1>2, LenProperties, EmptySeq
<1>4. QED
  BY <1>1, <1>3

\* NULL is no thread.
LEMMA NoneIsNoThread == None \notin Thread /\ Main \in Thread
BY CoroutineAssumption

\* The two values of lj that the code sets as they are.
LEMMA JumpsMade ==
  /\ NoJump \in Jumps /\ Throw \in Jumps
  /\ NoJump.type = "none" /\ Throw.type = "throw"
<1>1. NoJump \in Jumps
  BY DEF Jumps, NoJump
<1>2. Throw \in Jumps
  BY DEF Jumps, Throw, Jump
<1>3. QED
  BY <1>1, <1>2 DEF NoJump, Throw, Jump

\* While the executor has control or catches: who is current, and where the catchpoints
\* of the current thread lie.
LEMMA OnExecutorFacts ==
  ASSUME NEW rank \in Ranks, Inv(rank), OnExecutor
  PROVE  /\ curr \in Thread /\ state[curr] = "running"
         /\ Innermost = cstack[Len(cstack)] /\ Len(cstack) \in 1 .. Len(cstack)
         /\ \A i \in 1 .. Len(cstack) : ~Refused(cstack[i])
         /\ \A i \in 1 .. Len(cstack) : cstack[i].thr = curr => Innermost.thr = curr
         /\ curr = Main => Innermost.thr = Main /\ callstack[Main] # <<>>
         /\ \A i \in 1 .. Len(cstack) :
              cstack[i].thr = curr /\ ~IsEntry(curr) => cstack[i].depth < Depth(curr)
         /\ callstack[curr] # <<>> /\ Top(curr).kind # "ecma" => ~IsEntry(curr)
<1> DEFINE n == Len(cstack)
<1>0. TypeInv /\ ChainInv(rank) /\ CStackInv(rank)
  BY DEF Inv
<1>1. n \in Nat /\ n > 0 /\ DOMAIN cstack = 1 .. n /\ \A i \in 1 .. n : cstack[i] \in Catches
  BY <1>0, Types DEF OnExecutor
<1>2. Innermost = cstack[n] /\ n \in 1 .. n /\ cstack[n].kind = "executor"
  BY <1>1 DEF Innermost, OnExecutor
<1>3. curr \in Thread /\ state[curr] = "running"
  BY <1>0, <1>1, NoneIsNoThread DEF CStackInv, TypeInv, ChainInv, OnExecutor
<1>4. \A i \in 1 .. n : ~Refused(cstack[i])
  BY <1>0, <1>1, <1>2 DEF CStackInv, RefusedInv
<1>5. /\ cstack[n].thr \in Thread /\ Active(cstack[n].thr) /\ cstack[n].depth \in 1 .. Depth(cstack[n].thr)
      /\ callstack[cstack[n].thr][cstack[n].depth].entry
  BY <1>0, <1>1, <1>2, Types DEF CStackInv, CatchInv, Catches
<1>6. \A t \in Thread : rank[t] \in Nat
  BY DEF Ranks
<1>7. rank[cstack[n].thr] <= rank[curr]
  BY <1>0, <1>5 DEF ChainInv
<1>8. ASSUME NEW i \in 1 .. n, cstack[i].thr = curr
      PROVE  cstack[n].thr = curr
  <2>1. CASE i = n
    BY <1>8, <2>1
  <2>2. CASE i < n
    <3>0. OrderInv(rank, i, n)
      BY <1>0, <1>1, <1>2 DEF CStackInv
    <3>1. rank[curr] <= rank[cstack[n].thr]
      BY <1>1, <1>2, <1>4, <1>8, <2>2, <3>0 DEF OrderInv
    <3>2. rank[curr] = rank[cstack[n].thr]
      BY <1>3, <1>5, <1>6, <1>7, <3>1
    <3>3. Active(curr)
      BY <1>3 DEF Active
    <3>4. QED
      BY <1>0, <1>3, <1>5, <3>2, <3>3 DEF ChainInv
  <2>3. n \in Nat
    BY <1>1
  <2>4. i = n \/ i < n
    BY <1>8, <2>3
  <2>5. QED
    BY <2>1, <2>2, <2>4
<1>9. curr = Main => cstack[n].thr = Main
  <2>1. SUFFICES ASSUME curr = Main
                 PROVE  cstack[n].thr = Main
    OBVIOUS
  <2>2. rank[cstack[n].thr] = rank[Main]
    BY <1>0, <1>5, <1>6, <1>7, <2>1 DEF ChainInv
  <2>3. QED
    BY <1>0, <1>3, <1>5, <2>1, <2>2 DEF ChainInv, Active
<1>10. cstack[n].thr = curr /\ callstack[curr] # <<>> /\ Top(curr).kind # "ecma" => ~IsEntry(curr)
  <2>1. SUFFICES ASSUME cstack[n].thr = curr, callstack[curr] # <<>>, cstack[n].depth = Depth(curr)
                 PROVE  Top(curr).kind = "ecma"
    BY <1>2 DEF IsEntry
  <2>2. Top(curr) \in Acts /\ Top(curr).entry
    BY <1>3, <1>5, <2>1, Types, <1>0 DEF Top
  <2>3. QED
    BY <2>2 DEF Acts
<1>11. ASSUME NEW i \in 1 .. n, cstack[i].thr = curr, ~IsEntry(curr)
       PROVE  cstack[i].depth < Depth(curr)
  <2>1. cstack[n].thr = curr /\ cstack[n].depth # Depth(curr)
    BY <1>2, <1>8, <1>11 DEF IsEntry
  <2>2. cstack[n].depth < Depth(curr) /\ cstack[n].depth \in Nat /\ Depth(curr) \in Nat
    BY <1>0, <1>3, <1>5, <2>1, Types
  <2>3. cstack[i].depth \in Nat
    BY <1>1 DEF Catches
  <2>4. i # n => cstack[i].depth < cstack[n].depth
    <3>1. OrderInv(rank, i, n)
      BY <1>0, <1>1, <1>2 DEF CStackInv
    <3>2. n \in Nat
      BY <1>1
    <3>3. i = n \/ i < n
      BY <1>11, <3>2
    <3>4. i < n => cstack[i].depth < cstack[n].depth
      BY <1>2, <1>11, <2>1, <3>1 DEF OrderInv
    <3>5. QED
      BY <3>3, <3>4
  <2>5. QED
    BY <2>2, <2>3, <2>4
<1>12. curr = Main => callstack[Main] # <<>>
  BY <1>0, <1>3, <1>5, <1>9, Types
<1>13. ~IsEntry(curr) \/ cstack[n].thr = curr
  BY <1>2 DEF IsEntry
<1>14. QED
  BY <1>2, <1>3, <1>4, <1>8, <1>9, <1>10, <1>11, <1>12, <1>13

-----------------------------------------------------------------------------
(* Steps that stay in the executor and in the thread *)

\* The stacks of the other threads stay as they are.
LEMMA OneStack ==
  ASSUME TypeInv, NEW t \in Thread, NEW s \in Seq(Acts),
         callstack' = [callstack EXCEPT ![t] = s],
         preventcount' = [preventcount EXCEPT ![t] = @ + Preventing(s) - Preventing(callstack[t])]
  PROVE  /\ callstack' \in [Thread -> Seq(Acts)]
         /\ callstack'[t] = s
         /\ \A u \in Thread \ {t} : callstack'[u] = callstack[u]
         /\ preventcount' \in [Thread -> Int]
         /\ \A u \in Thread : preventcount'[u] - Preventing(callstack'[u])
                               = preventcount[u] - Preventing(callstack[u])
<1>1. /\ callstack \in [Thread -> Seq(Acts)] /\ preventcount \in [Thread -> Int]
  BY DEF TypeInv
<1>2. callstack' \in [Thread -> Seq(Acts)] /\ callstack'[t] = s
      /\ \A u \in Thread \ {t} : callstack'[u] = callstack[u]
  BY <1>1
<1>3. \A u \in Thread : Preventing(callstack'[u]) \in Int /\ Preventing(callstack[u]) \in Int
  <2>1. TAKE u \in Thread
  <2>2. callstack'[u] \in Seq(Acts) /\ callstack[u] \in Seq(Acts)
    BY <1>1, <1>2
  <2>3. QED
    BY <2>2, PreventingCounts
<1>4. preventcount' \in [Thread -> Int]
      /\ preventcount'[t] = preventcount[t] + Preventing(s) - Preventing(callstack[t])
      /\ \A u \in Thread \ {t} : preventcount'[u] = preventcount[u]
  <2>1. Preventing(s) \in Int /\ Preventing(callstack[t]) \in Int
    BY <1>2, <1>3
  <2>2. QED
    BY <1>1, <2>1
<1>5. \A u \in Thread : preventcount'[u] - Preventing(callstack'[u])
                        = preventcount[u] - Preventing(callstack[u])
  <2>1. TAKE u \in Thread
  <2>2. preventcount[u] \in Int /\ Preventing(callstack'[u]) \in Int /\ Preventing(callstack[u]) \in Int
    BY <1>1, <1>3
  <2>3. CASE u = t
    BY <1>2, <1>4, <2>2, <2>3
  <2>4. CASE u # t
    BY <1>2, <1>4, <2>2, <2>4
  <2>5. QED
    BY <2>3, <2>4
<1>6. QED
  BY <1>2, <1>4, <1>5

\* A step that replaces the stack of the current thread and touches nothing else.
LEMMA LocalStep ==
  ASSUME NEW rank \in Ranks, Inv(rank), OnExecutor,
         UNCHANGED <<state, resumer, curr, cstack, native, finalizer>>,
         NEW s \in Seq(Acts),
         callstack' = [callstack EXCEPT ![curr] = s],
         preventcount' =
           [preventcount EXCEPT ![curr] = @ + Preventing(s) - Preventing(callstack[curr])],
         lj' \in Jumps, JumpInv',
         Falling' \/ s # <<>>,
         s # <<>> => s[1].kind = "ecma",
         \A i \in 1 .. Len(cstack) : cstack[i].thr = curr =>
            /\ cstack[i].depth <= Len(s)
            /\ cstack[i].kind = "executor" => s[cstack[i].depth].entry,
         \A d \in 1 .. Len(s) : s[d].entry =>
            \E i \in 1 .. Len(cstack) :
              cstack[i].kind = "executor" /\ cstack[i].thr = curr /\ cstack[i].depth = d,
         \A d \in 1 .. Len(s) : s[d].kind = "resume" =>
            ~Active(s[d].to) \/ (d = Len(s) /\ Falling'),
         \A d \in 1 .. Len(s) : s[d].kind = "yield" =>
            \/ d >= 2 /\ curr # Main /\ \A e \in 1 .. d - 1 : ~Prevents(s[e])
            \/ d = Len(s) /\ Falling'
  PROVE  Inv(rank)'
<1> DEFINE n == Len(cstack)
<1>0. TypeInv /\ RestInv /\ EntryInv /\ CountInv /\ ChainInv(rank) /\ CStackInv(rank) /\ PendingInv(rank)
  BY DEF Inv
<1>1. /\ curr \in Thread /\ state[curr] = "running"
      /\ \A i \in 1 .. n : ~Refused(cstack[i])
  BY OnExecutorFacts
<1>2. /\ n \in Nat /\ n > 0 /\ DOMAIN cstack = 1 .. n /\ \A i \in 1 .. n : cstack[i] \in Catches
  BY <1>0, Types DEF OnExecutor
<1>3. /\ callstack' \in [Thread -> Seq(Acts)] /\ callstack'[curr] = s
      /\ \A u \in Thread \ {curr} : callstack'[u] = callstack[u]
      /\ preventcount' \in [Thread -> Int]
      /\ \A u \in Thread : preventcount'[u] - Preventing(callstack'[u])
                            = preventcount[u] - Preventing(callstack[u])
  BY <1>0, <1>1, OneStack
<1>4. TypeInv'
  BY <1>0, <1>3 DEF TypeInv
<1>5. /\ Innermost' = Innermost /\ OnExecutor' /\ Innermost.kind = "executor"
      /\ \A t : Active(t)' <=> Active(t)
      /\ \A c : Refused(c)' <=> Refused(c)
  BY DEF OnExecutor, Innermost, Active, Refused
<1>6. RestInv'
  <2>1. ASSUME NEW t \in Thread, t # curr
        PROVE  callstack'[t] = callstack[t] /\ Top(t)' = Top(t)
    BY <1>3, <2>1 DEF Top, Depth
  <2>2. Active(curr) /\ state[curr] # "yielded"
    BY <1>1 DEF Active
  <2>3. \A t \in Thread : ~Active(t)' /\ state'[t] # "yielded" => callstack'[t] = <<>>
    BY <1>0, <1>5, <2>1, <2>2 DEF RestInv
  <2>4. \A t \in Thread : state'[t] = "yielded" => callstack'[t] # <<>> /\ Top(t)'.kind = "yield"
    BY <1>0, <2>1, <2>2 DEF RestInv
  <2>5. \A t \in Thread : callstack'[t] # <<>> => callstack'[t][1].kind = "ecma"
    BY <1>0, <1>3 DEF RestInv
  <2>6. Falling' \/ callstack'[curr'] # <<>>
    BY <1>3
  <2>7. state'[Main] \in {"inactive", "running", "resumed"}
    BY <1>0 DEF RestInv
  <2>8. QED
    BY <2>3, <2>4, <2>5, <2>6, <2>7 DEF RestInv
<1>7. ChainInv(rank)'
  <2>1. \A t \in Thread : resumer[t] # curr
    BY <1>0, <1>1, NoneIsNoThread DEF ChainInv
  <2>2. \A t \in Thread : resumer[t] # None => callstack'[resumer[t]] = callstack[resumer[t]]
    BY <1>0, <1>3, <2>1 DEF TypeInv
  <2>3. QED
    BY <1>0, <1>5, <2>2 DEF ChainInv, Top, Depth
<1>8. CStackInv(rank)'
  <2>1. ASSUME NEW i \in 1 .. n
        PROVE  RefusedInv(i)'
    BY <1>1, <1>5, <2>1 DEF RefusedInv
  <2>2. ASSUME NEW i \in 1 .. n
        PROVE  CatchInv(i)'
    <3>1. CatchInv(i) /\ cstack[i] \in Catches /\ ~Refused(cstack[i])
      BY <1>0, <1>1, <1>2, <2>2 DEF CStackInv
    <3>2. CASE cstack[i].thr = curr
      <4>1. cstack[i].depth <= Len(s) /\ (cstack[i].kind = "executor" => s[cstack[i].depth].entry)
        BY <2>2, <3>2
      <4>2. QED
        BY <1>3, <1>5, <3>1, <3>2, <4>1 DEF CatchInv, Depth
    <3>3. CASE cstack[i].thr # curr
      <4>1. cstack[i].thr \in Thread
        BY <3>1 DEF Catches
      <4>2. callstack'[cstack[i].thr] = callstack[cstack[i].thr]
        BY <1>3, <3>3, <4>1
      <4>3. QED
        BY <1>5, <3>1, <4>2 DEF CatchInv, Depth
    <3>4. QED
      BY <3>2, <3>3
  <2>3. ASSUME NEW i \in 1 .. n
        PROVE  LinkInv(i)'
    <3>1. LinkInv(i)
      BY <1>0, <1>2, <2>3 DEF CStackInv
    <3>2. i < n => i + 1 \in 1 .. n
      BY <1>2, <2>3
    <3>3. i < n => ~Refused(cstack[i + 1])
      BY <1>1, <3>2
    <3>4. QED
      BY <1>5, <3>1, <3>3 DEF LinkInv
  <2>4. ASSUME NEW i \in 1 .. n, NEW j \in 1 .. n
        PROVE  OrderInv(rank, i, j)'
    <3>1. OrderInv(rank, i, j)
      BY <1>0, <1>2, <2>4 DEF CStackInv
    <3>2. QED
      BY <1>5, <3>1 DEF OrderInv
  <2>5. SafeTopInv'
    BY <1>5 DEF SafeTopInv
  <2>6. curr' = None <=> cstack' = <<>>
    BY <1>0 DEF CStackInv
  <2>7. DOMAIN cstack' = 1 .. n
    BY <1>2
  <2>8. QED
    BY <2>1, <2>2, <2>3, <2>4, <2>5, <2>6, <2>7 DEF CStackInv
<1>9. EntryInv'
  <2>1. SUFFICES ASSUME NEW t \in Thread, NEW d \in DOMAIN callstack'[t], callstack'[t][d].entry
                 PROVE  \E i \in DOMAIN cstack' :
                          cstack'[i].kind = "executor" /\ cstack'[i].thr = t /\ cstack'[i].depth = d
    BY DEF EntryInv
  <2>2. CASE t = curr
    <3>1. d \in 1 .. Len(s) /\ s[d].entry
      BY <1>3, <2>1, <2>2, LenProperties
    <3>2. QED
      BY <1>2, <2>2, <3>1
  <2>3. CASE t # curr
    BY <1>0, <1>3, <2>1, <2>3 DEF EntryInv
  <2>4. QED
    BY <2>2, <2>3
<1>10. CountInv'
  <2>1. \A t \in Thread : Preventing(callstack'[t]) \in Int /\ preventcount'[t] \in Int
                          /\ Preventing(callstack[t]) \in Int /\ preventcount[t] \in Int
                          /\ Cardinality(SafesOf(cstack, t)) \in Int
    <3>1. TAKE t \in Thread
    <3>2. callstack'[t] \in Seq(Acts) /\ callstack[t] \in Seq(Acts) /\ cstack \in Seq(Catches)
          /\ preventcount'[t] \in Int /\ preventcount[t] \in Int
      BY <1>0, <1>3 DEF TypeInv
    <3>3. Preventing(callstack'[t]) \in Nat /\ Preventing(callstack[t]) \in Nat
      BY <3>2, PreventingCounts
    <3>4. Cardinality(SafesOf(cstack, t)) \in Nat
      BY <3>2, SafesCount
    <3>5. QED
      BY <3>2, <3>3, <3>4
  <2>2. SUFFICES ASSUME NEW t \in Thread
                 PROVE  preventcount'[t] = Preventing(callstack'[t]) + Cardinality(SafesOf(cstack, t))
    BY DEF CountInv, Preventing, Prevents, SafesOf
  <2>3. preventcount[t] = Preventing(callstack[t]) + Cardinality(SafesOf(cstack, t))
    BY <1>0 DEF CountInv
  <2>4. preventcount'[t] - Preventing(callstack'[t]) = preventcount[t] - Preventing(callstack[t])
    BY <1>3
  <2>5. QED
    BY <2>1, <2>3, <2>4
<1>11. PendingInv(rank)'
  <2>1. SUFFICES ASSUME NEW t \in Thread, NEW d \in DOMAIN callstack'[t]
                 PROVE  PendingAt(rank, t, d)'
    BY DEF PendingInv
  <2>2. CASE t = curr
    <3>1. d \in 1 .. Len(s) /\ callstack'[t] = s
      BY <1>3, <2>1, <2>2, LenProperties
    <3>2. Falling' /\ d = Len(s) => Failed(t, d)'
      BY <1>5, <2>2, <3>1 DEF Failed, Depth
    <3>3. s[d].kind = "resume" => ~Active(s[d].to)' \/ Failed(t, d)'
      BY <1>5, <3>1, <3>2
    <3>4. s[d].kind = "yield" =>
            \/ d >= 2 /\ t # Main /\ \A e \in 1 .. d - 1 : ~Prevents(s[e])
            \/ Failed(t, d)'
      BY <2>2, <3>1, <3>2
    <3>5. QED
      BY <3>1, <3>3, <3>4 DEF PendingAt
  <2>3. CASE t # curr
    <3>1. callstack'[t] = callstack[t] /\ ~Failed(t, d)
      BY <1>3, <2>3 DEF Failed
    <3>2. PendingAt(rank, t, d)
      BY <1>0, <2>1, <3>1 DEF PendingInv
    <3>3. QED
      BY <1>5, <3>1, <3>2 DEF PendingAt
  <2>4. QED
    BY <2>2, <2>3
<1>12. QED
  BY <1>4, <1>6, <1>7, <1>8, <1>9, <1>10, <1>11 DEF Inv

\* What lies on the stack of the current thread, but for a call whose checks failed
\* and an activation whose executor is gone.
LEMMA CurrentStack ==
  ASSUME NEW rank \in Ranks, Inv(rank), OnExecutor, NEW d \in 1 .. Depth(curr),
         ~Falling \/ d < Depth(curr) \/ Top(curr).cat \in Catching
  PROVE  /\ callstack[curr][d] \in Acts
         /\ callstack[curr][d].entry =>
              \E i \in 1 .. Len(cstack) :
                cstack[i].kind = "executor" /\ cstack[i].thr = curr /\ cstack[i].depth = d
         /\ callstack[curr][d].kind = "resume" => ~Active(callstack[curr][d].to)
         /\ callstack[curr][d].kind = "yield" =>
              d >= 2 /\ curr # Main /\ \A e \in 1 .. d - 1 : ~Prevents(callstack[curr][e])
<1>0. TypeInv /\ EntryInv /\ ChainInv(rank) /\ PendingInv(rank)
  BY DEF Inv
<1>1. curr \in Thread /\ state[curr] = "running"
  BY OnExecutorFacts
<1>2. /\ Depth(curr) \in Nat /\ DOMAIN callstack[curr] = 1 .. Depth(curr)
      /\ callstack[curr][d] \in Acts /\ DOMAIN cstack = 1 .. Len(cstack)
  BY <1>0, <1>1, Types
<1>3. d = Depth(curr) /\ Falling =>
        callstack[curr][d].cat \in Catching /\ callstack[curr][d].kind = "ecma"
  <2>1. SUFFICES ASSUME d = Depth(curr), Falling
                 PROVE  callstack[curr][d].cat \in Catching /\ callstack[curr][d].kind = "ecma"
    OBVIOUS
  <2>2. callstack[curr][d] = Top(curr)
    BY <2>1 DEF Top
  <2>3. callstack[curr][d].cat \in Catching
    BY <1>2, <2>1, <2>2
  <2>4. QED
    BY <1>2, <2>3 DEF Acts, Catching
<1>4. callstack[curr][d].entry =>
        \E i \in 1 .. Len(cstack) :
          cstack[i].kind = "executor" /\ cstack[i].thr = curr /\ cstack[i].depth = d
  BY <1>0, <1>1, <1>2, <1>3 DEF EntryInv
<1>5. PendingAt(rank, curr, d)
  BY <1>0, <1>1, <1>2 DEF PendingInv
<1>6. callstack[curr][d].kind = "resume" => ~Active(callstack[curr][d].to)
  <2>1. SUFFICES ASSUME callstack[curr][d].kind = "resume", Active(callstack[curr][d].to)
                 PROVE  FALSE
    OBVIOUS
  <2>2. callstack[curr][d].to \in Thread
    BY <1>2, <2>1 DEF Acts
  <2>3. rank[callstack[curr][d].to] <= rank[curr]
    BY <1>0, <1>1, <2>1, <2>2, NoneIsNoThread DEF ChainInv
  <2>4. Active(curr) /\ ~Failed(curr, d)
    BY <1>1, <1>3, <2>1 DEF Active, Failed
  <2>5. rank[callstack[curr][d].to] > rank[curr]
    BY <1>5, <2>1, <2>4 DEF PendingAt
  <2>6. rank[curr] \in Nat /\ rank[callstack[curr][d].to] \in Nat
    BY <1>1, <2>2 DEF Ranks
  <2>7. QED
    BY <2>3, <2>5, <2>6
<1>7. callstack[curr][d].kind = "yield" =>
        d >= 2 /\ curr # Main /\ \A e \in 1 .. d - 1 : ~Prevents(callstack[curr][e])
  <2>1. callstack[curr][d].kind = "yield" => ~Failed(curr, d)
    BY <1>3 DEF Failed
  <2>2. QED
    BY <1>5, <2>1 DEF PendingAt
<1>8. QED
  BY <1>2, <1>4, <1>6, <1>7

\* A call: an activation on top of the current thread.
LEMMA PushStep ==
  ASSUME NEW rank \in Ranks, Inv(rank), OnExecutor, lj = NoJump,
         UNCHANGED <<state, resumer, curr, cstack, native, finalizer>>,
         NEW a \in Acts, ~a.entry, Push(curr, a),
         lj' \in {NoJump, Throw},
         a.kind = "resume" => ~Active(a.to) \/ lj' = Throw,
         a.kind = "yield" => Yieldable \/ lj' = Throw
  PROVE  Inv(rank)'
<1> DEFINE n == Depth(curr)
           s == Append(callstack[curr], a)
<1>0. TypeInv /\ RestInv /\ CountInv /\ CStackInv(rank) /\ ChainInv(rank)
  BY DEF Inv
<1>1. /\ curr \in Thread /\ callstack[curr] # <<>>
  BY <1>0, OnExecutorFacts DEF RestInv, Falling, NoJump
<1>2. callstack[curr] \in Seq(Acts) /\ n \in Nat /\ n > 0
  BY <1>0, <1>1, Types
<1>3. s \in Seq(Acts) /\ Len(s) = n + 1 /\ s[n + 1] = a /\ \A i \in 1 .. n : s[i] = callstack[curr][i]
  BY <1>2, AppendProperties DEF Depth
<1>4. Preventing(s) = Preventing(callstack[curr]) + (IF Prevents(a) THEN 1 ELSE 0)
  BY <1>2, PreventingPush
<1>5. callstack' = [callstack EXCEPT ![curr] = s]
  BY DEF Push
<1> HIDE DEF s
<1>6. preventcount' = [preventcount EXCEPT ![curr] = @ + Preventing(s) - Preventing(callstack[curr])]
  <2>1. preventcount[curr] \in Int /\ Preventing(callstack[curr]) \in Int
    BY <1>0, <1>1, <1>2, PreventingCounts DEF TypeInv
  <2>2. preventcount[curr] + Preventing(s) - Preventing(callstack[curr])
          = preventcount[curr] + (IF Prevents(a) THEN 1 ELSE 0)
    BY <1>4, <2>1
  <2>3. QED
    BY <2>2 DEF Push
<1>7. lj' \in Jumps /\ JumpInv'
  <2>1. lj' \in Jumps
    BY JumpsMade
  <2>2. lj' = NoJump \/ lj'.type = "throw"
    BY DEF Throw, Jump
  <2>3. NoJump.type = "none"
    BY DEF NoJump
  <2>4. QED
    BY <2>1, <2>2, <2>3 DEF JumpInv, OnExecutor
<1>8. ~Falling /\ (lj' = Throw => Falling')
  BY DEF Falling, NoJump, Throw, Jump
<1>9. \A d \in 1 .. Len(s) : d = n + 1 \/ d \in 1 .. n
  BY <1>2, <1>3
<1>10. s # <<>> /\ s[1].kind = "ecma"
  BY <1>0, <1>1, <1>2, <1>3, EmptySeq DEF RestInv
<1>11. ASSUME NEW i \in 1 .. Len(cstack), cstack[i].thr = curr
       PROVE  /\ cstack[i].depth <= Len(s)
              /\ cstack[i].kind = "executor" => s[cstack[i].depth].entry
  <2>1. CatchInv(i) /\ cstack[i].depth \in Nat
    BY <1>0, <1>11, Types DEF CStackInv, Catches
  <2>2. cstack[i].depth <= n /\ (cstack[i].kind = "executor" => cstack[i].depth \in 1 .. n)
    BY <1>2, <1>11, <2>1 DEF CatchInv
  <2>3. cstack[i].kind = "executor" => callstack[curr][cstack[i].depth].entry
    BY <1>11, <2>1 DEF CatchInv
  <2>4. QED
    BY <1>2, <1>3, <2>1, <2>2, <2>3
<1>12. ASSUME NEW d \in 1 .. Len(s), s[d].entry
       PROVE  \E i \in 1 .. Len(cstack) :
                cstack[i].kind = "executor" /\ cstack[i].thr = curr /\ cstack[i].depth = d
  <2>1. d \in 1 .. n /\ callstack[curr][d].entry
    BY <1>3, <1>9, <1>12
  <2>2. QED
    BY <1>8, <2>1, CurrentStack
<1>13. ASSUME NEW d \in 1 .. Len(s), s[d].kind = "resume"
       PROVE  ~Active(s[d].to) \/ (d = Len(s) /\ Falling')
  <2>1. CASE d = n + 1
    BY <1>3, <1>8, <1>13, <2>1
  <2>2. CASE d \in 1 .. n
    BY <1>3, <1>8, <1>13, <2>2, CurrentStack
  <2>3. QED
    BY <1>9, <2>1, <2>2
<1>14. ASSUME NEW d \in 1 .. Len(s), s[d].kind = "yield"
       PROVE  \/ d >= 2 /\ curr # Main /\ \A e \in 1 .. d - 1 : ~Prevents(s[e])
              \/ d = Len(s) /\ Falling'
  <2>1. CASE d = n + 1 /\ lj' = Throw
    BY <1>3, <1>8, <2>1
  <2>2. CASE d = n + 1 /\ Yieldable
    <3>1. curr # Main
      <4>1. resumer[curr] # None /\ resumer[curr] \in Thread
        BY <1>0, <1>1, <2>2 DEF Yieldable, TypeInv
      <4>2. rank[curr] = rank[resumer[curr]] + 1 /\ rank[resumer[curr]] \in Nat /\ rank[Main] = 0
        BY <1>0, <1>1, <4>1 DEF ChainInv, Ranks
      <4>3. QED
        BY <4>2
    <3>2. Preventing(callstack[curr]) = 0
      <4>1. preventcount[curr] = Preventing(callstack[curr]) + Cardinality(SafesOf(cstack, curr))
        BY <1>0, <1>1 DEF CountInv
      <4>2. preventcount[curr] \in Int /\ preventcount[curr] + 1 = 1
        BY <1>0, <1>1, <2>2 DEF Yieldable, TypeInv
      <4>3. Preventing(callstack[curr]) \in Nat
        BY <1>2, PreventingCounts
      <4>4. Cardinality(SafesOf(cstack, curr)) \in Nat
        BY <1>0, <1>1, SafesCount DEF TypeInv
      <4>5. QED
        BY <4>1, <4>2, <4>3, <4>4
    <3>3. \A e \in 1 .. n : ~Prevents(callstack[curr][e])
      BY <1>2, <3>2, PreventingNone DEF Depth
    <3>4. \A e \in 1 .. d - 1 : ~Prevents(s[e])
      BY <1>2, <1>3, <2>2, <3>3
    <3>5. QED
      BY <1>2, <2>2, <3>1, <3>4
  <2>3. CASE d \in 1 .. n
    <3>1. d >= 2 /\ curr # Main /\ \A e \in 1 .. d - 1 : ~Prevents(callstack[curr][e])
      BY <1>3, <1>8, <1>14, <2>3, CurrentStack
    <3>2. \A e \in 1 .. d - 1 : e \in 1 .. n
      BY <1>2, <2>3
    <3>3. QED
      BY <1>3, <3>1, <3>2
  <2>4. d = n + 1 => s[d] = a
    BY <1>3
  <2>5. QED
    BY <1>9, <1>14, <2>1, <2>2, <2>3, <2>4
<1>15. QED
  BY <1>3, <1>5, <1>6, <1>7, <1>10, <1>11, <1>12, <1>13, <1>14, LocalStep

\* A return to the caller in the same executor, or an error that goes to it.
LEMMA DropStep ==
  ASSUME NEW rank \in Ranks, Inv(rank), OnExecutor, callstack[curr] # <<>>, ~IsEntry(curr),
         UNCHANGED <<state, resumer, curr, cstack, native, lj, finalizer>>,
         lj.type \in {"none", "throw"},
         Falling \/ Depth(curr) >= 2,
         UnwindTo(curr, Depth(curr) - 1)
  PROVE  Inv(rank)'
<1> DEFINE n == Depth(curr)
           s == SubSeq(callstack[curr], 1, n - 1)
<1>0. TypeInv /\ RestInv /\ CountInv /\ CStackInv(rank) /\ ChainInv(rank) /\ JumpInv
  BY DEF Inv
<1>1. curr \in Thread
  BY OnExecutorFacts
<1>2. callstack[curr] \in Seq(Acts) /\ n \in Nat /\ n > 0
  BY <1>0, <1>1, Types
<1>3. /\ s \in Seq(Acts) /\ Len(s) = n - 1 /\ \A i \in 1 .. n - 1 : s[i] = callstack[curr][i]
      /\ Preventing(SubSeq(callstack[curr], n, n)) = Preventing(callstack[curr]) - Preventing(s)
  <2>1. n - 1 \in 0 .. Len(callstack[curr]) /\ n - 1 + 1 = n /\ Len(callstack[curr]) = n
    BY <1>2 DEF Depth
  <2>2. QED
    BY <1>2, <2>1, PreventingCut
<1>4. /\ callstack' = [callstack EXCEPT ![curr] = s]
      /\ preventcount' =
           [preventcount EXCEPT ![curr] = @ - Preventing(SubSeq(callstack[curr], n - 1 + 1, n))]
  BY DEF UnwindTo
<1> HIDE DEF s
<1>5. preventcount' = [preventcount EXCEPT ![curr] = @ + Preventing(s) - Preventing(callstack[curr])]
  <2>1. preventcount[curr] \in Int /\ Preventing(callstack[curr]) \in Int /\ Preventing(s) \in Int
    BY <1>0, <1>1, <1>2, <1>3, PreventingCounts DEF TypeInv
  <2>2. n - 1 + 1 = n
    BY <1>2
  <2>3. preventcount[curr] + Preventing(s) - Preventing(callstack[curr])
          = preventcount[curr] - Preventing(SubSeq(callstack[curr], n - 1 + 1, n))
    BY <1>3, <2>1, <2>2
  <2>4. QED
    BY <1>4, <2>3
<1>6. lj' \in Jumps /\ JumpInv' /\ (Falling' <=> Falling)
  BY <1>0 DEF TypeInv, JumpInv, OnExecutor, Falling
<1>7. Falling' \/ s # <<>>
  BY <1>2, <1>3, <1>6, EmptySeq
<1>8. s # <<>> => s[1].kind = "ecma"
  BY <1>0, <1>1, <1>2, <1>3, EmptySeq DEF RestInv
<1>9. \A d \in 1 .. Len(s) : d \in 1 .. n /\ d < n /\ s[d] = callstack[curr][d]
  BY <1>2, <1>3
<1>10. ASSUME NEW i \in 1 .. Len(cstack), cstack[i].thr = curr
       PROVE  /\ cstack[i].depth <= Len(s)
              /\ cstack[i].kind = "executor" => s[cstack[i].depth].entry
  <2>1. CatchInv(i) /\ cstack[i].depth \in Nat
    BY <1>0, <1>10, Types DEF CStackInv, Catches
  <2>2. cstack[i].depth < n
    BY <1>10, OnExecutorFacts
  <2>3. cstack[i].kind = "executor" => cstack[i].depth >= 1 /\ callstack[curr][cstack[i].depth].entry
    BY <1>10, <2>1 DEF CatchInv
  <2>4. QED
    BY <1>2, <1>3, <2>1, <2>2, <2>3
<1>11. ASSUME NEW d \in 1 .. Len(s)
       PROVE  /\ s[d].entry =>
                   \E i \in 1 .. Len(cstack) :
                     cstack[i].kind = "executor" /\ cstack[i].thr = curr /\ cstack[i].depth = d
              /\ s[d].kind = "resume" => ~Active(s[d].to)
              /\ s[d].kind = "yield" =>
                   d >= 2 /\ curr # Main /\ \A e \in 1 .. d - 1 : ~Prevents(s[e])
  <2>1. d \in 1 .. n /\ d < n /\ s[d] = callstack[curr][d]
    BY <1>9
  <2>2. \A e \in 1 .. d - 1 : s[e] = callstack[curr][e]
    BY <1>2, <1>3
  <2>3. QED
    BY <2>1, <2>2, CurrentStack
<1>12. QED
  BY <1>3, <1>4, <1>5, <1>6, <1>7, <1>8, <1>10, <1>11, LocalStep

\* Only the try statement of the activation on top changes.
LEMMA CatStep ==
  ASSUME NEW rank \in Ranks, Inv(rank), OnExecutor, callstack[curr] # <<>>,
         UNCHANGED <<state, resumer, curr, preventcount, cstack, native, finalizer>>,
         Top(curr).kind = "ecma", ~Falling \/ Top(curr).cat \in Catching,
         lj' = NoJump,
         NEW cat \in {"none", "catch", "finally", "throwing", "returning"},
         SetCat(curr, cat)
  PROVE  Inv(rank)'
<1> DEFINE n == Depth(curr)
           s == [callstack[curr] EXCEPT ![n].cat = cat]
<1>0. TypeInv /\ RestInv /\ CountInv /\ CStackInv(rank) /\ ChainInv(rank)
  BY DEF Inv
<1>1. curr \in Thread
  BY OnExecutorFacts
<1>2. /\ callstack[curr] \in Seq(Acts) /\ n \in Nat /\ n > 0 /\ Len(callstack[curr]) = n
      /\ callstack[curr][n] \in Acts /\ callstack[curr][n].kind = "ecma"
  BY <1>0, <1>1, Types DEF Top, Depth
<1>3. [callstack[curr][n] EXCEPT !.cat = cat] \in Acts
  BY <1>2 DEF Acts
<1>4. /\ s \in Seq(Acts) /\ Len(s) = n /\ s[n] = [callstack[curr][n] EXCEPT !.cat = cat]
      /\ \A i \in 1 .. n : i # n => s[i] = callstack[curr][i]
  <2>1. n \in 1 .. Len(callstack[curr])
    BY <1>2
  <2>2. QED
    BY <1>2, <1>3, <2>1, ExceptSeq
<1>5. \A i \in 1 .. n : /\ s[i].kind = callstack[curr][i].kind /\ s[i].entry = callstack[curr][i].entry
                        /\ s[i].to = callstack[curr][i].to
  <2>1. TAKE i \in 1 .. n
  <2>2. CASE i = n
    BY <1>2, <1>4, <2>2 DEF Acts
  <2>3. CASE i # n
    BY <1>4, <2>3
  <2>4. QED
    BY <2>2, <2>3
<1>6. callstack' = [callstack EXCEPT ![curr] = s]
  BY <1>0, <1>1 DEF SetCat, TypeInv
<1> HIDE DEF s
<1>7. \A i \in 1 .. n : Prevents(s[i]) <=> Prevents(callstack[curr][i])
  BY <1>5 DEF Prevents
<1>8. preventcount' = [preventcount EXCEPT ![curr] = @ + Preventing(s) - Preventing(callstack[curr])]
  <2>1. Preventing(s) = Preventing(callstack[curr])
    BY <1>2, <1>4, <1>7, PreventingSame
  <2>2. Preventing(s) \in Int
    BY <1>4, PreventingCounts
  <2>3. preventcount[curr] + Preventing(s) - Preventing(callstack[curr]) = preventcount[curr]
    BY <1>0, <1>1, <2>1, <2>2 DEF TypeInv
  <2>4. QED
    BY <1>0, <1>1, <2>3 DEF TypeInv
<1>9. lj' \in Jumps /\ JumpInv'
  BY DEF Jumps, NoJump, JumpInv
<1>10. s # <<>> /\ s[1].kind = "ecma"
  <2>1. 1 \in 1 .. n
    BY <1>2
  <2>2. QED
    BY <1>0, <1>1, <1>2, <1>4, <1>5, <2>1, EmptySeq DEF RestInv
<1>11. ASSUME NEW i \in 1 .. Len(cstack), cstack[i].thr = curr
       PROVE  /\ cstack[i].depth <= Len(s)
              /\ cstack[i].kind = "executor" => s[cstack[i].depth].entry
  <2>1. CatchInv(i) /\ cstack[i].depth \in Nat
    BY <1>0, <1>11, Types DEF CStackInv, Catches
  <2>2. /\ cstack[i].depth <= n
        /\ cstack[i].kind = "executor" => cstack[i].depth >= 1 /\ callstack[curr][cstack[i].depth].entry
    BY <1>11, <2>1 DEF CatchInv
  <2>3. cstack[i].kind = "executor" => cstack[i].depth \in 1 .. n
    BY <1>2, <2>1, <2>2
  <2>4. QED
    BY <1>4, <1>5, <2>2, <2>3
<1>12. ASSUME NEW d \in 1 .. Len(s)
       PROVE  /\ s[d].entry =>
                   \E i \in 1 .. Len(cstack) :
                     cstack[i].kind = "executor" /\ cstack[i].thr = curr /\ cstack[i].depth = d
              /\ s[d].kind = "resume" => ~Active(s[d].to)
              /\ s[d].kind = "yield" =>
                   d >= 2 /\ curr # Main /\ \A e \in 1 .. d - 1 : ~Prevents(s[e])
  <2>1. d \in 1 .. n /\ \A e \in 1 .. d - 1 : e \in 1 .. n
    BY <1>2, <1>4
  <2>2. QED
    BY <1>5, <1>7, <2>1, CurrentStack
<1>13. QED
  BY <1>4, <1>6, <1>8, <1>9, <1>10, <1>11, <1>12, LocalStep

\* Only the longjmp begins.
LEMMA JumpStep ==
  ASSUME NEW rank \in Ranks, Inv(rank), OnExecutor, lj = NoJump,
         UNCHANGED <<state, resumer, curr, callstack, preventcount, cstack, native, finalizer>>,
         lj' \in Jumps, JumpInv'
  PROVE  Inv(rank)'
<1> DEFINE s == callstack[curr]
<1>0. TypeInv /\ RestInv /\ CountInv /\ CStackInv(rank)
  BY DEF Inv
<1>1. curr \in Thread /\ s # <<>>
  BY <1>0, OnExecutorFacts DEF RestInv, Falling, NoJump
<1>2. s \in Seq(Acts) /\ Len(s) = Depth(curr)
  BY <1>0, <1>1, Types DEF Depth
<1>3. callstack' = [callstack EXCEPT ![curr] = s]
  BY <1>0, <1>1 DEF TypeInv
<1>4. preventcount' = [preventcount EXCEPT ![curr] = @ + Preventing(s) - Preventing(s)]
  <2>1. Preventing(s) \in Int
    BY <1>2, PreventingCounts
  <2>2. preventcount[curr] + Preventing(s) - Preventing(s) = preventcount[curr]
    BY <1>0, <1>1, <2>1 DEF TypeInv
  <2>3. QED
    BY <1>0, <1>1, <2>2 DEF TypeInv
<1>5. s[1].kind = "ecma"
  BY <1>0, <1>1 DEF RestInv
<1>6. ASSUME NEW i \in 1 .. Len(cstack), cstack[i].thr = curr
      PROVE  /\ cstack[i].depth <= Len(s)
             /\ cstack[i].kind = "executor" => s[cstack[i].depth].entry
  <2>1. CatchInv(i)
    BY <1>0, <1>6, Types DEF CStackInv
  <2>2. QED
    BY <1>2, <1>6, <2>1 DEF CatchInv
<1>7. ASSUME NEW d \in 1 .. Len(s)
      PROVE  /\ s[d].entry =>
                  \E i \in 1 .. Len(cstack) :
                    cstack[i].kind = "executor" /\ cstack[i].thr = curr /\ cstack[i].depth = d
             /\ s[d].kind = "resume" => ~Active(s[d].to)
             /\ s[d].kind = "yield" =>
                  d >= 2 /\ curr # Main /\ \A e \in 1 .. d - 1 : ~Prevents(s[e])
  <2>1. ~Falling /\ d \in 1 .. Depth(curr)
    BY <1>2 DEF Falling, NoJump
  <2>2. QED
    BY <2>1, CurrentStack
<1> HIDE DEF s
<1>8. preventcount' = [preventcount EXCEPT ![curr] = @ + Preventing(s) - Preventing(callstack[curr])]
  BY <1>4 DEF s
<1>9. QED
  BY <1>1, <1>2, <1>3, <1>5, <1>6, <1>7, <1>8, LocalStep

-----------------------------------------------------------------------------
(* Steps that add a catchpoint *)

\* Code runs: who runs it, and that no finalizer is being refused.
LEMMA QuietFacts ==
  ASSUME NEW rank \in Ranks, Inv(rank), Quiet
  PROVE  /\ curr \in Thread /\ state[curr] = "running" /\ ~Falling /\ lj = NoJump
         /\ Len(cstack) \in Nat /\ Len(cstack) > 0 /\ Innermost = cstack[Len(cstack)]
         /\ \A i \in 1 .. Len(cstack) : ~Refused(cstack[i])
         /\ Innermost.kind = "safe" => Innermost.thr = curr /\ Depth(curr) = Innermost.depth
         /\ Innermost.kind = "executor" => OnExecutor /\ callstack[curr] # <<>>
         /\ Innermost.kind \in {"executor", "safe"}
<1> DEFINE n == Len(cstack)
<1>0. TypeInv /\ ChainInv(rank) /\ CStackInv(rank) /\ RestInv
  BY DEF Inv
<1>1. /\ n \in Nat /\ n > 0 /\ DOMAIN cstack = 1 .. n /\ n \in 1 .. n
      /\ cstack[n] \in Catches /\ Innermost = cstack[n]
  BY <1>0, Types DEF Quiet, Innermost
<1>2. ~Falling /\ lj = NoJump
  BY DEF Quiet, Falling, NoJump
<1>3. curr \in Thread /\ state[curr] = "running"
  BY <1>0, NoneIsNoThread DEF CStackInv, TypeInv, ChainInv, Quiet
<1>4. \A i \in 1 .. n : ~Refused(cstack[i])
  BY <1>0, <1>1, <1>2 DEF CStackInv, RefusedInv
<1>5. Innermost.kind = "safe" => Innermost.thr = curr /\ Depth(curr) = Innermost.depth
  BY <1>0, <1>1, <1>2, <1>4 DEF CStackInv, SafeTopInv, Quiet
<1>6. Innermost.kind = "executor" => OnExecutor /\ callstack[curr] # <<>>
  BY <1>0, <1>2 DEF RestInv, OnExecutor, Quiet
<1>7. QED
  BY <1>1, <1>2, <1>3, <1>4, <1>5, <1>6 DEF Catches

\* A catchpoint of the current thread: its protected call or its executor.
LEMMA PushCStep ==
  ASSUME NEW rank \in Ranks, Inv(rank), Quiet,
         UNCHANGED <<state, resumer, curr, native>>, lj' = NoJump,
         finalizer' \in {"due", "running", "ran", "refused"},
         NEW c \in Catches, c.thr = curr, c.curr = curr, c.state = "running",
         cstack' = Append(cstack, c),
         NEW s \in Seq(Acts),
         callstack' = [callstack EXCEPT ![curr] = s],
         preventcount' \in [Thread -> Int], CountInv',
         \A d \in 1 .. Depth(curr) : s[d] = callstack[curr][d],
         c.depth = Len(s),
         \/ c.kind = "safe" /\ Len(s) = Depth(curr)
         \/ c.kind = "executor" /\ Len(s) = Depth(curr) + 1 /\ s[Len(s)] = EntryActivation
  PROVE  Inv(rank)'
<1> SUFFICES ASSUME NEW n, n = Len(cstack)
             PROVE  Inv(rank)'
  OBVIOUS
<1> DEFINE m == Depth(curr)
<1>0. TypeInv /\ RestInv /\ EntryInv /\ ChainInv(rank) /\ CStackInv(rank) /\ PendingInv(rank)
  BY DEF Inv
<1>1. /\ curr \in Thread /\ state[curr] = "running" /\ ~Falling
      /\ \A i \in 1 .. n : ~Refused(cstack[i])
      /\ Innermost = cstack[n]
      /\ Innermost.kind = "safe" => Innermost.thr = curr /\ m = Innermost.depth
      /\ Innermost.kind = "executor" => callstack[curr] # <<>>
  BY QuietFacts
<1>2. n \in Nat /\ n > 0 /\ n + 1 \in Nat
  BY QuietFacts
<1>3. DOMAIN cstack = 1 .. n /\ (\A i \in 1 .. n : cstack[i] \in Catches) /\ cstack \in Seq(Catches)
  BY <1>0, Types DEF TypeInv
<1>4. m \in Nat /\ (callstack[curr] # <<>> <=> m > 0) /\ Active(curr)
  BY <1>0, <1>1, Types DEF Active
<1>5. /\ cstack' \in Seq(Catches) /\ Len(cstack') = n + 1 /\ DOMAIN cstack' = 1 .. n + 1
      /\ cstack'[n + 1] = c /\ \A i \in 1 .. n : cstack'[i] = cstack[i]
  BY <1>3, AppendProperties, LenProperties

<1>6. \A i \in 1 .. n + 1 : i = n + 1 \/ i \in 1 .. n
  BY <1>2
<1>7. /\ callstack' \in [Thread -> Seq(Acts)] /\ callstack'[curr] = s
      /\ \A u \in Thread \ {curr} : callstack'[u] = callstack[u]
  BY <1>0, <1>1 DEF TypeInv
<1>8. Len(s) \in Nat /\ m <= Len(s) /\ DOMAIN s = 1 .. Len(s)
  BY <1>4, LenProperties
<1>9. \A t : Active(t)' <=> Active(t)
  BY DEF Active
<1>10. ~Refused(c)
  BY DEF Refused
<1>11. Innermost' = c /\ cstack' # <<>> /\ ~Falling'
  <2>1. cstack' # <<>>
    BY <1>2, <1>5, EmptySeq
  <2>2. Innermost' = c
    BY <1>5 DEF Innermost
  <2>3. QED
    BY <2>1, <2>2, JumpsMade DEF Falling
<1>12. \A i \in 1 .. n : cstack[i].thr = curr => cstack[i].depth <= m /\ cstack[i].depth \in Nat
  <2>1. TAKE i \in 1 .. n
  <2>2. CatchInv(i) /\ cstack[i].depth \in Nat
    BY <1>0, <1>3 DEF CStackInv, Catches
  <2>3. QED
    BY <2>2 DEF CatchInv
<1>13. TypeInv'
  BY <1>0, <1>5, <1>7, JumpsMade DEF TypeInv
<1>14. RestInv'
  <2>1. ASSUME NEW t \in Thread, t # curr
        PROVE  callstack'[t] = callstack[t] /\ Top(t)' = Top(t)
    BY <1>7, <2>1 DEF Top, Depth
  <2>2. \A t \in Thread : ~Active(t)' /\ state'[t] # "yielded" => callstack'[t] = <<>>
    BY <1>0, <1>4, <1>9, <2>1 DEF RestInv
  <2>3. \A t \in Thread : state'[t] = "yielded" => callstack'[t] # <<>> /\ Top(t)'.kind = "yield"
    BY <1>0, <1>1, <2>1 DEF RestInv
  <2>4. s # <<>> => s[1].kind = "ecma"
    <3>1. CASE m > 0
      <4>1. 1 \in 1 .. m
        BY <1>4, <3>1
      <4>2. QED
        BY <1>0, <1>1, <1>4, <3>1, <4>1 DEF RestInv
    <3>2. CASE m = 0 /\ s # <<>>
      <4>1. Len(s) = 1 /\ s[Len(s)] = EntryActivation
        BY <1>4, <1>8, <3>2, EmptySeq
      <4>2. EntryActivation.kind = "ecma"
        BY DEF EntryActivation, Activation
      <4>3. QED
        BY <4>1, <4>2
    <3>3. QED
      BY <1>4, <3>1, <3>2
  <2>5. \A t \in Thread : callstack'[t] # <<>> => callstack'[t][1].kind = "ecma"
    BY <1>0, <1>7, <2>4 DEF RestInv
  <2>6. OnExecutor' => callstack'[curr'] # <<>>
    <3>1. c.kind = "executor" => s # <<>>
      BY <1>4, <1>8, EmptySeq
    <3>2. QED
      BY <1>7, <1>11, <3>1 DEF OnExecutor
  <2>7. QED
    BY <1>0, <2>2, <2>3, <2>5, <2>6 DEF RestInv
<1>15. ChainInv(rank)'
  <2>1. \A t \in Thread : resumer[t] # curr
    BY <1>0, <1>1, NoneIsNoThread DEF ChainInv
  <2>2. \A t \in Thread : resumer[t] # None => callstack'[resumer[t]] = callstack[resumer[t]]
    BY <1>0, <1>7, <2>1 DEF TypeInv
  <2>3. QED
    BY <1>0, <1>9, <2>2 DEF ChainInv, Top, Depth
<1>16. ASSUME NEW i \in 1 .. n
       PROVE  CatchInv(i)'
  <2>1. CatchInv(i) /\ cstack[i] \in Catches /\ ~Refused(cstack[i]) /\ cstack'[i] = cstack[i]
    BY <1>0, <1>1, <1>3, <1>5, <1>16 DEF CStackInv
  <2>2. CASE cstack[i].thr = curr
    <3>1. cstack[i].depth <= m /\ cstack[i].depth \in Nat
      BY <1>12, <1>16, <2>2
    <3>2. cstack[i].kind = "executor" => cstack[i].depth \in 1 .. m /\ callstack[curr][cstack[i].depth].entry
      BY <1>4, <2>1, <2>2, <3>1 DEF CatchInv
    <3>3. cstack[i].kind = "executor" => s[cstack[i].depth].entry
      BY <3>2
    <3>4. cstack[i].depth <= Len(s)
      BY <1>4, <1>8, <3>1
    <3>5. QED
      BY <1>7, <1>9, <2>1, <2>2, <3>3, <3>4 DEF CatchInv, Depth
  <2>3. CASE cstack[i].thr # curr
    <3>1. cstack[i].thr \in Thread
      BY <2>1 DEF Catches
    <3>2. callstack'[cstack[i].thr] = callstack[cstack[i].thr]
      BY <1>7, <2>3, <3>1
    <3>3. QED
      BY <1>9, <2>1, <3>2 DEF CatchInv, Depth
  <2>4. QED
    BY <2>2, <2>3
<1>17. CatchInv(n + 1)'
  <2>1. c.kind = "executor" => c.depth >= 1 /\ s[c.depth].entry
    BY <1>4 DEF EntryActivation, Activation
  <2>2. n + 1 # 1 /\ c.curr # None /\ c.depth <= Len(s)
    BY <1>1, <1>2, <1>8, NoneIsNoThread
  <2>3. cstack'[n + 1] = c /\ callstack'[c.thr] = s /\ Active(c.thr)' /\ c.thr = curr'
    BY <1>4, <1>5, <1>7, <1>9
  <2>4. QED
    BY <2>1, <2>2, <2>3 DEF CatchInv, Depth
<1>18. ASSUME NEW i \in 1 .. n
       PROVE  LinkInv(i)'
  <2>1. CASE i < n
    <3>1. LinkInv(i)
      BY <1>0, <1>3, <1>18 DEF CStackInv
    <3>2. i + 1 \in 1 .. n
      BY <1>2, <2>1
    <3>3. ~Refused(cstack[i + 1]) /\ cstack'[i + 1] = cstack[i + 1] /\ cstack'[i] = cstack[i]
      BY <1>1, <1>5, <3>2
    <3>4. QED
      BY <1>10, <2>1, <3>1, <3>3 DEF LinkInv
  <2>2. CASE i = n
    <3>1. cstack'[i] = Innermost /\ cstack'[i + 1] = c
      BY <1>1, <1>2, <1>5, <2>2
    <3>2. Innermost.kind = "safe" =>
            c.thr = Innermost.thr
              /\ c.depth = (IF c.kind = "executor" THEN Innermost.depth + 1 ELSE Innermost.depth)
      BY <1>1
    <3>3. Innermost.kind = "executor" => c.depth >= (IF c.kind = "executor" THEN 2 ELSE 1)
      BY <1>1, <1>4
    <3>4. QED
      BY <1>10, <3>1, <3>2, <3>3 DEF LinkInv
  <2>3. QED
    BY <1>2, <2>1, <2>2
<1>19. CStackInv(rank)'
  <2>1. \A i \in 1 .. n + 1 : ~Refused(cstack[i])'
    <3>1. TAKE i \in 1 .. n + 1
    <3>2. CASE i \in 1 .. n
      <4>1. cstack'[i] = cstack[i] /\ ~Refused(cstack[i])
        BY <1>5, <3>2, QuietFacts
      <4>2. QED
        BY <1>10, <4>1
    <3>3. CASE i = n + 1
      BY <1>5, <1>10, <3>3
    <3>4. QED
      BY <1>6, <3>2, <3>3
  <2>2. \A i \in 1 .. n + 1 : RefusedInv(i)'
    <3>1. TAKE i \in 1 .. n + 1
    <3>2. ~Refused(cstack[i])'
      BY <2>1
    <3>3. QED
      BY <3>2 DEF RefusedInv
  <2>3. LinkInv(n + 1)'
    BY <1>2, <1>5 DEF LinkInv
  <2>4. ASSUME NEW i \in 1 .. n, NEW j \in 1 .. n
        PROVE  OrderInv(rank, i, j)'
    <3>1. OrderInv(rank, i, j) /\ cstack'[i] = cstack[i] /\ cstack'[j] = cstack[j]
      BY <1>0, <1>3, <1>5, <2>4 DEF CStackInv
    <3>2. QED
      BY <1>10, <3>1 DEF OrderInv
  <2>5. ASSUME NEW i \in 1 .. n
        PROVE  OrderInv(rank, i, n + 1)'
    <3>1. CatchInv(i) /\ cstack[i].thr \in Thread
      BY <1>0, <1>3, <2>5 DEF CStackInv, Catches
    <3>2. rank[cstack[i].thr] <= rank[curr]
      BY <1>0, <1>1, <3>1, NoneIsNoThread DEF ChainInv, CatchInv
    <3>3. cstack[i].thr = curr => cstack[i].depth <= c.depth /\ (c.kind = "executor" => cstack[i].depth < c.depth)
      BY <1>4, <1>12, <2>5
    <3>4. cstack'[i] = cstack[i] /\ cstack'[n + 1] = c
      BY <1>5, <2>5
    <3>5. QED
      BY <3>2, <3>3, <3>4 DEF OrderInv
  <2>6. ASSUME NEW j \in 1 .. n + 1
        PROVE  OrderInv(rank, n + 1, j)'
    <3>1. ~(n + 1 < j)
      BY <1>2, <2>6
    <3>2. QED
      BY <3>1 DEF OrderInv
  <2>7. SafeTopInv'
    <3>1. c.kind = "safe" => c.thr = curr' /\ Len(callstack'[curr']) = c.depth
      BY <1>7
    <3>2. QED
      BY <1>11, <3>1 DEF SafeTopInv, Depth
  <2>8. curr' # None
    BY <1>1, NoneIsNoThread
  <2>9. \A i \in 1 .. n + 1 : RefusedInv(i)' /\ CatchInv(i)' /\ LinkInv(i)'
    <3>1. TAKE i \in 1 .. n + 1
    <3>2. CASE i \in 1 .. n
      BY <1>16, <1>18, <2>2, <3>2
    <3>3. CASE i = n + 1
      BY <1>17, <2>2, <2>3, <3>3
    <3>4. QED
      BY <1>6, <3>2, <3>3
  <2>10. \A i, j \in 1 .. n + 1 : OrderInv(rank, i, j)'
    <3>1. TAKE i \in 1 .. n + 1, j \in 1 .. n + 1
    <3>2. CASE i = n + 1
      BY <2>6, <3>2
    <3>3. CASE i \in 1 .. n /\ j = n + 1
      BY <2>5, <3>3
    <3>4. CASE i \in 1 .. n /\ j \in 1 .. n
      BY <2>4, <3>4
    <3>5. QED
      BY <1>6, <3>2, <3>3, <3>4
  <2>11. QED
    BY <1>5, <1>11, <2>7, <2>8, <2>9, <2>10 DEF CStackInv
<1>20. EntryInv'
  <2>0. DOMAIN cstack' = 1 .. n + 1
    BY <1>5
  <2>1. SUFFICES ASSUME NEW t \in Thread, NEW d \in DOMAIN callstack'[t], callstack'[t][d].entry
                 PROVE  \E i \in DOMAIN cstack' :
                          cstack'[i].kind = "executor" /\ cstack'[i].thr = t /\ cstack'[i].depth = d
    BY DEF EntryInv
  <2>2. ASSUME NEW e \in DOMAIN callstack[t], e = d, callstack[t][e].entry
        PROVE  \E i \in 1 .. n + 1 :
                 cstack'[i].kind = "executor" /\ cstack'[i].thr = t /\ cstack'[i].depth = d
    <3>1. PICK i \in 1 .. n : cstack[i].kind = "executor" /\ cstack[i].thr = t /\ cstack[i].depth = d
      <4>1. \E i \in DOMAIN cstack :
              cstack[i].kind = "executor" /\ cstack[i].thr = t /\ cstack[i].depth = e
        BY <1>0, <1>1, <2>2 DEF EntryInv
      <4>2. QED
        BY <1>3, <2>2, <4>1
    <3>2. i \in 1 .. n + 1 /\ cstack'[i] = cstack[i]
      BY <1>2, <1>5, <3>1
    <3>3. QED
      BY <3>1, <3>2
  <2>3. t # curr => \E i \in 1 .. n + 1 :
                      cstack'[i].kind = "executor" /\ cstack'[i].thr = t /\ cstack'[i].depth = d
    BY <1>7, <2>1, <2>2
  <2>4. ASSUME t = curr
        PROVE  \E i \in 1 .. n + 1 :
                 cstack'[i].kind = "executor" /\ cstack'[i].thr = t /\ cstack'[i].depth = d
    <3>1. d \in 1 .. Len(s) /\ s[d].entry
      BY <1>7, <1>8, <2>1, <2>4
    <3>2. CASE d \in 1 .. m
      <4>1. d \in DOMAIN callstack[t]
        BY <1>0, <1>1, <2>4, <3>2, Types
      <4>2. QED
        BY <2>2, <2>4, <3>1, <3>2, <4>1
    <3>3. CASE d \notin 1 .. m
      <4>1. c.kind = "executor" /\ d = c.depth
        BY <1>4, <3>1, <3>3
      <4>2. n + 1 \in 1 .. n + 1
        BY <1>2
      <4>3. QED
        BY <1>5, <2>4, <4>1, <4>2
    <3>4. QED
      BY <3>2, <3>3
  <2>5. QED
    BY <2>0, <2>3, <2>4
<1>21. PendingInv(rank)'
  <2>1. SUFFICES ASSUME NEW t \in Thread, NEW d \in DOMAIN callstack'[t]
                 PROVE  PendingAt(rank, t, d)'
    BY DEF PendingInv
  <2>2. ASSUME d \in DOMAIN callstack[t], callstack'[t][d] = callstack[t][d],
               \A e \in 1 .. d - 1 : callstack'[t][e] = callstack[t][e]
        PROVE  PendingAt(rank, t, d)'
    <3>1. PendingAt(rank, t, d) /\ ~Failed(t, d)
      BY <1>0, <1>1, <2>2 DEF PendingInv, Failed
    <3>2. QED
      BY <1>9, <2>2, <3>1 DEF PendingAt
  <2>3. CASE t # curr
    BY <1>7, <2>1, <2>2, <2>3
  <2>4. CASE t = curr
    <3>1. d \in 1 .. Len(s) /\ callstack'[t] = s
      BY <1>7, <1>8, <2>1, <2>4
    <3>2. CASE d \in 1 .. m
      <4>1. \A e \in 1 .. d - 1 : e \in 1 .. m
        BY <1>4, <3>2
      <4>2. d \in DOMAIN callstack[t]
        BY <1>0, <1>1, <2>4, <3>2, Types
      <4>3. QED
        BY <2>2, <2>4, <3>1, <3>2, <4>1, <4>2
    <3>3. CASE d \notin 1 .. m
      <4>1. s[d].kind = "ecma"
        <5>1. s[d] = EntryActivation
          BY <1>4, <3>1, <3>3
        <5>2. QED
          BY <5>1 DEF EntryActivation, Activation
      <4>2. QED
        BY <3>1, <4>1 DEF PendingAt
    <3>4. QED
      BY <3>2, <3>3
  <2>5. QED
    BY <2>3, <2>4
<1>22. JumpInv'
  BY JumpsMade DEF JumpInv
<1>23. QED
  BY <1>13, <1>14, <1>15, <1>19, <1>20, <1>21, <1>22 DEF Inv

\* The counter after a step that pushes a catchpoint.
LEMMA CountPush ==
  ASSUME TypeInv, CountInv, NEW u \in Thread, NEW c \in Catches,
         cstack' = Append(cstack, c),
         preventcount' = [preventcount EXCEPT ![u] = @ + 1],
         callstack' \in [Thread -> Seq(Acts)],
         \A t \in Thread \ {u} : callstack'[t] = callstack[t],
         c.thr = u,
         Preventing(callstack'[u]) =
           Preventing(callstack[u]) + (IF c.kind = "safe" THEN 0 ELSE 1)
  PROVE  preventcount' \in [Thread -> Int] /\ CountInv'
<1>1. preventcount \in [Thread -> Int] /\ callstack \in [Thread -> Seq(Acts)] /\ cstack \in Seq(Catches)
  BY DEF TypeInv
<1>2. preventcount' \in [Thread -> Int] /\ preventcount'[u] = preventcount[u] + 1
      /\ \A t \in Thread \ {u} : preventcount'[t] = preventcount[t]
  BY <1>1
<1>3. ASSUME NEW t \in Thread
      PROVE  preventcount'[t] = Preventing(callstack'[t]) + Cardinality(SafesOf(cstack', t))
  <2>1. preventcount[t] = Preventing(callstack[t]) + Cardinality(SafesOf(cstack, t))
    BY DEF CountInv
  <2>2. Preventing(callstack[t]) \in Int /\ Preventing(callstack'[t]) \in Int
    <3>1. callstack[t] \in Seq(Acts) /\ callstack'[t] \in Seq(Acts)
      BY <1>1
    <3>2. QED
      BY <3>1, PreventingCounts
  <2>3. Cardinality(SafesOf(cstack, t)) \in Int
    BY <1>1, SafesCount
  <2>4. Cardinality(SafesOf(cstack', t)) =
          Cardinality(SafesOf(cstack, t)) + (IF c.kind = "safe" /\ c.thr = t THEN 1 ELSE 0)
    BY <1>1, SafesPush
  <2>5. CASE t = u
    BY <1>2, <2>1, <2>2, <2>3, <2>4, <2>5
  <2>6. CASE t # u
    BY <1>2, <2>1, <2>2, <2>3, <2>4, <2>6
  <2>7. QED
    BY <2>5, <2>6
<1>4. QED
  BY <1>2, <1>3 DEF CountInv

\* A protected call on the current thread.
LEMMA StartSafeStep ==
  ASSUME NEW rank \in Ranks, Inv(rank), Quiet,
         NEW what \in {"host", "pcall", "errThrow", "finalizer"},
         StartSafe(curr, what),
         finalizer' \in {"due", "running", "ran", "refused"}
  PROVE  Inv(rank)'
<1> DEFINE s == callstack[curr]
           c == Catchpoint("safe", curr, Depth(curr), what)
<1>0. TypeInv /\ CountInv
  BY DEF Inv
<1>1. curr \in Thread /\ state[curr] = "running"
  BY QuietFacts
<1>2. s \in Seq(Acts) /\ Depth(curr) \in Nat /\ Len(s) = Depth(curr)
  BY <1>0, <1>1, Types DEF Depth
<1>3. /\ c \in Catches /\ c.thr = curr /\ c.curr = curr /\ c.state = "running"
      /\ c.kind = "safe" /\ c.depth = Len(s)
  BY <1>1, <1>2 DEF Catchpoint, Catches, State
<1>4. /\ cstack' = Append(cstack, c)
      /\ preventcount' = [preventcount EXCEPT ![curr] = @ + 1]
      /\ callstack' = callstack /\ resumer' = resumer /\ native' = native
      /\ curr' = curr /\ state' = [state EXCEPT ![curr] = "running"] /\ lj' = NoJump
  BY <1>1 DEF StartSafe, Callable
<1>5. state' = state
  BY <1>0, <1>1, <1>4 DEF TypeInv
<1>6. callstack' = [callstack EXCEPT ![curr] = s] /\ callstack' \in [Thread -> Seq(Acts)]
  BY <1>0, <1>1, <1>4 DEF TypeInv
<1>7. /\ Preventing(callstack'[curr]) = Preventing(callstack[curr]) + (IF c.kind = "safe" THEN 0 ELSE 1)
      /\ \A t \in Thread \ {curr} : callstack'[t] = callstack[t]
  <2>1. Preventing(s) \in Int
    BY <1>2, PreventingCounts
  <2>2. QED
    BY <1>3, <1>4, <2>1
<1> HIDE DEF c
<1>8. preventcount' \in [Thread -> Int] /\ CountInv'
  BY <1>0, <1>1, <1>3, <1>4, <1>6, <1>7, CountPush
<1> HIDE DEF s
<1>9. \A d \in 1 .. Depth(curr) : s[d] = callstack[curr][d]
  BY DEF s
<1>10. QED
  BY <1>2, <1>3, <1>4, <1>5, <1>6, <1>8, <1>9, PushCStep

\* A native function or a protected call starts an executor.
LEMMA EnterStep ==
  ASSUME NEW rank \in Ranks, Inv(rank), EnterExecutor
  PROVE  Inv(rank)'
<1> DEFINE s == Append(callstack[curr], EntryActivation)
           c == Catchpoint("executor", curr, Depth(curr) + 1, "call")
<1>0. TypeInv /\ CountInv /\ Quiet
  BY DEF Inv, EnterExecutor, InNative, InProtected, InCode
<1>1. curr \in Thread /\ state[curr] = "running" /\ lj = NoJump
  BY <1>0, QuietFacts
<1>2. callstack[curr] \in Seq(Acts) /\ Depth(curr) \in Nat /\ Len(callstack[curr]) = Depth(curr)
  BY <1>0, <1>1, Types DEF Depth
<1>3. EntryActivation \in Acts /\ Prevents(EntryActivation)
  BY DEF EntryActivation, Activation, Acts, Prevents
<1>4. /\ s \in Seq(Acts) /\ Len(s) = Depth(curr) + 1 /\ s[Len(s)] = EntryActivation
      /\ \A d \in 1 .. Depth(curr) : s[d] = callstack[curr][d]
  BY <1>2, <1>3, AppendProperties
<1>5. /\ c \in Catches /\ c.thr = curr /\ c.curr = curr /\ c.state = "running"
      /\ c.kind = "executor" /\ c.depth = Depth(curr) + 1
  BY <1>1, <1>2 DEF Catchpoint, Catches, State
<1>6. /\ cstack' = Append(cstack, c)
      /\ preventcount' = [preventcount EXCEPT ![curr] = @ + 1]
      /\ callstack' = [callstack EXCEPT ![curr] = s]
      /\ resumer' = resumer /\ native' = native /\ finalizer' = finalizer
      /\ curr' = curr /\ state' = state /\ lj' = NoJump
  BY <1>1, <1>3 DEF EnterExecutor, Push, threads
<1>7. Preventing(s) = Preventing(callstack[curr]) + 1
  BY <1>2, <1>3, PreventingPush
<1> HIDE DEF c, s
<1>8. callstack' \in [Thread -> Seq(Acts)] /\ callstack'[curr] = s
      /\ \A t \in Thread \ {curr} : callstack'[t] = callstack[t]
  BY <1>0, <1>1, <1>4, <1>6 DEF TypeInv
<1>9. Preventing(callstack'[curr]) = Preventing(callstack[curr]) + (IF c.kind = "safe" THEN 0 ELSE 1)
  BY <1>5, <1>7, <1>8
<1>10. preventcount' \in [Thread -> Int] /\ CountInv'
  BY <1>0, <1>1, <1>5, <1>6, <1>8, <1>9, CountPush
<1>11. finalizer' \in {"due", "running", "ran", "refused"} /\ c.depth = Len(s)
  BY <1>0, <1>4, <1>5, <1>6 DEF TypeInv
<1>12. QED
  BY <1>0, <1>4, <1>5, <1>6, <1>10, <1>11, PushCStep

\* Nothing runs: the host or a finalizer begins on the heap thread.
LEMMA StartHostStep ==
  ASSUME NEW rank \in Ranks, Inv(rank), curr = None,
         NEW what \in {"host", "pcall", "errThrow", "finalizer"},
         StartSafe(Main, what),
         finalizer' \in {"due", "running", "ran", "refused"}
  PROVE  Inv(rank)'
<1> DEFINE c == Catchpoint("safe", Main, Depth(Main), what)
<1>0. /\ TypeInv /\ RestInv /\ EntryInv /\ CountInv
      /\ ChainInv(rank) /\ CStackInv(rank) /\ PendingInv(rank)
  BY DEF Inv
<1>1. Main \in Thread /\ None \notin Thread
  BY NoneIsNoThread
<1>2. cstack = <<>> /\ \A t \in Thread : ~Active(t)
  BY <1>0 DEF CStackInv, ChainInv
<1>3. state[Main] = "inactive" /\ callstack[Main] = <<>>
  <2>1. state[Main] \in {"inactive", "running", "resumed"} /\ ~Active(Main)
    BY <1>0, <1>1, <1>2 DEF RestInv
  <2>2. state[Main] = "inactive"
    BY <2>1 DEF Active
  <2>3. QED
    BY <1>0, <1>1, <1>2, <2>2 DEF RestInv
<1>4. Depth(Main) = 0
  BY <1>0, <1>1, <1>3, Types
<1>5. /\ c \in Catches /\ c.thr = Main /\ c.curr = None /\ c.state = "inactive"
      /\ c.kind = "safe" /\ c.depth = 0
  BY <1>1, <1>3, <1>4 DEF Catchpoint, Catches, State
<1>6. /\ cstack' = Append(cstack, c)
      /\ preventcount' = [preventcount EXCEPT ![Main] = @ + 1]
      /\ callstack' = callstack /\ resumer' = resumer /\ native' = native
      /\ curr' = Main /\ state' = [state EXCEPT ![Main] = "running"] /\ lj' = NoJump
  BY <1>1, <1>3 DEF StartSafe, Callable
<1> HIDE DEF c
<1>7. callstack' \in [Thread -> Seq(Acts)] /\ \A t \in Thread \ {Main} : callstack'[t] = callstack[t]
  BY <1>0, <1>6 DEF TypeInv
<1>8. preventcount' \in [Thread -> Int] /\ CountInv'
  <2>1. Preventing(callstack[Main]) \in Int
    BY <1>0, <1>1, PreventingCounts DEF TypeInv
  <2>2. Preventing(callstack'[Main]) = Preventing(callstack[Main]) + (IF c.kind = "safe" THEN 0 ELSE 1)
    BY <1>5, <1>6, <2>1
  <2>3. QED
    BY <1>0, <1>1, <1>5, <1>6, <1>7, <2>2, CountPush
<1>9. /\ cstack' \in Seq(Catches) /\ Len(cstack') = 1 /\ DOMAIN cstack' = 1 .. 1 /\ cstack'[1] = c
      /\ cstack' # <<>> /\ Innermost' = c
  <2>1. <<>> \in Seq(Catches) /\ Len(<<>>) = 0
    BY <1>0, <1>2 DEF TypeInv
  <2>2. cstack' \in Seq(Catches) /\ Len(cstack') = 1 /\ cstack'[1] = c
    BY <1>2, <1>5, <1>6, <2>1, AppendProperties
  <2>3. DOMAIN cstack' = 1 .. 1 /\ cstack' # <<>>
    BY <2>2, LenProperties, EmptySeq
  <2>4. QED
    BY <2>2, <2>3 DEF Innermost
<1>10. /\ state' \in [Thread -> State] /\ state'[Main] = "running"
       /\ \A t \in Thread \ {Main} : state'[t] = state[t]
  BY <1>0, <1>1, <1>6 DEF TypeInv, State
<1>11. \A t \in Thread : Active(t)' <=> t = Main
  BY <1>2, <1>10 DEF Active
<1>12. ~Refused(c) /\ ~Falling' /\ ~OnExecutor'
  BY <1>1, <1>5, <1>6, <1>9, JumpsMade DEF Refused, Falling, OnExecutor
<1>13. TypeInv'
  BY <1>0, <1>1, <1>6, <1>7, <1>8, <1>9, <1>10, JumpsMade DEF TypeInv
<1>14. RestInv'
  <2>1. \A t \in Thread : Top(t)' = Top(t)
    BY <1>6 DEF Top, Depth
  <2>2. QED
    BY <1>0, <1>2, <1>3, <1>6, <1>10, <1>11, <1>12, <2>1 DEF RestInv
<1>15. ChainInv(rank)'
  <2>1. \A t \in Thread : resumer'[t] = None
    BY <1>0, <1>2, <1>6 DEF ChainInv
  <2>2. \A t \in Thread : state'[t] = "running" <=> t = Main
    BY <1>2, <1>10 DEF Active
  <2>3. \A t \in Thread : state'[t] # "resumed"
    BY <1>2, <1>10 DEF Active
  <2>4. rank[Main] = 0
    BY <1>0 DEF ChainInv
  <2>5. QED
    BY <1>1, <1>6, <1>11, <2>1, <2>2, <2>3, <2>4 DEF ChainInv
<1>16. CStackInv(rank)'
  <2>1. RefusedInv(1)'
    BY <1>9, <1>12 DEF RefusedInv
  <2>2. CatchInv(1)'
    <3>1. Len(callstack'[c.thr]) = 0
      BY <1>4, <1>5, <1>6 DEF Depth
    <3>2. state'[c.thr] = "running" /\ c.thr = curr'
      BY <1>5, <1>6, <1>10
    <3>3. QED
      BY <1>5, <1>9, <3>1, <3>2 DEF CatchInv, Depth, Active
  <2>3. LinkInv(1)'
    BY <1>9 DEF LinkInv
  <2>4. OrderInv(rank, 1, 1)'
    BY DEF OrderInv
  <2>5. SafeTopInv'
    BY <1>4, <1>5, <1>6, <1>9 DEF SafeTopInv, Depth
  <2>6. curr' # None
    BY <1>1, <1>6
  <2>7. \A i \in 1 .. 1 : i = 1
    OBVIOUS
  <2>8. \A i \in 1 .. 1 : RefusedInv(i)' /\ CatchInv(i)' /\ LinkInv(i)'
    BY <2>1, <2>2, <2>3, <2>7
  <2>9. \A i, j \in 1 .. 1 : OrderInv(rank, i, j)'
    BY <2>4, <2>7
  <2>10. QED
    BY <1>9, <2>5, <2>6, <2>8, <2>9 DEF CStackInv
<1>17. EntryInv'
  <2>1. \A t \in Thread : \A d \in DOMAIN callstack[t] : ~callstack[t][d].entry
    BY <1>0, <1>1, <1>2 DEF EntryInv
  <2>2. QED
    BY <1>6, <2>1 DEF EntryInv
<1>18. PendingInv(rank)'
  <2>1. SUFFICES ASSUME NEW t \in Thread, NEW d \in DOMAIN callstack'[t]
                 PROVE  PendingAt(rank, t, d)'
    BY DEF PendingInv
  <2>2. PendingAt(rank, t, d) /\ ~Failed(t, d) /\ callstack'[t] = callstack[t] /\ t # Main
    <3>1. t # Main
      <4>1. DOMAIN callstack[Main] = 1 .. 0
        BY <1>0, <1>1, <1>4, Types
      <4>2. QED
        BY <1>6, <2>1, <4>1
    <3>2. QED
      BY <1>0, <1>1, <1>6, <3>1 DEF PendingInv, Failed
  <2>3. ~Active(t)'
    BY <1>11, <2>2
  <2>4. QED
    BY <2>2, <2>3 DEF PendingAt
<1>19. JumpInv'
  BY <1>6, JumpsMade DEF JumpInv
<1>20. QED
  BY <1>8, <1>13, <1>14, <1>15, <1>16, <1>17, <1>18, <1>19 DEF Inv

\* The heap thread waits in a resume, so its finalizer call is refused.
LEMMA RefusedStep ==
  ASSUME NEW rank \in Ranks, Inv(rank), Quiet, curr # Main,
         StartSafe(Main, "finalizer"),
         finalizer' \in {"due", "running", "ran", "refused"}
  PROVE  Inv(rank)'
<1> SUFFICES ASSUME NEW n, n = Len(cstack),
                    NEW c, c = Catchpoint("safe", Main, Depth(Main), "finalizer")
             PROVE  Inv(rank)'
  OBVIOUS
<1>0. /\ TypeInv /\ RestInv /\ EntryInv /\ CountInv
      /\ ChainInv(rank) /\ CStackInv(rank) /\ PendingInv(rank)
  BY DEF Inv
<1>1. /\ curr \in Thread /\ state[curr] = "running" /\ ~Falling
      /\ \A i \in 1 .. n : ~Refused(cstack[i])
      /\ Innermost = cstack[n]
      /\ Innermost.kind = "safe" => Innermost.thr = curr /\ Depth(curr) = Innermost.depth
      /\ Innermost.kind = "executor" => callstack[curr] # <<>>
  BY QuietFacts
<1>2. n \in Nat /\ n > 0 /\ n + 1 \in Nat
  BY QuietFacts
<1>3. DOMAIN cstack = 1 .. n /\ (\A i \in 1 .. n : cstack[i] \in Catches) /\ cstack \in Seq(Catches)
  BY <1>0, Types DEF TypeInv
<1>4. Main \in Thread /\ None \notin Thread /\ Active(Main) /\ Depth(Main) \in Nat
  BY <1>0, <1>1, NoneIsNoThread, Types DEF ChainInv
<1>5. /\ c \in Catches /\ c.thr = Main /\ c.curr = curr /\ c.state = state[Main]
      /\ c.kind = "safe" /\ c.depth = Depth(Main)
  BY <1>0, <1>1, <1>4 DEF Catchpoint, Catches, TypeInv
<1>6. /\ cstack' = Append(cstack, c)
      /\ preventcount' = [preventcount EXCEPT ![Main] = @ + 1]
      /\ callstack' = callstack /\ resumer' = resumer /\ native' = native
      /\ curr' = curr /\ state' = state /\ lj' = Throw
  BY <1>4 DEF StartSafe, Callable, Active
<1>7. callstack' \in [Thread -> Seq(Acts)] /\ \A t \in Thread \ {Main} : callstack'[t] = callstack[t]
  BY <1>0, <1>6 DEF TypeInv
<1>8. preventcount' \in [Thread -> Int] /\ CountInv'
  <2>1. Preventing(callstack[Main]) \in Int
    BY <1>0, <1>4, PreventingCounts DEF TypeInv
  <2>2. Preventing(callstack'[Main]) = Preventing(callstack[Main]) + (IF c.kind = "safe" THEN 0 ELSE 1)
    BY <1>5, <1>6, <2>1
  <2>3. QED
    BY <1>0, <1>4, <1>5, <1>6, <1>7, <2>2, CountPush
<1>9. /\ cstack' \in Seq(Catches) /\ Len(cstack') = n + 1 /\ DOMAIN cstack' = 1 .. n + 1
      /\ cstack'[n + 1] = c /\ \A i \in 1 .. n : cstack'[i] = cstack[i]
  BY <1>3, <1>5, <1>6, AppendProperties, LenProperties
<1>10. \A i \in 1 .. n + 1 : i = n + 1 \/ i \in 1 .. n
  BY <1>2
<1>11. \A t : Active(t)' <=> Active(t)
  BY <1>6 DEF Active
<1>12. Innermost' = c /\ cstack' # <<>> /\ Falling' /\ ~OnExecutor' /\ Refused(c)
  <2>1. cstack' # <<>>
    BY <1>2, <1>9, EmptySeq
  <2>2. Innermost' = c
    BY <1>9 DEF Innermost
  <2>3. QED
    BY <1>1, <1>4, <1>5, <1>6, <2>1, <2>2, JumpsMade DEF Falling, OnExecutor, Refused
<1>13. TypeInv'
  BY <1>0, <1>6, <1>8, <1>9, JumpsMade DEF TypeInv
<1>14. RestInv'
  <2>1. \A t \in Thread : Top(t)' = Top(t)
    BY <1>6 DEF Top, Depth
  <2>2. QED
    BY <1>0, <1>6, <1>11, <1>12, <2>1 DEF RestInv
<1>15. ChainInv(rank)'
  BY <1>0, <1>6, <1>11 DEF ChainInv, Top, Depth
<1>16. CStackInv(rank)'
  <2>1. ASSUME NEW i \in 1 .. n
        PROVE  RefusedInv(i)' /\ CatchInv(i)' /\ LinkInv(i)'
    <3>1. /\ CatchInv(i) /\ LinkInv(i) /\ ~Refused(cstack[i]) /\ cstack'[i] = cstack[i]
      BY <1>0, <1>1, <1>3, <1>9, <2>1 DEF CStackInv
    <3>2. RefusedInv(i)'
      BY <3>1 DEF RefusedInv
    <3>3. CatchInv(i)'
      BY <1>6, <1>11, <3>1 DEF CatchInv, Depth
    <3>4. CASE i < n
      <4>1. cstack'[i + 1] = cstack[i + 1] /\ ~Refused(cstack[i + 1])
        BY <1>1, <1>2, <1>9, <3>4
      <4>2. QED
        BY <3>1, <3>2, <3>3, <3>4, <4>1 DEF LinkInv
    <3>5. CASE i = n
      <4>1. cstack'[i + 1] = c /\ cstack'[i] = Innermost
        BY <1>1, <1>9, <3>1, <3>5
      <4>2. LinkInv(i)'
        BY <1>1, <1>6, <1>12, <4>1 DEF LinkInv, Depth
      <4>3. QED
        BY <3>2, <3>3, <4>2
    <3>6. QED
      BY <1>2, <3>4, <3>5
  <2>2. RefusedInv(n + 1)'
    BY <1>1, <1>2, <1>5, <1>6, <1>9, <1>12 DEF RefusedInv, Depth
  <2>3. CatchInv(n + 1)'
    <3>1. n + 1 # 1 /\ c.curr # None /\ c.depth <= Len(callstack'[c.thr])
      BY <1>1, <1>2, <1>4, <1>5, <1>6 DEF Depth
    <3>2. Active(c.thr)'
      BY <1>4, <1>5, <1>11
    <3>3. QED
      BY <1>5, <1>9, <1>12, <3>1, <3>2 DEF CatchInv, Depth
  <2>4. LinkInv(n + 1)'
    BY <1>2, <1>9 DEF LinkInv
  <2>5. ASSUME NEW i \in 1 .. n, NEW j \in 1 .. n
        PROVE  OrderInv(rank, i, j)'
    <3>1. OrderInv(rank, i, j) /\ cstack'[i] = cstack[i] /\ cstack'[j] = cstack[j]
      BY <1>0, <1>3, <1>9, <2>5 DEF CStackInv
    <3>2. QED
      BY <3>1 DEF OrderInv
  <2>6. ASSUME NEW i \in 1 .. n
        PROVE  OrderInv(rank, i, n + 1)'
    <3>1. CatchInv(i) /\ cstack'[i] = cstack[i] /\ cstack'[n + 1] = c
      BY <1>0, <1>3, <1>9, <2>6 DEF CStackInv
    <3>2. cstack[i].thr = Main => cstack[i].depth <= c.depth
      BY <1>5, <3>1 DEF CatchInv
    <3>3. QED
      BY <1>5, <1>12, <3>1, <3>2 DEF OrderInv
  <2>7. ASSUME NEW j \in 1 .. n + 1
        PROVE  OrderInv(rank, n + 1, j)'
    <3>1. ~(n + 1 < j)
      BY <1>2, <2>7
    <3>2. QED
      BY <3>1 DEF OrderInv
  <2>8. SafeTopInv'
    BY <1>12 DEF SafeTopInv
  <2>9. curr' # None
    BY <1>1, <1>4, <1>6
  <2>10. \A i \in 1 .. n + 1 : RefusedInv(i)' /\ CatchInv(i)' /\ LinkInv(i)'
    <3>1. TAKE i \in 1 .. n + 1
    <3>2. CASE i \in 1 .. n
      BY <2>1, <3>2
    <3>3. CASE i = n + 1
      BY <2>2, <2>3, <2>4, <3>3
    <3>4. QED
      BY <1>10, <3>2, <3>3
  <2>11. \A i, j \in 1 .. n + 1 : OrderInv(rank, i, j)'
    <3>1. TAKE i \in 1 .. n + 1, j \in 1 .. n + 1
    <3>2. CASE i = n + 1
      BY <2>7, <3>2
    <3>3. CASE i \in 1 .. n /\ j = n + 1
      BY <2>6, <3>3
    <3>4. CASE i \in 1 .. n /\ j \in 1 .. n
      BY <2>5, <3>4
    <3>5. QED
      BY <1>10, <3>2, <3>3, <3>4
  <2>12. QED
    BY <1>9, <1>12, <2>8, <2>9, <2>10, <2>11 DEF CStackInv
<1>17. EntryInv'
  <2>1. SUFFICES ASSUME NEW t \in Thread, NEW d \in DOMAIN callstack'[t], callstack'[t][d].entry
                 PROVE  \E i \in DOMAIN cstack' :
                          cstack'[i].kind = "executor" /\ cstack'[i].thr = t /\ cstack'[i].depth = d
    BY DEF EntryInv
  <2>2. \E i \in DOMAIN cstack :
          cstack[i].kind = "executor" /\ cstack[i].thr = t /\ cstack[i].depth = d
    BY <1>0, <1>1, <1>6, <2>1 DEF EntryInv
  <2>3. QED
    BY <1>2, <1>3, <1>9, <2>2
<1>18. PendingInv(rank)'
  <2>1. SUFFICES ASSUME NEW t \in Thread, NEW d \in DOMAIN callstack'[t]
                 PROVE  PendingAt(rank, t, d)'
    BY DEF PendingInv
  <2>2. PendingAt(rank, t, d) /\ ~Failed(t, d)
    BY <1>0, <1>1, <1>6, <2>1 DEF PendingInv, Failed
  <2>3. QED
    BY <1>6, <1>11, <2>2 DEF PendingAt
<1>19. JumpInv'
  BY <1>6, <1>12, JumpsMade DEF JumpInv
<1>20. QED
  BY <1>8, <1>13, <1>14, <1>15, <1>16, <1>17, <1>18, <1>19 DEF Inv

-----------------------------------------------------------------------------
(* Steps that leave a catchpoint *)

\* The innermost executor is left where it was entered: its activation has returned,
\* or is left behind for the error to drop.
LEMMA LeaveExecutorStep ==
  ASSUME NEW rank \in Ranks, Inv(rank), OnExecutor, IsEntry(curr), callstack[curr] # <<>>,
         UNCHANGED <<state, resumer, curr, native, lj, finalizer>>,
         cstack' = PopC(cstack),
         NEW s \in Seq(Acts),
         callstack' = [callstack EXCEPT ![curr] = s],
         preventcount' =
           [preventcount EXCEPT ![curr] = @ + Preventing(s) - Preventing(callstack[curr])],
         \A d \in 1 .. Len(s) : s[d] = callstack[curr][d],
         \/ lj.type = "none" /\ Len(s) = Depth(curr) - 1
         \/ Falling /\ Len(s) = Depth(curr) /\ Top(curr).cat \notin Catching
  PROVE  Inv(rank)'
<1> SUFFICES ASSUME NEW n, n = Len(cstack), NEW m, m = Depth(curr)
             PROVE  Inv(rank)'
  OBVIOUS
<1>0. /\ TypeInv /\ RestInv /\ EntryInv /\ CountInv /\ JumpInv
      /\ ChainInv(rank) /\ CStackInv(rank) /\ PendingInv(rank)
  BY DEF Inv
<1>1. /\ curr \in Thread /\ state[curr] = "running" /\ None \notin Thread
      /\ \A i \in 1 .. n : ~Refused(cstack[i])
  BY OnExecutorFacts, NoneIsNoThread
<1>2. /\ n \in Nat /\ n > 0 /\ DOMAIN cstack = 1 .. n /\ cstack \in Seq(Catches)
      /\ \A i \in 1 .. n : cstack[i] \in Catches
  BY <1>0, Types DEF OnExecutor, TypeInv
<1>3. /\ n \in 1 .. n /\ cstack[n].kind = "executor" /\ cstack[n].thr = curr /\ cstack[n].depth = m
  BY <1>2 DEF OnExecutor, IsEntry, Innermost
<1>4. /\ m \in Nat /\ m > 0 /\ Active(curr) /\ callstack[curr] \in Seq(Acts)
      /\ DOMAIN callstack[curr] = 1 .. m /\ callstack[curr][m] \in Acts
      /\ Top(curr) = callstack[curr][m]
  BY <1>0, <1>1, Types DEF Active, Top
<1>5. callstack[curr][m].entry /\ callstack[curr][m].kind = "ecma"
  <2>1. CatchInv(n)
    BY <1>0, <1>2, <1>3 DEF CStackInv
  <2>2. callstack[curr][m].entry
    BY <1>3, <2>1 DEF CatchInv
  <2>3. QED
    BY <1>4, <2>2 DEF Acts
<1>6. n > 1 /\ n - 1 \in 1 .. n
  <2>1. ASSUME n = 1
        PROVE  FALSE
    <3>1. CatchInv(1)
      BY <1>0, <1>2, <1>3, <2>1 DEF CStackInv
    <3>2. cstack[1].kind = "safe"
      BY <3>1 DEF CatchInv
    <3>3. QED
      BY <1>3, <2>1, <3>2
  <2>2. QED
    BY <1>2, <2>1
<1>7. /\ cstack' \in Seq(Catches) /\ Len(cstack') = n - 1 /\ DOMAIN cstack' = 1 .. n - 1
      /\ \A i \in 1 .. n - 1 : cstack'[i] = cstack[i]
      /\ \A t \in Thread : Cardinality(SafesOf(cstack', t)) = Cardinality(SafesOf(cstack, t))
  <2>1. cstack # <<>>
    BY DEF OnExecutor
  <2>2. /\ cstack' \in Seq(Catches) /\ Len(cstack') = n - 1
        /\ \A i \in 1 .. n - 1 : cstack'[i] = cstack[i]
        /\ \A t \in Thread : Cardinality(SafesOf(cstack', t)) = Cardinality(SafesOf(cstack, t)) - 0
    BY <1>2, <1>3, <2>1, CPop
  <2>3. \A t \in Thread : Cardinality(SafesOf(cstack, t)) \in Int
    BY <1>2, SafesCount
  <2>4. QED
    BY <2>2, <2>3, LenProperties
<1>8. \A i \in 1 .. n - 1 : i \in 1 .. n /\ i < n
  BY <1>2
<1>9. /\ callstack' \in [Thread -> Seq(Acts)] /\ callstack'[curr] = s
      /\ \A u \in Thread \ {curr} : callstack'[u] = callstack[u]
      /\ preventcount' \in [Thread -> Int]
      /\ \A u \in Thread : preventcount'[u] - Preventing(callstack'[u])
                            = preventcount[u] - Preventing(callstack[u])
  BY <1>0, <1>1, OneStack
<1>10. Len(s) \in Nat /\ DOMAIN s = 1 .. Len(s) /\ Len(s) <= m /\ m - 1 <= Len(s)
  BY <1>4, LenProperties
<1>11. /\ \A t : Active(t)' <=> Active(t)
       /\ Falling' <=> Falling
  BY DEF Active, Falling
<1>12. cstack' # <<>> /\ Innermost' = cstack[n - 1]
  BY <1>6, <1>7, EmptySeq DEF Innermost
<1>13. LinkInv(n - 1) /\ CatchInv(n - 1) /\ ~Refused(cstack[n - 1]) /\ cstack[n - 1] \in Catches
  BY <1>0, <1>1, <1>2, <1>6 DEF CStackInv
<1>14. /\ cstack[n - 1].kind = "safe" => cstack[n - 1].thr = curr /\ m = cstack[n - 1].depth + 1
       /\ cstack[n - 1].kind = "executor" => m >= 2
  <2>1. n - 1 + 1 = n /\ n - 1 < n /\ ~Refused(cstack[n])
    BY <1>1, <1>2, <1>3
  <2>2. QED
    BY <1>3, <1>13, <2>1 DEF LinkInv
<1>15. ASSUME NEW i \in 1 .. n - 1, cstack[i].thr = curr
       PROVE  cstack[i].depth < m /\ cstack[i].depth \in Nat
  <2>1. OrderInv(rank, i, n) /\ cstack[i] \in Catches
    BY <1>0, <1>2, <1>3, <1>8 DEF CStackInv
  <2>2. i < n
    BY <1>8
  <2>3. QED
    BY <1>3, <1>15, <2>1, <2>2 DEF OrderInv, Catches
<1>16. TypeInv'
  BY <1>0, <1>7, <1>9 DEF TypeInv
<1>17. RestInv'
  <2>1. ASSUME NEW t \in Thread, t # curr
        PROVE  callstack'[t] = callstack[t] /\ Top(t)' = Top(t)
    BY <1>9, <2>1 DEF Top, Depth
  <2>2. \A t \in Thread : ~Active(t)' /\ state'[t] # "yielded" => callstack'[t] = <<>>
    BY <1>0, <1>4, <1>11, <2>1 DEF RestInv
  <2>3. \A t \in Thread : state'[t] = "yielded" => callstack'[t] # <<>> /\ Top(t)'.kind = "yield"
    BY <1>0, <1>1, <2>1 DEF RestInv
  <2>4. s # <<>> => s[1].kind = "ecma"
    <3>1. s # <<>> => 1 \in 1 .. Len(s)
      BY <1>10, EmptySeq
    <3>2. QED
      BY <1>0, <1>1, <3>1 DEF RestInv
  <2>5. \A t \in Thread : callstack'[t] # <<>> => callstack'[t][1].kind = "ecma"
    BY <1>0, <1>9, <2>4 DEF RestInv
  <2>6. OnExecutor' => callstack'[curr'] # <<>>
    <3>1. cstack[n - 1].kind = "executor" => s # <<>>
      BY <1>4, <1>10, <1>14, EmptySeq
    <3>2. QED
      BY <1>9, <1>12, <3>1 DEF OnExecutor
  <2>7. QED
    BY <1>0, <2>2, <2>3, <2>5, <2>6 DEF RestInv
<1>18. ChainInv(rank)'
  <2>1. \A t \in Thread : resumer[t] # curr
    BY <1>0, <1>1 DEF ChainInv
  <2>2. \A t \in Thread : resumer[t] # None => callstack'[resumer[t]] = callstack[resumer[t]]
    BY <1>0, <1>9, <2>1 DEF TypeInv
  <2>3. QED
    BY <1>0, <1>11, <2>2 DEF ChainInv, Top, Depth
<1>19. ASSUME NEW i \in 1 .. n - 1
       PROVE  CatchInv(i)'
  <2>1. CatchInv(i) /\ cstack[i] \in Catches /\ ~Refused(cstack[i]) /\ cstack'[i] = cstack[i]
    BY <1>0, <1>1, <1>2, <1>7, <1>8, <1>19 DEF CStackInv
  <2>2. CASE cstack[i].thr = curr
    <3>1. cstack[i].depth < m /\ cstack[i].depth \in Nat
      BY <1>15, <1>19, <2>2
    <3>2. cstack[i].kind = "executor" => cstack[i].depth \in 1 .. Len(s) /\ callstack[curr][cstack[i].depth].entry
      BY <1>4, <1>10, <2>1, <2>2, <3>1 DEF CatchInv
    <3>3. cstack[i].kind = "executor" => s[cstack[i].depth].entry
      BY <3>2
    <3>4. cstack[i].depth <= Len(s)
      BY <1>4, <1>10, <3>1
    <3>5. QED
      BY <1>9, <1>11, <2>1, <2>2, <3>3, <3>4 DEF CatchInv, Depth
  <2>3. CASE cstack[i].thr # curr
    <3>1. cstack[i].thr \in Thread
      BY <2>1 DEF Catches
    <3>2. callstack'[cstack[i].thr] = callstack[cstack[i].thr]
      BY <1>9, <2>3, <3>1
    <3>3. QED
      BY <1>11, <2>1, <3>2 DEF CatchInv, Depth
  <2>4. QED
    BY <2>2, <2>3
<1>20. CStackInv(rank)'
  <2>1. ASSUME NEW i \in 1 .. n - 1
        PROVE  RefusedInv(i)' /\ LinkInv(i)'
    <3>1. LinkInv(i) /\ ~Refused(cstack[i]) /\ cstack'[i] = cstack[i]
      BY <1>0, <1>1, <1>2, <1>7, <1>8, <2>1 DEF CStackInv
    <3>2. RefusedInv(i)'
      BY <3>1 DEF RefusedInv
    <3>3. CASE i < n - 1
      <4>1. i + 1 \in 1 .. n /\ i + 1 \in 1 .. n - 1 /\ i < n
        BY <1>2, <3>3
      <4>2. ~Refused(cstack[i + 1]) /\ cstack'[i + 1] = cstack[i + 1]
        BY <1>1, <1>7, <4>1
      <4>3. QED
        BY <3>1, <3>2, <4>1, <4>2 DEF LinkInv
    <3>4. CASE ~(i < n - 1)
      BY <1>7, <3>2, <3>4 DEF LinkInv
    <3>5. QED
      BY <3>3, <3>4
  <2>2. ASSUME NEW i \in 1 .. n - 1, NEW j \in 1 .. n - 1
        PROVE  OrderInv(rank, i, j)'
    <3>1. OrderInv(rank, i, j) /\ cstack'[i] = cstack[i] /\ cstack'[j] = cstack[j]
      BY <1>0, <1>2, <1>7, <1>8, <2>2 DEF CStackInv
    <3>2. QED
      BY <3>1 DEF OrderInv
  <2>3. SafeTopInv'
    <3>1. SUFFICES ASSUME cstack[n - 1].kind = "safe"
                   PROVE  SafeTopInv'
      BY <1>12 DEF SafeTopInv
    <3>2. cstack[n - 1].thr = curr' /\ m = cstack[n - 1].depth + 1 /\ cstack[n - 1].depth \in Nat
      BY <1>13, <1>14, <3>1 DEF Catches
    <3>3. Len(callstack'[curr']) = Len(s)
      BY <1>9
    <3>4. CASE Len(s) = m - 1
      <4>1. Len(callstack'[curr']) = cstack[n - 1].depth
        BY <3>2, <3>3, <3>4
      <4>2. QED
        BY <1>12, <3>2, <4>1 DEF SafeTopInv, Depth
    <3>5. CASE Falling /\ Len(s) = m /\ Top(curr).cat \notin Catching
      <4>1. m \in 1 .. Len(s)
        BY <1>4, <3>5
      <4>2. Top(curr)' = Top(curr)
        BY <1>4, <1>9, <3>5, <4>1 DEF Top, Depth
      <4>3. Len(callstack'[curr']) = cstack[n - 1].depth + 1
        BY <3>2, <3>3, <3>5
      <4>4. QED
        BY <1>11, <1>12, <3>2, <3>5, <4>2, <4>3 DEF SafeTopInv, Depth
    <3>6. QED
      BY <3>4, <3>5
  <2>4. curr' # None
    BY <1>1
  <2>5. \A i \in 1 .. n - 1 : RefusedInv(i)' /\ CatchInv(i)' /\ LinkInv(i)'
    BY <1>19, <2>1
  <2>6. QED
    BY <1>7, <1>12, <2>2, <2>3, <2>4, <2>5 DEF CStackInv
<1>21. EntryInv'
  <2>1. SUFFICES ASSUME NEW t \in Thread, NEW d \in DOMAIN callstack'[t], callstack'[t][d].entry
                 PROVE  \/ \E i \in DOMAIN cstack' :
                             cstack'[i].kind = "executor" /\ cstack'[i].thr = t /\ cstack'[i].depth = d
                        \/ /\ Falling' /\ t = curr' /\ d = Depth(t)' /\ callstack'[t][d].cat \notin Catching
                           /\ ~Refused(Innermost')
                           /\ \A i \in DOMAIN cstack' :
                                ~Refused(cstack'[i]) /\ cstack'[i].thr = curr' => cstack'[i].depth < d
    BY DEF EntryInv
  <2>2. d \in DOMAIN callstack[t] /\ callstack[t][d].entry /\ (t = curr => d \in 1 .. Len(s))
    <3>1. CASE t = curr
      <4>1. d \in 1 .. Len(s) /\ callstack'[t] = s
        BY <1>9, <1>10, <2>1, <3>1
      <4>2. d \in 1 .. m
        BY <1>4, <1>10, <4>1
      <4>3. QED
        BY <1>4, <2>1, <3>1, <4>1, <4>2
    <3>2. CASE t # curr
      BY <1>9, <2>1, <3>2
    <3>3. QED
      BY <3>1, <3>2
  <2>3. ASSUME t # curr \/ d # m
        PROVE  \E i \in DOMAIN cstack' :
                 cstack'[i].kind = "executor" /\ cstack'[i].thr = t /\ cstack'[i].depth = d
    <3>1. ~(Falling /\ t = curr /\ d = Depth(t))
      BY <2>3
    <3>2. \E i \in DOMAIN cstack :
            cstack[i].kind = "executor" /\ cstack[i].thr = t /\ cstack[i].depth = d
      BY <1>0, <2>2, <3>1 DEF EntryInv
    <3>3. PICK i \in 1 .. n : cstack[i].kind = "executor" /\ cstack[i].thr = t /\ cstack[i].depth = d
      BY <1>2, <3>2
    <3>4. i # n
      BY <1>3, <2>3, <3>3
    <3>5. i \in 1 .. n - 1
      BY <1>2, <3>3, <3>4
    <3>6. QED
      BY <1>7, <3>3, <3>5
  <2>4. CASE t = curr /\ d = m
    <3>1. Falling /\ Len(s) = m /\ Top(curr).cat \notin Catching
      BY <1>4, <1>10, <2>2, <2>4
    <3>2. callstack'[t][d] = Top(curr) /\ Depth(t)' = m
      BY <1>4, <1>9, <2>2, <2>4, <3>1 DEF Depth
    <3>3. \A i \in DOMAIN cstack' :
                                ~Refused(cstack'[i]) /\ cstack'[i].thr = curr' => cstack'[i].depth < d
      BY <1>7, <1>15, <2>4
    <3>4. QED
      BY <1>11, <1>12, <1>13, <2>4, <3>1, <3>2, <3>3
  <2>5. QED
    BY <2>3, <2>4
<1>22. CountInv'
  <2>1. SUFFICES ASSUME NEW t \in Thread
                 PROVE  preventcount'[t] = Preventing(callstack'[t]) + Cardinality(SafesOf(cstack', t))
    BY DEF CountInv
  <2>2. /\ callstack'[t] \in Seq(Acts) /\ callstack[t] \in Seq(Acts)
        /\ preventcount'[t] \in Int /\ preventcount[t] \in Int
    BY <1>0, <1>9 DEF TypeInv
  <2>3. Preventing(callstack'[t]) \in Nat /\ Preventing(callstack[t]) \in Nat
    BY <2>2, PreventingCounts
  <2>4. Cardinality(SafesOf(cstack, t)) \in Nat /\ Cardinality(SafesOf(cstack', t)) = Cardinality(SafesOf(cstack, t))
    BY <1>2, <1>7, SafesCount
  <2>5. preventcount[t] = Preventing(callstack[t]) + Cardinality(SafesOf(cstack, t))
    BY <1>0 DEF CountInv
  <2>6. preventcount'[t] - Preventing(callstack'[t]) = preventcount[t] - Preventing(callstack[t])
    BY <1>9
  <2>7. QED
    BY <2>2, <2>3, <2>4, <2>5, <2>6
<1>23. PendingInv(rank)'
  <2>1. SUFFICES ASSUME NEW t \in Thread, NEW d \in DOMAIN callstack'[t]
                 PROVE  PendingAt(rank, t, d)'
    BY DEF PendingInv
  <2>2. ASSUME d \in DOMAIN callstack[t], callstack'[t][d] = callstack[t][d],
               \A e \in 1 .. d - 1 : callstack'[t][e] = callstack[t][e],
               t # curr \/ d # m
        PROVE  PendingAt(rank, t, d)'
    <3>1. PendingAt(rank, t, d) /\ ~Failed(t, d)
      BY <1>0, <2>2 DEF PendingInv, Failed
    <3>2. QED
      BY <1>11, <2>2, <3>1 DEF PendingAt
  <2>3. CASE t # curr
    BY <1>9, <2>1, <2>2, <2>3
  <2>4. CASE t = curr
    <3>1. d \in 1 .. Len(s) /\ callstack'[t] = s
      BY <1>9, <1>10, <2>1, <2>4
    <3>2. d \in 1 .. m /\ \A e \in 1 .. d - 1 : e \in 1 .. Len(s)
      BY <1>4, <1>10, <3>1
    <3>3. CASE d # m
      BY <1>4, <2>2, <2>4, <3>1, <3>2, <3>3
    <3>4. CASE d = m
      <4>1. callstack'[t][d].kind = "ecma"
        BY <1>5, <2>4, <3>1, <3>4
      <4>2. QED
        BY <4>1 DEF PendingAt
    <3>5. QED
      BY <3>3, <3>4
  <2>5. QED
    BY <2>3, <2>4
<1>24. JumpInv'
  <2>1. lj.type \in {"none", "throw"}
    BY DEF Falling
  <2>2. QED
    BY <1>0, <1>12, <2>1 DEF JumpInv
<1>25. QED
  BY <1>16, <1>17, <1>18, <1>20, <1>21, <1>22, <1>23, <1>24 DEF Inv

\* A protected call is over: what is left of its thread's stack, and the counter.
LEMMA LeaveSafeStacks ==
  ASSUME TypeInv, CountInv, cstack # <<>>, Innermost.kind = "safe",
         Innermost.depth <= Depth(Innermost.thr), LeaveSafe
  PROVE  /\ callstack' \in [Thread -> Seq(Acts)]
         /\ Len(callstack'[Innermost.thr]) = Innermost.depth
         /\ \A d \in 1 .. Innermost.depth : callstack'[Innermost.thr][d] = callstack[Innermost.thr][d]
         /\ \A t \in Thread \ {Innermost.thr} : callstack'[t] = callstack[t]
         /\ cstack' \in Seq(Catches) /\ Len(cstack') = Len(cstack) - 1
         /\ \A i \in 1 .. Len(cstack) - 1 : cstack'[i] = cstack[i]
         /\ preventcount' \in [Thread -> Int] /\ CountInv'
<1> SUFFICES ASSUME NEW c, c = Innermost, NEW n, n = Len(cstack)
             PROVE  /\ callstack' \in [Thread -> Seq(Acts)]
                    /\ Len(callstack'[c.thr]) = c.depth
                    /\ \A d \in 1 .. c.depth : callstack'[c.thr][d] = callstack[c.thr][d]
                    /\ \A t \in Thread \ {c.thr} : callstack'[t] = callstack[t]
                    /\ cstack' \in Seq(Catches) /\ Len(cstack') = n - 1
                    /\ \A i \in 1 .. n - 1 : cstack'[i] = cstack[i]
                    /\ preventcount' \in [Thread -> Int] /\ CountInv'
  OBVIOUS
<1>1. cstack \in Seq(Catches) /\ n \in Nat /\ n > 0 /\ cstack[n] = c
  BY Types DEF TypeInv, Innermost
<1>2. c \in Catches /\ c.kind = "safe" /\ c.thr \in Thread /\ c.depth \in Nat /\ c.depth <= Depth(c.thr)
  <2>1. c \in Catches
    BY <1>1, Types
  <2>2. QED
    BY <2>1 DEF Catches
<1>3. /\ callstack \in [Thread -> Seq(Acts)] /\ preventcount \in [Thread -> Int]
      /\ callstack[c.thr] \in Seq(Acts) /\ Depth(c.thr) \in Nat /\ Len(callstack[c.thr]) = Depth(c.thr)
  BY <1>2, Types DEF TypeInv, Depth
<1> DEFINE low == SubSeq(callstack[c.thr], 1, c.depth)
           high == SubSeq(callstack[c.thr], c.depth + 1, Depth(c.thr))
<1>4. /\ low \in Seq(Acts) /\ Len(low) = c.depth
      /\ \A d \in 1 .. c.depth : low[d] = callstack[c.thr][d]
      /\ Preventing(high) = Preventing(callstack[c.thr]) - Preventing(low)
  <2>1. c.depth \in 0 .. Len(callstack[c.thr])
    BY <1>2, <1>3
  <2>2. QED
    BY <1>3, <2>1, PreventingCut
<1>5. /\ cstack' = PopC(cstack)
      /\ callstack' = [callstack EXCEPT ![c.thr] = low]
      /\ preventcount' = [preventcount EXCEPT ![c.thr] = @ - 1 - Preventing(high)]
  BY DEF LeaveSafe
<1> HIDE DEF low, high
<1>6. /\ callstack' \in [Thread -> Seq(Acts)] /\ callstack'[c.thr] = low
      /\ \A t \in Thread \ {c.thr} : callstack'[t] = callstack[t]
  BY <1>2, <1>3, <1>4, <1>5
<1>7. /\ cstack' \in Seq(Catches) /\ Len(cstack') = n - 1
      /\ \A i \in 1 .. n - 1 : cstack'[i] = cstack[i]
      /\ \A t \in Thread :
           Cardinality(SafesOf(cstack', t)) = Cardinality(SafesOf(cstack, t)) - (IF c.thr = t THEN 1 ELSE 0)
  <2>1. cstack # <<>>
    BY <1>1, EmptySeq
  <2>2. /\ PopC(cstack) \in Seq(Catches) /\ Len(PopC(cstack)) = n - 1
        /\ \A i \in 1 .. n - 1 : PopC(cstack)[i] = cstack[i]
        /\ \A t \in Thread :
             Cardinality(SafesOf(PopC(cstack), t)) = Cardinality(SafesOf(cstack, t))
               - (IF cstack[n].kind = "safe" /\ cstack[n].thr = t THEN 1 ELSE 0)
    BY <1>1, <2>1, CPop
  <2>3. QED
    BY <1>1, <1>2, <1>5, <2>2
<1>8. \A t \in Thread :
         /\ Preventing(callstack[t]) \in Nat /\ Preventing(callstack'[t]) \in Nat
         /\ Cardinality(SafesOf(cstack, t)) \in Nat /\ preventcount[t] \in Int
  <2>1. TAKE t \in Thread
  <2>2. callstack[t] \in Seq(Acts) /\ callstack'[t] \in Seq(Acts) /\ preventcount[t] \in Int
    BY <1>3, <1>6
  <2>3. QED
    BY <1>1, <2>2, PreventingCounts, SafesCount
<1>9. /\ preventcount' \in [Thread -> Int]
      /\ preventcount'[c.thr] = preventcount[c.thr] - 1 - Preventing(high)
      /\ \A t \in Thread \ {c.thr} : preventcount'[t] = preventcount[t]
  <2>1. Preventing(high) \in Int
    <3>1. Preventing(low) \in Int
      BY <1>4, PreventingCounts
    <3>2. QED
      BY <1>2, <1>4, <1>8, <3>1
  <2>2. QED
    BY <1>2, <1>3, <1>5, <2>1
<1>10. CountInv'
  <2>1. SUFFICES ASSUME NEW t \in Thread
                 PROVE  preventcount'[t] = Preventing(callstack'[t]) + Cardinality(SafesOf(cstack', t))
    BY DEF CountInv
  <2>2. preventcount[t] = Preventing(callstack[t]) + Cardinality(SafesOf(cstack, t))
    BY DEF CountInv
  <2>3. CASE t = c.thr
    <3>1. callstack'[t] = low /\ preventcount'[t] = preventcount[t] - 1 - Preventing(high)
      BY <1>6, <1>9, <2>3
    <3>2. Preventing(high) = Preventing(callstack[t]) - Preventing(callstack'[t])
      BY <1>4, <2>3, <3>1
    <3>3. Cardinality(SafesOf(cstack', t)) = Cardinality(SafesOf(cstack, t)) - 1
      BY <1>7, <2>3
    <3>4. /\ Preventing(callstack[t]) \in Nat /\ Preventing(callstack'[t]) \in Nat
          /\ Cardinality(SafesOf(cstack, t)) \in Nat /\ preventcount[t] \in Int
      BY <1>8
    <3>5. QED
      BY <2>2, <3>1, <3>2, <3>3, <3>4
  <2>4. CASE t # c.thr
    BY <1>6, <1>7, <1>8, <1>9, <2>2, <2>4
  <2>5. QED
    BY <2>3, <2>4
<1>11. QED
  BY <1>4, <1>6, <1>7, <1>9, <1>10

\* The refused finalizer's call is left: nothing of it stays.
LEMMA LeaveRefusedStep ==
  ASSUME NEW rank \in Ranks, Inv(rank), cstack # <<>>, Innermost.kind = "safe", Refused(Innermost),
         LeaveSafe
  PROVE  Inv(rank)'
<1> SUFFICES ASSUME NEW c, c = Innermost, NEW n, n = Len(cstack)
             PROVE  Inv(rank)'
  OBVIOUS
<1>0. /\ TypeInv /\ RestInv /\ EntryInv /\ CountInv /\ JumpInv
      /\ ChainInv(rank) /\ CStackInv(rank) /\ PendingInv(rank)
  BY DEF Inv
<1>1. /\ n \in Nat /\ n > 0 /\ DOMAIN cstack = 1 .. n /\ n \in 1 .. n /\ cstack[n] = c
      /\ \A i \in 1 .. n : cstack[i] \in Catches
  BY <1>0, Types DEF Innermost
<1>2. /\ n > 1 /\ Falling /\ c.kind = "safe" /\ c.thr = Main /\ Refused(c)
      /\ curr = c.curr /\ state[Main] = c.state /\ c.depth = Depth(Main)
  <2>1. RefusedInv(n)
    BY <1>0, <1>1 DEF CStackInv
  <2>2. QED
    BY <1>1, <2>1 DEF RefusedInv
<1>3. \A i \in 1 .. n - 1 : i \in 1 .. n /\ i < n /\ ~Refused(cstack[i])
  <2>1. TAKE i \in 1 .. n - 1
  <2>2. i \in 1 .. n /\ i < n
    BY <1>1
  <2>3. RefusedInv(i)
    BY <1>0, <1>1, <2>2 DEF CStackInv
  <2>4. QED
    BY <2>2, <2>3 DEF RefusedInv
<1>4. Main \in Thread /\ None \notin Thread /\ curr # None
  BY <1>0, NoneIsNoThread DEF CStackInv
<1>5. /\ callstack' \in [Thread -> Seq(Acts)]
      /\ Len(callstack'[Main]) = c.depth
      /\ \A d \in 1 .. c.depth : callstack'[Main][d] = callstack[Main][d]
      /\ \A t \in Thread \ {Main} : callstack'[t] = callstack[t]
      /\ cstack' \in Seq(Catches) /\ Len(cstack') = n - 1
      /\ \A i \in 1 .. n - 1 : cstack'[i] = cstack[i]
      /\ preventcount' \in [Thread -> Int] /\ CountInv'
  <2>1. Innermost.depth <= Depth(Innermost.thr)
    BY <1>0, <1>2, <1>4, Types
  <2>2. QED
    BY <1>0, <1>2, <2>1, LeaveSafeStacks
<1>6. callstack' = callstack
  <2>1. callstack \in [Thread -> Seq(Acts)]
    BY <1>0 DEF TypeInv
  <2>2. callstack'[Main] = callstack[Main]
    <3>1. callstack'[Main] \in Seq(Acts) /\ callstack[Main] \in Seq(Acts)
      BY <1>4, <1>5, <2>1
    <3>2. Len(callstack[Main]) = c.depth
      BY <1>2 DEF Depth
    <3>3. QED
      BY <1>5, <3>1, <3>2, SeqEqual
  <2>3. \A t \in Thread : callstack'[t] = callstack[t]
    BY <1>5, <2>2
  <2>4. QED
    BY <1>5, <2>1, <2>3
<1>7. /\ curr' = curr /\ state' = state /\ lj' = NoJump /\ resumer' = resumer /\ native' = native
      /\ finalizer' \in {"due", "running", "ran", "refused"}
  <2>1. curr' = c.curr /\ state' = [state EXCEPT ![c.thr] = c.state]
        /\ lj' = NoJump /\ resumer' = resumer /\ native' = native
    BY DEF LeaveSafe
  <2>2. state \in [Thread -> State] /\ finalizer \in {"due", "running", "ran", "refused"}
    BY <1>0 DEF TypeInv
  <2>3. finalizer' \in {"due", "running", "ran", "refused"}
    BY <2>2 DEF LeaveSafe, Finished
  <2>4. state' = state
    BY <1>2, <1>4, <2>1, <2>2
  <2>5. QED
    BY <1>2, <2>1, <2>3, <2>4
<1>8. /\ cstack' # <<>> /\ DOMAIN cstack' = 1 .. n - 1 /\ Innermost' = cstack[n - 1]
      /\ n - 1 \in 1 .. n - 1 /\ n - 1 \in Nat
  <2>1. n - 1 \in 1 .. n - 1 /\ n - 1 \in Nat /\ n - 1 > 0
    BY <1>1, <1>2
  <2>2. cstack' # <<>> /\ DOMAIN cstack' = 1 .. n - 1
    BY <1>5, <2>1, LenProperties, EmptySeq
  <2>3. QED
    BY <1>5, <2>1, <2>2 DEF Innermost
<1>9. /\ \A t : Active(t)' <=> Active(t)
      /\ ~Falling'
  BY <1>7, JumpsMade DEF Active, Falling
<1>10. /\ cstack[n - 1].kind = "safe" => cstack[n - 1].thr = curr /\ Depth(curr) = cstack[n - 1].depth
       /\ cstack[n - 1].kind = "executor" => callstack[curr] # <<>>
  <2>1. LinkInv(n - 1) /\ n - 1 < n /\ n - 1 + 1 = n
    BY <1>0, <1>1, <1>3, <1>8 DEF CStackInv
  <2>2. QED
    BY <1>1, <1>2, <2>1 DEF LinkInv
<1>11. TypeInv'
  BY <1>0, <1>5, <1>7, JumpsMade DEF TypeInv
<1>12. RestInv'
  <2>1. \A t \in Thread : Top(t)' = Top(t)
    BY <1>6 DEF Top, Depth
  <2>2. OnExecutor' => callstack'[curr'] # <<>>
    BY <1>6, <1>7, <1>8, <1>10 DEF OnExecutor
  <2>3. QED
    BY <1>0, <1>6, <1>7, <1>9, <2>1, <2>2 DEF RestInv
<1>13. ChainInv(rank)'
  BY <1>0, <1>6, <1>7, <1>9 DEF ChainInv, Top, Depth
<1>14. CStackInv(rank)'
  <2>1. ASSUME NEW i \in 1 .. n - 1
        PROVE  RefusedInv(i)' /\ CatchInv(i)' /\ LinkInv(i)'
    <3>1. LinkInv(i) /\ CatchInv(i) /\ ~Refused(cstack[i]) /\ cstack'[i] = cstack[i]
      BY <1>0, <1>1, <1>3, <1>5, <2>1 DEF CStackInv
    <3>2. RefusedInv(i)' /\ CatchInv(i)'
      BY <1>6, <1>7, <1>9, <3>1 DEF RefusedInv, CatchInv, Depth
    <3>3. CASE i < n - 1
      <4>1. i + 1 \in 1 .. n - 1 /\ i < n
        BY <1>1, <3>3
      <4>2. ~Refused(cstack[i + 1]) /\ cstack'[i + 1] = cstack[i + 1]
        BY <1>3, <1>5, <4>1
      <4>3. QED
        BY <3>1, <3>2, <4>1, <4>2 DEF LinkInv
    <3>4. CASE ~(i < n - 1)
      BY <1>5, <3>2, <3>4 DEF LinkInv
    <3>5. QED
      BY <3>3, <3>4
  <2>2. ASSUME NEW i \in 1 .. n - 1, NEW j \in 1 .. n - 1
        PROVE  OrderInv(rank, i, j)'
    <3>1. OrderInv(rank, i, j) /\ cstack'[i] = cstack[i] /\ cstack'[j] = cstack[j]
      BY <1>0, <1>1, <1>3, <1>5, <2>2 DEF CStackInv
    <3>2. QED
      BY <3>1 DEF OrderInv
  <2>3. SafeTopInv'
    BY <1>6, <1>7, <1>8, <1>10 DEF SafeTopInv, Depth
  <2>4. curr' # None
    BY <1>4, <1>7
  <2>5. QED
    BY <1>8, <2>1, <2>2, <2>3, <2>4 DEF CStackInv
<1>15. EntryInv'
  <2>1. SUFFICES ASSUME NEW t \in Thread, NEW d \in DOMAIN callstack'[t], callstack'[t][d].entry
                 PROVE  \E i \in DOMAIN cstack' :
                          cstack'[i].kind = "executor" /\ cstack'[i].thr = t /\ cstack'[i].depth = d
    BY DEF EntryInv
  <2>2. \E i \in DOMAIN cstack :
          cstack[i].kind = "executor" /\ cstack[i].thr = t /\ cstack[i].depth = d
    BY <1>0, <1>2, <1>6, <2>1 DEF EntryInv
  <2>3. PICK i \in 1 .. n : cstack[i].kind = "executor" /\ cstack[i].thr = t /\ cstack[i].depth = d
    BY <1>1, <2>2
  <2>4. i # n
    BY <1>1, <1>2, <2>3
  <2>5. i \in 1 .. n - 1
    BY <1>1, <2>4
  <2>6. QED
    BY <1>5, <1>8, <2>3, <2>5
<1>16. PendingInv(rank)'
  <2>1. SUFFICES ASSUME NEW t \in Thread, NEW d \in DOMAIN callstack'[t]
                 PROVE  PendingAt(rank, t, d)'
    BY DEF PendingInv
  <2>2. PendingAt(rank, t, d) /\ ~Failed(t, d)
    BY <1>0, <1>2, <1>6, <2>1 DEF PendingInv, Failed, OnExecutor
  <2>3. QED
    BY <1>6, <1>9, <2>2 DEF PendingAt
<1>17. JumpInv'
  BY <1>7, JumpsMade DEF JumpInv
<1>18. QED
  BY <1>5, <1>11, <1>12, <1>13, <1>14, <1>15, <1>16, <1>17 DEF Inv

\* A protected call made by code is left: its thread goes on below it.
LEMMA LeaveSafeStep ==
  ASSUME NEW rank \in Ranks, Inv(rank), cstack # <<>>, Innermost.kind = "safe", ~Refused(Innermost),
         Len(cstack) > 1, LeaveSafe
  PROVE  Inv(rank)'
<1> SUFFICES ASSUME NEW c, c = Innermost, NEW n, n = Len(cstack), NEW m, m = c.depth
             PROVE  Inv(rank)'
  OBVIOUS
<1>0. /\ TypeInv /\ RestInv /\ EntryInv /\ CountInv /\ JumpInv
      /\ ChainInv(rank) /\ CStackInv(rank) /\ PendingInv(rank)
  BY DEF Inv
<1>1. /\ n \in Nat /\ n > 1 /\ DOMAIN cstack = 1 .. n /\ n \in 1 .. n /\ cstack[n] = c /\ c \in Catches
      /\ \A i \in 1 .. n : cstack[i] \in Catches
  BY <1>0, Types DEF Innermost
<1>2. None \notin Thread /\ curr # None /\ curr \in Thread
  BY <1>0, NoneIsNoThread DEF CStackInv, TypeInv
<1>3. CatchInv(n) /\ ~Refused(c)
  BY <1>0, <1>1 DEF CStackInv
<1>4. /\ c.kind = "safe" /\ c.thr = curr /\ c.curr = curr /\ c.state = "running"
      /\ m \in Nat
  <2>1. c.thr = curr
    BY <1>0 DEF CStackInv, SafeTopInv
  <2>2. c.curr # None
    BY <1>1, <1>3 DEF CatchInv
  <2>3. c.curr = curr
    BY <1>3, <2>1, <2>2 DEF Refused
  <2>4. c.state = "running"
    BY <1>1, <1>3, <2>2 DEF CatchInv
  <2>5. QED
    BY <1>1, <2>1, <2>3, <2>4 DEF Catches
<1>5. /\ Depth(curr) \in Nat /\ DOMAIN callstack[curr] = 1 .. Depth(curr)
      /\ \/ Depth(curr) = m
         \/ Falling /\ Depth(curr) = m + 1 /\ Top(curr).cat \notin Catching
  BY <1>0, <1>2, <1>4, Types DEF CStackInv, SafeTopInv
<1>6. state[curr] = "running" /\ Active(curr) /\ curr \in Thread
  BY <1>0, <1>2 DEF ChainInv, Active
<1>7. \A i \in 1 .. n - 1 : i \in 1 .. n /\ i < n /\ ~Refused(cstack[i])
  <2>1. TAKE i \in 1 .. n - 1
  <2>2. i \in 1 .. n /\ i < n
    BY <1>1
  <2>3. RefusedInv(i)
    BY <1>0, <1>1, <2>2 DEF CStackInv
  <2>4. QED
    BY <2>2, <2>3 DEF RefusedInv
<1>8. /\ callstack' \in [Thread -> Seq(Acts)]
      /\ Len(callstack'[curr]) = m
      /\ \A d \in 1 .. m : callstack'[curr][d] = callstack[curr][d]
      /\ \A t \in Thread \ {curr} : callstack'[t] = callstack[t]
      /\ cstack' \in Seq(Catches) /\ Len(cstack') = n - 1
      /\ \A i \in 1 .. n - 1 : cstack'[i] = cstack[i]
      /\ preventcount' \in [Thread -> Int] /\ CountInv'
  <2>1. Innermost.depth <= Depth(Innermost.thr)
    BY <1>4, <1>5
  <2>2. QED
    BY <1>0, <1>4, <2>1, LeaveSafeStacks
<1>9. /\ curr' = curr /\ state' = state /\ lj' = NoJump /\ resumer' = resumer /\ native' = native
      /\ finalizer' \in {"due", "running", "ran", "refused"}
  <2>1. curr' = c.curr /\ state' = [state EXCEPT ![c.thr] = c.state]
        /\ lj' = NoJump /\ resumer' = resumer /\ native' = native
    BY DEF LeaveSafe
  <2>2. state \in [Thread -> State] /\ finalizer \in {"due", "running", "ran", "refused"}
    BY <1>0 DEF TypeInv
  <2>3. finalizer' \in {"due", "running", "ran", "refused"}
    BY <2>2 DEF LeaveSafe, Finished
  <2>4. state' = state
    BY <1>4, <1>6, <2>1, <2>2
  <2>5. QED
    BY <1>4, <2>1, <2>3, <2>4
<1>10. /\ cstack' # <<>> /\ DOMAIN cstack' = 1 .. n - 1 /\ Innermost' = cstack[n - 1]
       /\ n - 1 \in 1 .. n - 1 /\ n - 1 \in Nat
  <2>1. n - 1 \in 1 .. n - 1 /\ n - 1 \in Nat /\ n - 1 > 0
    BY <1>1
  <2>2. cstack' # <<>> /\ DOMAIN cstack' = 1 .. n - 1
    BY <1>8, <2>1, LenProperties, EmptySeq
  <2>3. QED
    BY <1>8, <2>1, <2>2 DEF Innermost
<1>11. /\ \A t : Active(t)' <=> Active(t)
       /\ ~Falling'
  BY <1>9, JumpsMade DEF Active, Falling
<1>12. /\ cstack[n - 1].kind = "safe" => cstack[n - 1].thr = curr /\ m = cstack[n - 1].depth
       /\ cstack[n - 1].kind = "executor" => m >= 1
  <2>1. LinkInv(n - 1) /\ n - 1 < n /\ n - 1 + 1 = n
    BY <1>0, <1>1, <1>7, <1>10 DEF CStackInv
  <2>2. QED
    BY <1>1, <1>3, <1>4, <2>1 DEF LinkInv
<1>13. ASSUME NEW i \in 1 .. n - 1, cstack[i].thr = curr
       PROVE  cstack[i].depth <= m /\ cstack[i].depth \in Nat
  <2>1. OrderInv(rank, i, n) /\ cstack[i] \in Catches /\ i < n
    BY <1>0, <1>1, <1>7 DEF CStackInv
  <2>2. QED
    BY <1>1, <1>4, <1>13, <2>1 DEF OrderInv, Catches
<1>14. \A d \in 1 .. m : d \in 1 .. Depth(curr)
  BY <1>4, <1>5
<1>15. TypeInv'
  BY <1>0, <1>8, <1>9, JumpsMade DEF TypeInv
<1>16. RestInv'
  <2>1. ASSUME NEW t \in Thread, t # curr
        PROVE  callstack'[t] = callstack[t] /\ Top(t)' = Top(t)
    BY <1>8, <2>1 DEF Top, Depth
  <2>2. \A t \in Thread : ~Active(t)' /\ state'[t] # "yielded" => callstack'[t] = <<>>
    BY <1>0, <1>6, <1>9, <1>11, <2>1 DEF RestInv
  <2>3. \A t \in Thread : state'[t] = "yielded" => callstack'[t] # <<>> /\ Top(t)'.kind = "yield"
    BY <1>0, <1>6, <1>9, <2>1 DEF RestInv
  <2>4. callstack'[curr] # <<>> => m >= 1 /\ callstack'[curr][1].kind = "ecma"
    <3>1. SUFFICES ASSUME callstack'[curr] # <<>>
                   PROVE  m >= 1 /\ callstack'[curr][1].kind = "ecma"
      OBVIOUS
    <3>2. callstack'[curr] \in Seq(Acts)
      BY <1>6, <1>8
    <3>3. m >= 1
      BY <1>4, <1>8, <3>1, <3>2, EmptySeq
    <3>4. callstack[curr] # <<>>
      BY <1>0, <1>4, <1>5, <1>6, <3>3, Types
    <3>5. callstack[curr][1].kind = "ecma" /\ 1 \in 1 .. m
      BY <1>0, <1>4, <1>6, <3>3, <3>4 DEF RestInv
    <3>6. QED
      BY <1>8, <3>3, <3>5
  <2>5. \A t \in Thread : callstack'[t] # <<>> => callstack'[t][1].kind = "ecma"
    BY <1>0, <1>8, <2>4 DEF RestInv
  <2>6. OnExecutor' => callstack'[curr'] # <<>>
    <3>1. callstack'[curr] \in Seq(Acts)
      BY <1>6, <1>8
    <3>2. m >= 1 => callstack'[curr] # <<>>
      BY <1>4, <1>8, <3>1, EmptySeq
    <3>3. QED
      BY <1>9, <1>10, <1>12, <3>2 DEF OnExecutor
  <2>7. QED
    BY <1>0, <1>9, <2>2, <2>3, <2>5, <2>6 DEF RestInv
<1>17. ChainInv(rank)'
  <2>1. \A t \in Thread : resumer[t] # curr
    BY <1>0, <1>2, <1>6 DEF ChainInv
  <2>2. \A t \in Thread : resumer[t] # None => callstack'[resumer[t]] = callstack[resumer[t]]
    BY <1>0, <1>8, <2>1 DEF TypeInv
  <2>3. QED
    BY <1>0, <1>9, <1>11, <2>2 DEF ChainInv, Top, Depth
<1>18. ASSUME NEW i \in 1 .. n - 1
       PROVE  CatchInv(i)'
  <2>1. CatchInv(i) /\ cstack[i] \in Catches /\ ~Refused(cstack[i]) /\ cstack'[i] = cstack[i]
    BY <1>0, <1>1, <1>7, <1>8, <1>18 DEF CStackInv
  <2>2. CASE cstack[i].thr = curr
    <3>1. cstack[i].depth <= m /\ cstack[i].depth \in Nat
      BY <1>13, <1>18, <2>2
    <3>2. cstack[i].kind = "executor" => cstack[i].depth \in 1 .. m /\ callstack[curr][cstack[i].depth].entry
      BY <1>4, <2>1, <2>2, <3>1 DEF CatchInv
    <3>3. cstack[i].kind = "executor" => callstack'[curr][cstack[i].depth].entry
      BY <1>8, <3>2
    <3>4. QED
      BY <1>8, <1>9, <1>11, <2>1, <2>2, <3>1, <3>3 DEF CatchInv, Depth
  <2>3. CASE cstack[i].thr # curr
    <3>1. cstack[i].thr \in Thread
      BY <2>1 DEF Catches
    <3>2. callstack'[cstack[i].thr] = callstack[cstack[i].thr]
      BY <1>8, <2>3, <3>1
    <3>3. QED
      BY <1>9, <1>11, <2>1, <3>2 DEF CatchInv, Depth
  <2>4. QED
    BY <2>2, <2>3
<1>19. CStackInv(rank)'
  <2>1. ASSUME NEW i \in 1 .. n - 1
        PROVE  RefusedInv(i)' /\ CatchInv(i)' /\ LinkInv(i)'
    <3>1. LinkInv(i) /\ ~Refused(cstack[i]) /\ cstack'[i] = cstack[i]
      BY <1>0, <1>1, <1>7, <1>8, <2>1 DEF CStackInv
    <3>2. RefusedInv(i)' /\ CatchInv(i)'
      BY <1>18, <2>1, <3>1 DEF RefusedInv
    <3>3. CASE i < n - 1
      <4>1. i + 1 \in 1 .. n - 1 /\ i < n
        BY <1>1, <3>3
      <4>2. ~Refused(cstack[i + 1]) /\ cstack'[i + 1] = cstack[i + 1]
        BY <1>7, <1>8, <4>1
      <4>3. QED
        BY <3>1, <3>2, <4>1, <4>2 DEF LinkInv
    <3>4. CASE ~(i < n - 1)
      BY <1>8, <3>2, <3>4 DEF LinkInv
    <3>5. QED
      BY <3>3, <3>4
  <2>2. ASSUME NEW i \in 1 .. n - 1, NEW j \in 1 .. n - 1
        PROVE  OrderInv(rank, i, j)'
    <3>1. OrderInv(rank, i, j) /\ cstack'[i] = cstack[i] /\ cstack'[j] = cstack[j]
      BY <1>0, <1>1, <1>7, <1>8, <2>2 DEF CStackInv
    <3>2. QED
      BY <3>1 DEF OrderInv
  <2>3. SafeTopInv'
    BY <1>8, <1>9, <1>10, <1>12 DEF SafeTopInv, Depth
  <2>4. curr' # None
    BY <1>2, <1>9
  <2>5. QED
    BY <1>10, <2>1, <2>2, <2>3, <2>4 DEF CStackInv
<1>20. ASSUME NEW t \in Thread, NEW d \in DOMAIN callstack'[t]
       PROVE  /\ d \in DOMAIN callstack[t] /\ callstack'[t][d] = callstack[t][d]
              /\ \A e \in 1 .. d - 1 : callstack'[t][e] = callstack[t][e]
              /\ t = curr => d \in 1 .. m
  <2>1. CASE t # curr
    BY <1>8, <1>20, <2>1
  <2>2. CASE t = curr
    <3>1. callstack'[curr] \in Seq(Acts)
      BY <1>6, <1>8
    <3>2. d \in 1 .. m
      BY <1>8, <1>20, <2>2, <3>1, LenProperties
    <3>3. \A e \in 1 .. d - 1 : e \in 1 .. m
      BY <1>4, <3>2
    <3>4. d \in DOMAIN callstack[t]
      BY <1>5, <1>14, <2>2, <3>2
    <3>5. QED
      BY <1>8, <2>2, <3>2, <3>3, <3>4
  <2>3. QED
    BY <2>1, <2>2
<1>21. EntryInv'
  <2>1. SUFFICES ASSUME NEW t \in Thread, NEW d \in DOMAIN callstack'[t], callstack'[t][d].entry
                 PROVE  \E i \in DOMAIN cstack' :
                          cstack'[i].kind = "executor" /\ cstack'[i].thr = t /\ cstack'[i].depth = d
    BY DEF EntryInv
  <2>2. d \in DOMAIN callstack[t] /\ callstack[t][d].entry /\ (t = curr => d <= m)
    BY <1>20, <2>1
  <2>3. ~(t = curr /\ m < d)
    BY <1>4, <1>20, <2>1
  <2>4. \E i \in DOMAIN cstack :
          cstack[i].kind = "executor" /\ cstack[i].thr = t /\ cstack[i].depth = d
    <3>1. ~(\A i \in DOMAIN cstack : ~Refused(cstack[i]) /\ cstack[i].thr = curr => cstack[i].depth < d) \/ t # curr
      BY <1>1, <1>3, <1>4, <2>3
    <3>2. QED
      BY <1>0, <2>2, <3>1 DEF EntryInv
  <2>5. PICK i \in 1 .. n : cstack[i].kind = "executor" /\ cstack[i].thr = t /\ cstack[i].depth = d
    BY <1>1, <2>4
  <2>6. i # n
    BY <1>1, <1>4, <2>5
  <2>7. i \in 1 .. n - 1
    BY <1>1, <2>6
  <2>8. QED
    BY <1>8, <1>10, <2>5, <2>7
<1>22. PendingInv(rank)'
  <2>1. SUFFICES ASSUME NEW t \in Thread, NEW d \in DOMAIN callstack'[t]
                 PROVE  PendingAt(rank, t, d)'
    BY DEF PendingInv
  <2>2. /\ d \in DOMAIN callstack[t] /\ callstack'[t][d] = callstack[t][d]
        /\ \A e \in 1 .. d - 1 : callstack'[t][e] = callstack[t][e]
    BY <1>20, <2>1
  <2>3. PendingAt(rank, t, d) /\ ~Failed(t, d)
    BY <1>0, <1>4, <2>2 DEF PendingInv, Failed, OnExecutor
  <2>4. QED
    BY <1>11, <2>2, <2>3 DEF PendingAt
<1>23. JumpInv'
  BY <1>9, JumpsMade DEF JumpInv
<1>24. QED
  BY <1>8, <1>15, <1>16, <1>17, <1>19, <1>21, <1>22, <1>23 DEF Inv

\* The host's call is left: no thread is being run, and the heap thread is empty.
LEMMA LeaveHostStep ==
  ASSUME NEW rank \in Ranks, Inv(rank), cstack # <<>>, Innermost.kind = "safe", ~Refused(Innermost),
         Len(cstack) = 1, LeaveSafe
  PROVE  Inv(rank)'
<1> SUFFICES ASSUME NEW c, c = Innermost
             PROVE  Inv(rank)'
  OBVIOUS
<1>0. /\ TypeInv /\ RestInv /\ EntryInv /\ CountInv /\ JumpInv
      /\ ChainInv(rank) /\ CStackInv(rank) /\ PendingInv(rank)
  BY DEF Inv
<1>1. DOMAIN cstack = 1 .. 1 /\ 1 \in 1 .. 1 /\ cstack[1] = c /\ c \in Catches /\ c.kind = "safe"
  BY <1>0, Types DEF Innermost
<1>2. Main \in Thread /\ None \notin Thread
  BY NoneIsNoThread
<1>3. /\ c.thr = Main /\ curr = Main /\ c.curr = None /\ c.state = "inactive" /\ c.depth = 0
  <2>1. c.thr = curr
    BY <1>0 DEF CStackInv, SafeTopInv
  <2>2. CatchInv(1)
    BY <1>0, <1>1 DEF CStackInv
  <2>3. QED
    BY <1>1, <2>1, <2>2 DEF CatchInv
<1>4. /\ callstack' \in [Thread -> Seq(Acts)]
      /\ Len(callstack'[Main]) = 0
      /\ \A t \in Thread \ {Main} : callstack'[t] = callstack[t]
      /\ cstack' \in Seq(Catches) /\ Len(cstack') = 0
      /\ preventcount' \in [Thread -> Int] /\ CountInv'
  <2>1. Innermost.depth <= Depth(Innermost.thr)
    BY <1>0, <1>2, <1>3, Types
  <2>2. Len(cstack) - 1 = 0
    OBVIOUS
  <2>3. QED
    BY <1>0, <1>3, <2>1, <2>2, LeaveSafeStacks
<1>5. callstack'[Main] = <<>> /\ cstack' = <<>> /\ DOMAIN cstack' = {}
  <2>1. callstack'[Main] \in Seq(Acts)
    BY <1>2, <1>4
  <2>2. cstack' = <<>> /\ callstack'[Main] = <<>>
    BY <1>4, <2>1, EmptySeq
  <2>3. DOMAIN cstack' = 1 .. 0
    BY <1>4, LenProperties
  <2>4. QED
    BY <2>2, <2>3
<1>6. /\ curr' = None /\ state' \in [Thread -> State] /\ state'[Main] = "inactive"
      /\ \A t \in Thread \ {Main} : state'[t] = state[t]
      /\ lj' = NoJump /\ resumer' = resumer /\ native' = native
      /\ finalizer' \in {"due", "running", "ran", "refused"}
  <2>1. curr' = None /\ state' = [state EXCEPT ![Main] = "inactive"]
        /\ lj' = NoJump /\ resumer' = resumer /\ native' = native
    BY <1>3 DEF LeaveSafe
  <2>2. state \in [Thread -> State] /\ finalizer \in {"due", "running", "ran", "refused"}
    BY <1>0 DEF TypeInv
  <2>3. finalizer' \in {"due", "running", "ran", "refused"}
    BY <2>2 DEF LeaveSafe, Finished
  <2>4. QED
    BY <1>2, <2>1, <2>2, <2>3 DEF State
<1>7. ASSUME NEW t \in Thread, Active(t)
      PROVE  t = Main
  <2>1. rank[t] <= rank[Main] /\ rank[Main] = 0 /\ Active(Main)
    BY <1>0, <1>2, <1>3, <1>7 DEF ChainInv
  <2>2. rank[t] \in Nat
    BY DEF Ranks
  <2>3. rank[t] = rank[Main]
    BY <2>1, <2>2
  <2>4. QED
    BY <1>0, <1>2, <1>7, <2>1, <2>3 DEF ChainInv
<1>8. \A t \in Thread : ~Active(t)'
  <2>1. TAKE t \in Thread
  <2>2. CASE t = Main
    BY <1>6, <2>2 DEF Active
  <2>3. CASE t # Main
    BY <1>6, <1>7, <2>3 DEF Active
  <2>4. QED
    BY <2>2, <2>3
<1>9. ~Falling' /\ ~OnExecutor'
  BY <1>5, <1>6, JumpsMade DEF Falling, OnExecutor
<1>10. \A t \in Thread : resumer[t] = None
  <2>1. SUFFICES ASSUME NEW t \in Thread, resumer[t] # None
                 PROVE  FALSE
    OBVIOUS
  <2>2. Active(t) /\ rank[t] = rank[resumer[t]] + 1 /\ resumer[t] \in Thread
    BY <1>0, <2>1 DEF ChainInv, TypeInv
  <2>3. t = Main
    BY <1>7, <2>2
  <2>4. rank[t] = 0 /\ rank[resumer[t]] \in Nat
    BY <1>0, <2>2, <2>3 DEF ChainInv, Ranks
  <2>5. QED
    BY <2>2, <2>4
<1>11. TypeInv'
  BY <1>0, <1>4, <1>6, JumpsMade DEF TypeInv
<1>12. RestInv'
  <2>1. ASSUME NEW t \in Thread, t # Main
        PROVE  callstack'[t] = callstack[t] /\ Top(t)' = Top(t)
    BY <1>4, <2>1 DEF Top, Depth
  <2>2. \A t \in Thread : state'[t] # "yielded" => callstack'[t] = <<>>
    <3>1. TAKE t \in Thread
    <3>2. CASE t = Main
      BY <1>5, <3>2
    <3>3. CASE t # Main
      BY <1>0, <1>6, <1>7, <2>1, <3>3 DEF RestInv
    <3>4. QED
      BY <3>2, <3>3
  <2>3. \A t \in Thread : state'[t] = "yielded" => callstack'[t] # <<>> /\ Top(t)'.kind = "yield"
    BY <1>0, <1>6, <2>1 DEF RestInv
  <2>4. \A t \in Thread : callstack'[t] # <<>> => callstack'[t][1].kind = "ecma"
    BY <1>0, <1>5, <2>1 DEF RestInv
  <2>5. QED
    BY <1>6, <1>9, <2>2, <2>3, <2>4 DEF RestInv
<1>13. ChainInv(rank)'
  <2>1. \A t \in Thread : state'[t] # "running" /\ state'[t] # "resumed"
    BY <1>8 DEF Active
  <2>2. rank[Main] = 0
    BY <1>0 DEF ChainInv
  <2>3. QED
    BY <1>2, <1>6, <1>8, <1>10, <2>1, <2>2 DEF ChainInv
<1>14. CStackInv(rank)'
  <2>1. SafeTopInv'
    BY <1>5 DEF SafeTopInv
  <2>2. QED
    BY <1>5, <1>6, <2>1 DEF CStackInv
<1>15. ASSUME NEW t \in Thread, NEW d \in DOMAIN callstack'[t]
       PROVE  t # Main /\ callstack'[t] = callstack[t]
  <2>1. t # Main
    <3>1. ASSUME t = Main
          PROVE  FALSE
      <4>1. callstack'[Main] \in Seq(Acts)
        BY <1>2, <1>4
      <4>2. d \in 1 .. 0
        BY <1>4, <1>15, <3>1, <4>1, LenProperties
      <4>3. QED
        BY <4>2
    <3>2. QED
      BY <3>1
  <2>2. QED
    BY <1>4, <2>1
<1>16. EntryInv'
  <2>1. SUFFICES ASSUME NEW t \in Thread, NEW d \in DOMAIN callstack'[t], callstack'[t][d].entry
                 PROVE  FALSE
    BY DEF EntryInv
  <2>2. t # Main /\ callstack'[t] = callstack[t]
    BY <1>15, <2>1
  <2>3. \E i \in DOMAIN cstack : cstack[i].kind = "executor"
    BY <1>0, <1>3, <2>1, <2>2 DEF EntryInv
  <2>4. QED
    BY <1>1, <2>3
<1>17. PendingInv(rank)'
  <2>1. SUFFICES ASSUME NEW t \in Thread, NEW d \in DOMAIN callstack'[t]
                 PROVE  PendingAt(rank, t, d)'
    BY DEF PendingInv
  <2>2. t # Main /\ callstack'[t] = callstack[t]
    BY <1>15, <2>1
  <2>3. PendingAt(rank, t, d) /\ ~Failed(t, d)
    BY <1>0, <1>3, <2>1, <2>2 DEF PendingInv, Failed
  <2>4. QED
    BY <1>8, <2>2, <2>3 DEF PendingAt
<1>18. JumpInv'
  BY <1>6, JumpsMade DEF JumpInv
<1>19. QED
  BY <1>4, <1>11, <1>12, <1>13, <1>14, <1>16, <1>17, <1>18 DEF Inv

-----------------------------------------------------------------------------
(* Steps from one thread to another *)

\* What ResumeError and ResumeValue leave on the stack of the thread they resume.
Resumed(s) ==
  /\ \A d \in 1 .. Len(s) : ~s[d].entry /\ s[d].kind # "resume"
  /\ \A d \in 1 .. Len(s) : s[d].kind = "yield" => d >= 2 /\ \A e \in 1 .. d - 1 : ~Prevents(s[e])
  /\ s # <<>> => s[1].kind = "ecma"

\* A thread that is not being run and is resumed has rank one more than the one
\* that resumes it.
LEMMA ResumeStep ==
  ASSUME NEW rank \in Ranks, Inv(rank), OnExecutor, lj.type = "resume",
         NEW u, u = lj.to, SwitchTo(u),
         UNCHANGED <<cstack, native, finalizer>>,
         NEW s \in Seq(Acts), Resumed(s),
         callstack' = [callstack EXCEPT ![u] = s],
         preventcount' = [preventcount EXCEPT ![u] = @ + Preventing(s) - Preventing(callstack[u])],
         lj' = Throw \/ (lj' = NoJump /\ s # <<>>)
  PROVE  IInv'
<1> SUFFICES ASSUME NEW n, n = Len(cstack), NEW r, r = curr
             PROVE  IInv'
  OBVIOUS
<1>0. /\ TypeInv /\ RestInv /\ EntryInv /\ CountInv /\ JumpInv
      /\ ChainInv(rank) /\ CStackInv(rank) /\ PendingInv(rank)
  BY DEF Inv
<1>1. /\ r \in Thread /\ state[r] = "running" /\ None \notin Thread /\ Main \in Thread /\ Active(r)
      /\ \A i \in 1 .. n : ~Refused(cstack[i])
  BY OnExecutorFacts, NoneIsNoThread DEF Active
<1>2. /\ n \in Nat /\ n > 0 /\ DOMAIN cstack = 1 .. n /\ cstack \in Seq(Catches)
      /\ \A i \in 1 .. n : cstack[i] \in Catches
  BY <1>0, Types DEF OnExecutor, TypeInv
<1>3. /\ callstack[r] # <<>> /\ Top(r).kind = "resume" /\ Top(r).to = u
  BY <1>0 DEF JumpInv
<1>4. /\ Depth(r) \in Nat /\ Depth(r) > 0 /\ Depth(r) \in 1 .. Depth(r)
      /\ callstack[r][Depth(r)] = Top(r) /\ Top(r) \in Acts
      /\ DOMAIN callstack[r] = 1 .. Depth(r)
  BY <1>0, <1>1, <1>3, Types DEF Top
<1>5. u \in Thread /\ ~Active(u) /\ u # r /\ u # Main
  <2>1. u \in Thread
    BY <1>1, <1>3, <1>4 DEF Acts
  <2>2. ~Falling
    BY DEF Falling
  <2>3. ~Active(u)
    BY <1>3, <1>4, <2>2, CurrentStack
  <2>4. Active(Main)
    BY <1>0, <1>1 DEF ChainInv
  <2>5. QED
    BY <1>1, <2>1, <2>3, <2>4
<1>6. /\ curr' = u
      /\ state' \in [Thread -> State] /\ state'[u] = "running" /\ state'[r] = "resumed"
      /\ \A t \in Thread : t # u /\ t # r => state'[t] = state[t]
      /\ resumer' \in [Thread -> Thread \cup {None}] /\ resumer'[u] = r
      /\ \A t \in Thread : t # u => resumer'[t] = resumer[t]
      /\ cstack' = cstack /\ native' = native /\ finalizer' = finalizer
  BY <1>0, <1>1, <1>5 DEF SwitchTo, TypeInv, State
<1>7. \A t \in Thread : Active(t)' <=> Active(t) \/ t = u
  BY <1>1, <1>5, <1>6 DEF Active
<1>8. /\ callstack' \in [Thread -> Seq(Acts)] /\ callstack'[u] = s
      /\ \A t \in Thread \ {u} : callstack'[t] = callstack[t]
      /\ preventcount' \in [Thread -> Int]
      /\ \A t \in Thread : preventcount'[t] - Preventing(callstack'[t])
                            = preventcount[t] - Preventing(callstack[t])
  BY <1>0, <1>5, OneStack
<1> DEFINE up == [rank EXCEPT ![u] = rank[r] + 1]
<1>9. /\ up \in Ranks /\ up[u] = rank[r] + 1
      /\ \A t \in Thread : t # u => up[t] = rank[t]
      /\ \A t \in Thread : rank[t] \in Nat
  BY <1>1, <1>5 DEF Ranks
<1> HIDE DEF up
<1>10. \A t \in Thread : Active(t) => rank[t] <= rank[r]
  BY <1>0, <1>1 DEF ChainInv
<1>11. Innermost' = Innermost /\ OnExecutor' /\ Innermost.kind = "executor" /\ ~Falling
  BY <1>6 DEF Innermost, OnExecutor, Falling
<1>12. \A t \in Thread : resumer[t] # u
  <2>1. \A t \in Thread : resumer[t] # None => state[resumer[t]] = "resumed"
    BY <1>0 DEF ChainInv
  <2>2. QED
    BY <1>1, <1>5, <2>1 DEF Active
<1>13. TypeInv'
  BY <1>0, <1>1, <1>5, <1>6, <1>8, JumpsMade DEF TypeInv
<1>14. RestInv'
  <2>1. ASSUME NEW t \in Thread, t # u
        PROVE  callstack'[t] = callstack[t] /\ Top(t)' = Top(t)
    BY <1>8, <2>1 DEF Top, Depth
  <2>2. \A t \in Thread : ~Active(t)' /\ state'[t] # "yielded" => callstack'[t] = <<>>
    <3>1. TAKE t \in Thread
    <3>2. CASE t = u \/ t = r
      BY <1>1, <1>7, <3>2
    <3>3. CASE t # u /\ t # r
      BY <1>0, <1>6, <1>7, <2>1, <3>3 DEF RestInv
    <3>4. QED
      BY <3>2, <3>3
  <2>3. \A t \in Thread : state'[t] = "yielded" => callstack'[t] # <<>> /\ Top(t)'.kind = "yield"
    <3>1. TAKE t \in Thread
    <3>2. CASE t = u \/ t = r
      BY <1>6, <3>2
    <3>3. CASE t # u /\ t # r
      BY <1>0, <1>6, <2>1, <3>3 DEF RestInv
    <3>4. QED
      BY <3>2, <3>3
  <2>4. \A t \in Thread : callstack'[t] # <<>> => callstack'[t][1].kind = "ecma"
    BY <1>0, <1>8 DEF RestInv, Resumed
  <2>5. Falling' \/ callstack'[curr'] # <<>>
    BY <1>6, <1>8, JumpsMade DEF Falling
  <2>6. state'[Main] \in {"inactive", "running", "resumed"}
    BY <1>0, <1>1, <1>5, <1>6 DEF RestInv
  <2>7. QED
    BY <2>2, <2>3, <2>4, <2>5, <2>6 DEF RestInv
<1>15. ChainInv(up)'
  <2>1. up[Main] = 0
    BY <1>0, <1>1, <1>5, <1>9 DEF ChainInv
  <2>2. curr' # None /\ Active(Main)'
    BY <1>0, <1>1, <1>5, <1>6, <1>7 DEF ChainInv
  <2>3. \A t \in Thread : state'[t] = "running" <=> t = curr'
    <3>1. TAKE t \in Thread
    <3>2. CASE t = u \/ t = r
      BY <1>5, <1>6, <3>2
    <3>3. CASE t # u /\ t # r
      BY <1>0, <1>6, <3>3 DEF ChainInv
    <3>4. QED
      BY <3>2, <3>3
  <2>4. ASSUME NEW t \in Thread, Active(t)'
        PROVE  up[t] <= up[u] /\ (t # u => up[t] < up[u])
    <3>1. CASE t = u
      BY <1>1, <1>9, <3>1
    <3>2. CASE t # u
      <4>1. rank[t] <= rank[r] /\ rank[t] \in Nat /\ rank[r] \in Nat
        BY <1>1, <1>7, <1>9, <1>10, <2>4, <3>2
      <4>2. QED
        BY <1>9, <3>2, <4>1
    <3>3. QED
      BY <3>1, <3>2
  <2>5. ASSUME NEW x \in Thread, NEW y \in Thread, Active(x)', Active(y)', up[x] = up[y]
        PROVE  x = y
    <3>1. CASE x = u \/ y = u
      <4>1. up[x] <= up[u] /\ up[y] <= up[u] /\ (x # u => up[x] < up[u]) /\ (y # u => up[y] < up[u])
        BY <2>4, <2>5
      <4>2. up[u] \in Nat
        BY <1>1, <1>9
      <4>3. QED
        BY <2>5, <3>1, <4>1, <4>2
    <3>2. CASE x # u /\ y # u
      BY <1>0, <1>7, <1>9, <2>5, <3>2 DEF ChainInv
    <3>3. QED
      BY <3>1, <3>2
  <2>6. ASSUME NEW t \in Thread, resumer'[t] # None
        PROVE  /\ Active(t)'
               /\ state'[resumer'[t]] = "resumed"
               /\ up[t] = up[resumer'[t]] + 1
               /\ callstack'[resumer'[t]] # <<>>
               /\ Len(callstack'[resumer'[t]]) = Depth(resumer'[t])
               /\ callstack'[resumer'[t]][Depth(resumer'[t])].kind = "resume"
               /\ callstack'[resumer'[t]][Depth(resumer'[t])].to = t
    <3>1. CASE t = u
      <4>1. resumer'[t] = r /\ callstack'[r] = callstack[r]
        BY <1>1, <1>5, <1>6, <1>8, <3>1
      <4>2. up[t] = up[r] + 1
        BY <1>1, <1>5, <1>9, <3>1
      <4>3. Len(callstack'[r]) = Depth(r) /\ callstack'[r][Depth(r)] = Top(r)
        BY <1>4, <4>1 DEF Depth
      <4>4. QED
        BY <1>3, <1>6, <1>7, <3>1, <4>1, <4>2, <4>3
    <3>2. CASE t # u
      <4>1. resumer'[t] = resumer[t] /\ resumer[t] # None /\ resumer[t] \in Thread /\ resumer[t] # u
        BY <1>0, <1>6, <1>12, <2>6, <3>2 DEF TypeInv
      <4>2. /\ Active(t) /\ state[resumer[t]] = "resumed" /\ rank[t] = rank[resumer[t]] + 1
            /\ callstack[resumer[t]] # <<>> /\ Top(resumer[t]).kind = "resume" /\ Top(resumer[t]).to = t
        BY <1>0, <4>1 DEF ChainInv
      <4>3. callstack'[resumer[t]] = callstack[resumer[t]] /\ state'[resumer[t]] = "resumed"
        BY <1>6, <1>8, <4>1, <4>2
      <4>4. up[t] = up[resumer[t]] + 1
        BY <1>9, <3>2, <4>1, <4>2
      <4>5. Len(callstack'[resumer[t]]) = Depth(resumer[t])
            /\ callstack'[resumer[t]][Depth(resumer[t])] = Top(resumer[t])
        BY <4>3 DEF Top, Depth
      <4>6. QED
        BY <1>7, <4>1, <4>2, <4>3, <4>4, <4>5
    <3>3. QED
      BY <3>1, <3>2
  <2>7. \A t \in Thread : resumer'[t] # None =>
               /\ Active(t)'
               /\ state'[resumer'[t]] = "resumed"
               /\ up[t] = up[resumer'[t]] + 1
               /\ callstack'[resumer'[t]] # <<>>
               /\ callstack'[resumer'[t]][Len(callstack'[resumer'[t]])].kind = "resume"
               /\ callstack'[resumer'[t]][Len(callstack'[resumer'[t]])].to = t
    BY <2>6
  <2>8. ASSUME NEW x \in Thread, state'[x] = "resumed"
        PROVE  \E t \in Thread : resumer'[t] = x
    <3>1. CASE x = r
      BY <1>5, <1>6, <3>1
    <3>2. CASE x # r
      <4>1. state[x] = "resumed"
        BY <1>6, <2>8, <3>2
      <4>2. PICK t \in Thread : resumer[t] = x
        BY <1>0, <4>1 DEF ChainInv
      <4>3. t # u
        <5>1. resumer[t] # None
          BY <1>1, <2>8, <4>2
        <5>2. Active(t)
          BY <1>0, <5>1 DEF ChainInv
        <5>3. QED
          BY <1>5, <5>2
      <4>4. QED
        BY <1>6, <4>2, <4>3
    <3>3. QED
      BY <3>1, <3>2
  <2>9. \A t \in Thread \ {Main} : Active(t)' => resumer'[t] # None
    BY <1>0, <1>1, <1>6, <1>7 DEF ChainInv
  <2>10. \A t \in Thread : Active(t)' => up[t] <= up[curr']
    BY <1>6, <2>4
  <2>11. QED
    BY <2>1, <2>2, <2>3, <2>5, <2>7, <2>8, <2>9, <2>10 DEF ChainInv, Top, Depth
<1>16. CStackInv(up)'
  <2>1. ASSUME NEW i \in 1 .. n
        PROVE  /\ CatchInv(i) /\ cstack[i] \in Catches /\ ~Refused(cstack[i])
               /\ cstack[i].thr \in Thread /\ cstack[i].thr # u
               /\ callstack'[cstack[i].thr] = callstack[cstack[i].thr]
               /\ Active(cstack[i].thr)'
    <3>1. CatchInv(i) /\ cstack[i] \in Catches /\ ~Refused(cstack[i])
      BY <1>0, <1>1, <1>2, <2>1 DEF CStackInv
    <3>2. cstack[i].thr \in Thread /\ Active(cstack[i].thr)
      BY <3>1 DEF Catches, CatchInv
    <3>3. cstack[i].thr # u
      BY <1>5, <3>2
    <3>4. Active(cstack[i].thr)'
      BY <1>6, <1>7, <3>2
    <3>5. QED
      BY <1>8, <3>1, <3>2, <3>3, <3>4
  <2>2. ASSUME NEW i \in 1 .. n
        PROVE  CatchInv(i)'
    <3>1. cstack[i].depth < Depth(cstack[i].thr)
      <4>1. CASE cstack[i].thr = r
        <5>1. ~IsEntry(curr)
          BY <1>3, OnExecutorFacts
        <5>2. QED
          BY <2>2, <4>1, <5>1, OnExecutorFacts
      <4>2. CASE cstack[i].thr # r
        BY <2>1, <4>2 DEF CatchInv
      <4>3. QED
        BY <4>1, <4>2
    <3>2. Len(callstack'[cstack[i].thr]) = Depth(cstack[i].thr)
      BY <2>1 DEF Depth
    <3>3. QED
      BY <1>6, <2>1, <3>1, <3>2 DEF CatchInv, Depth
  <2>3. ASSUME NEW i \in 1 .. n
        PROVE  RefusedInv(i)' /\ LinkInv(i)'
    <3>1. LinkInv(i) /\ ~Refused(cstack[i])
      BY <1>0, <1>1, <1>2, <2>3 DEF CStackInv
    <3>2. i < n => ~Refused(cstack[i + 1])
      BY <1>1, <1>2
    <3>3. QED
      BY <1>6, <3>1, <3>2 DEF LinkInv, RefusedInv
  <2>4. ASSUME NEW i \in 1 .. n, NEW j \in 1 .. n
        PROVE  OrderInv(up, i, j)'
    <3>1. OrderInv(rank, i, j)
      BY <1>0, <1>2, <2>4 DEF CStackInv
    <3>2. up[cstack[i].thr] = rank[cstack[i].thr] /\ up[cstack[j].thr] = rank[cstack[j].thr]
      BY <1>9, <2>1
    <3>3. QED
      BY <1>6, <3>1, <3>2 DEF OrderInv
  <2>5. SafeTopInv'
    BY <1>11 DEF SafeTopInv
  <2>6. curr' # None /\ cstack' # <<>>
    BY <1>1, <1>5, <1>6 DEF OnExecutor
  <2>7. DOMAIN cstack' = 1 .. n
    BY <1>2, <1>6
  <2>8. QED
    BY <2>2, <2>3, <2>4, <2>5, <2>6, <2>7 DEF CStackInv
<1>17. EntryInv'
  <2>1. SUFFICES ASSUME NEW t \in Thread, NEW d \in DOMAIN callstack'[t], callstack'[t][d].entry
                 PROVE  \E i \in DOMAIN cstack' :
                          cstack'[i].kind = "executor" /\ cstack'[i].thr = t /\ cstack'[i].depth = d
    BY DEF EntryInv
  <2>2. t # u
    <3>1. ASSUME t = u
          PROVE  FALSE
      <4>1. d \in 1 .. Len(s) /\ s[d].entry
        BY <1>8, <2>1, <3>1, LenProperties
      <4>2. QED
        BY <4>1 DEF Resumed
    <3>2. QED
      BY <3>1
  <2>3. callstack'[t] = callstack[t]
    BY <1>8, <2>2
  <2>4. QED
    BY <1>0, <1>6, <1>11, <2>1, <2>3 DEF EntryInv
<1>18. CountInv'
  <2>1. SUFFICES ASSUME NEW t \in Thread
                 PROVE  preventcount'[t] = Preventing(callstack'[t]) + Cardinality(SafesOf(cstack, t))
    BY <1>6 DEF CountInv, SafesOf
  <2>2. /\ callstack'[t] \in Seq(Acts) /\ callstack[t] \in Seq(Acts)
        /\ preventcount'[t] \in Int /\ preventcount[t] \in Int
    BY <1>0, <1>8 DEF TypeInv
  <2>3. Preventing(callstack'[t]) \in Nat /\ Preventing(callstack[t]) \in Nat
    BY <2>2, PreventingCounts
  <2>4. Cardinality(SafesOf(cstack, t)) \in Nat
    BY <1>2, SafesCount
  <2>5. preventcount[t] = Preventing(callstack[t]) + Cardinality(SafesOf(cstack, t))
    BY <1>0 DEF CountInv
  <2>6. preventcount'[t] - Preventing(callstack'[t]) = preventcount[t] - Preventing(callstack[t])
    BY <1>8
  <2>7. QED
    BY <2>2, <2>3, <2>4, <2>5, <2>6
<1>19. PendingInv(up)'
  <2>1. SUFFICES ASSUME NEW t \in Thread, NEW d \in DOMAIN callstack'[t]
                 PROVE  PendingAt(up, t, d)'
    BY DEF PendingInv
  <2>2. CASE t = u
    <3>1. d \in 1 .. Len(s) /\ callstack'[t] = s
      BY <1>8, <2>1, <2>2, LenProperties
    <3>2. s[d].kind # "resume"
      BY <3>1 DEF Resumed
    <3>3. s[d].kind = "yield" => d >= 2 /\ \A e \in 1 .. d - 1 : ~Prevents(s[e])
      BY <3>1 DEF Resumed
    <3>4. QED
      BY <1>5, <2>2, <3>1, <3>2, <3>3 DEF PendingAt
  <2>3. CASE t # u
    <3>1. callstack'[t] = callstack[t] /\ d \in DOMAIN callstack[t] /\ callstack[t][d] \in Acts
      BY <1>0, <1>8, <2>1, <2>3, Types
    <3>2. PendingAt(rank, t, d) /\ ~Failed(t, d)
      BY <1>0, <1>11, <3>1 DEF PendingInv, Failed
    <3>3. ASSUME Active(t)', callstack[t][d].kind = "resume", Active(callstack[t][d].to)'
          PROVE  up[callstack[t][d].to] > up[t]
      <4>1. Active(t) /\ rank[t] <= rank[r] /\ up[t] = rank[t] /\ rank[t] \in Nat /\ rank[r] \in Nat
        BY <1>1, <1>7, <1>9, <1>10, <2>3, <3>3
      <4>2. callstack[t][d].to \in Thread
        BY <1>1, <3>1, <3>3 DEF Acts
      <4>3. CASE callstack[t][d].to = u
        BY <1>9, <4>1, <4>3
      <4>4. CASE callstack[t][d].to # u
        <5>1. Active(callstack[t][d].to)
          BY <1>7, <3>1, <3>3, <4>2, <4>4
        <5>2. rank[callstack[t][d].to] > rank[t]
          BY <3>2, <3>3, <4>1, <5>1 DEF PendingAt
        <5>3. QED
          BY <1>9, <4>1, <4>2, <4>4, <5>2
      <4>5. QED
        BY <4>3, <4>4
    <3>4. callstack[t][d].kind = "yield" => d >= 2 /\ t # Main /\ \A e \in 1 .. d - 1 : ~Prevents(callstack[t][e])
      BY <3>2 DEF PendingAt
    <3>5. QED
      BY <3>1, <3>3, <3>4 DEF PendingAt
  <2>4. QED
    BY <2>2, <2>3
<1>20. JumpInv'
  <2>1. cstack' # <<>>
    BY <1>6 DEF OnExecutor
  <2>2. QED
    BY <2>1, JumpsMade DEF JumpInv
<1>21. Inv(up)'
  BY <1>13, <1>14, <1>15, <1>16, <1>17, <1>18, <1>19, <1>20 DEF Inv
<1>22. QED
  BY <1>9, <1>21 DEF IInv

\* The current thread answers the one that resumed it, by a yield or because it ends.
LEMMA BackStep ==
  ASSUME NEW rank \in Ranks, Inv(rank), OnExecutor, curr # Main,
         \A i \in 1 .. Len(cstack) : cstack[i].thr # curr,
         NEW r, r = resumer[curr], NEW st, BackTo(r, curr, st),
         UNCHANGED <<cstack, native, finalizer>>,
         callstack' \in [Thread -> Seq(Acts)],
         \A t \in Thread : t # curr /\ t # r => callstack'[t] = callstack[t],
         preventcount' \in [Thread -> Int],
         \A t \in Thread : preventcount'[t] - Preventing(callstack'[t])
                           = preventcount[t] - Preventing(callstack[t]),
         \/ /\ st = "yielded" /\ callstack'[curr] = callstack[curr]
            /\ callstack[curr] # <<>> /\ Top(curr).kind = "yield" /\ ~Falling
         \/ st = "terminated" /\ callstack'[curr] = <<>>,
         Len(callstack'[r]) \in {Depth(r) - 1, Depth(r)},
         \A d \in 1 .. Len(callstack'[r]) : callstack'[r][d] = callstack[r][d],
         lj' \in Jumps, lj' = NoJump \/ lj'.type = "throw"
  PROVE  Inv(rank)'
<1> SUFFICES ASSUME NEW n, n = Len(cstack), NEW u, u = curr,
                    NEW p, p = callstack'[curr], NEW q, q = callstack'[r]
             PROVE  Inv(rank)'
  OBVIOUS
<1>0. /\ TypeInv /\ RestInv /\ EntryInv /\ CountInv /\ JumpInv
      /\ ChainInv(rank) /\ CStackInv(rank) /\ PendingInv(rank)
  BY DEF Inv
<1>1. /\ u \in Thread /\ state[u] = "running" /\ None \notin Thread /\ Main \in Thread /\ Active(u)
      /\ \A i \in 1 .. n : ~Refused(cstack[i])
  BY OnExecutorFacts, NoneIsNoThread DEF Active
<1>2. /\ n \in Nat /\ n > 0 /\ DOMAIN cstack = 1 .. n /\ cstack \in Seq(Catches)
      /\ \A i \in 1 .. n : cstack[i] \in Catches
  BY <1>0, Types DEF OnExecutor, TypeInv
<1>3. /\ r \in Thread /\ state[r] = "resumed" /\ rank[u] = rank[r] + 1
      /\ callstack[r] # <<>> /\ Top(r).kind = "resume" /\ Top(r).to = u /\ r # u /\ Active(r)
  <2>1. r # None
    BY <1>0, <1>1 DEF ChainInv
  <2>2. r \in Thread
    BY <1>0, <1>1, <2>1 DEF TypeInv
  <2>3. state[r] = "resumed" /\ rank[u] = rank[r] + 1
        /\ callstack[r] # <<>> /\ Top(r).kind = "resume" /\ Top(r).to = u
    BY <1>0, <1>1, <2>1 DEF ChainInv
  <2>4. QED
    BY <1>1, <2>2, <2>3 DEF Active
<1>4. /\ Depth(r) \in Nat /\ Depth(r) >= 2 /\ DOMAIN callstack[r] = 1 .. Depth(r)
      /\ callstack[r][Depth(r)] = Top(r) /\ callstack[r][1].kind = "ecma" /\ ~Top(r).entry
  <2>1. /\ Depth(r) \in Nat /\ Depth(r) > 0 /\ DOMAIN callstack[r] = 1 .. Depth(r)
        /\ callstack[r][Depth(r)] = Top(r)
    BY <1>0, <1>3, Types DEF Top
  <2>2. callstack[r][1].kind = "ecma"
    BY <1>0, <1>3 DEF RestInv
  <2>3. Depth(r) # 1
    BY <1>3, <2>1, <2>2
  <2>4. Top(r) \in Acts
    BY <1>0, <1>3, <2>1, Types
  <2>5. ~Top(r).entry
    BY <1>3, <2>4 DEF Acts
  <2>6. QED
    BY <2>1, <2>2, <2>3, <2>5
<1>5. /\ Len(q) \in Nat /\ Len(q) >= 1 /\ Depth(r) - 1 <= Len(q) /\ Len(q) <= Depth(r)
      /\ DOMAIN q = 1 .. Len(q) /\ q # <<>> /\ q \in Seq(Acts) /\ p \in Seq(Acts)
      /\ \A d \in 1 .. Len(q) : q[d] = callstack[r][d]
      /\ \/ st = "yielded" /\ p = callstack[curr] /\ p # <<>> /\ Top(curr).kind = "yield" /\ ~Falling
         \/ st = "terminated" /\ p = <<>>
  <2>1. q \in Seq(Acts) /\ p \in Seq(Acts)
    BY <1>1, <1>3
  <2>2. QED
    BY <1>4, <2>1, LenProperties, EmptySeq
<1>6. /\ curr' = r
      /\ state' \in [Thread -> State] /\ state'[u] = st /\ state'[r] = "running"
      /\ \A t \in Thread : t # u /\ t # r => state'[t] = state[t]
      /\ resumer' \in [Thread -> Thread \cup {None}] /\ resumer'[u] = None
      /\ \A t \in Thread : t # u => resumer'[t] = resumer[t]
      /\ cstack' = cstack /\ native' = native /\ finalizer' = finalizer
  BY <1>0, <1>1, <1>3 DEF BackTo, TypeInv, State
<1>7. \A t \in Thread : Active(t)' <=> Active(t) /\ t # u
  BY <1>1, <1>3, <1>6 DEF Active
<1>8. /\ callstack' \in [Thread -> Seq(Acts)] /\ callstack'[u] = p /\ callstack'[r] = q
      /\ \A t \in Thread : t # u /\ t # r => callstack'[t] = callstack[t]
  BY <1>0, <1>1, <1>3 DEF TypeInv
<1>9. \A t \in Thread : rank[t] \in Nat
  BY DEF Ranks
<1>10. ASSUME NEW t \in Thread, Active(t), t # u
       PROVE  rank[t] <= rank[r]
  <2>1. rank[t] <= rank[u] /\ rank[t] # rank[u]
    BY <1>0, <1>1, <1>10 DEF ChainInv
  <2>2. rank[t] \in Nat /\ rank[r] \in Nat
    BY <1>3, <1>9
  <2>3. rank[t] <= rank[r] + 1 /\ rank[t] # rank[r] + 1
    BY <1>3, <2>1
  <2>4. \A a, b \in Nat : a <= b + 1 /\ a # b + 1 => a <= b
    OBVIOUS
  <2>5. QED
    BY <2>2, <2>3, <2>4
<1>11. Innermost' = Innermost /\ OnExecutor' /\ Innermost.kind = "executor"
  BY <1>6 DEF Innermost, OnExecutor
<1>12. ASSUME NEW t \in Thread, resumer[t] # None, t # u
       PROVE  resumer[t] \in Thread /\ resumer[t] # u /\ resumer[t] # r
  <2>1. Active(t) /\ state[resumer[t]] = "resumed" /\ rank[t] = rank[resumer[t]] + 1
    BY <1>0, <1>12 DEF ChainInv
  <2>2. resumer[t] # u
    BY <1>1, <2>1
  <2>3. resumer[t] # r
    <3>1. ASSUME resumer[t] = r
          PROVE  FALSE
      <4>1. rank[t] = rank[u]
        BY <1>3, <2>1, <3>1
      <4>2. QED
        BY <1>0, <1>1, <1>12, <2>1, <4>1 DEF ChainInv
    <3>2. QED
      BY <3>1
  <2>4. QED
    BY <1>0, <1>12, <2>2, <2>3 DEF TypeInv
<1>13. TypeInv'
  <2>1. lj' \in Jumps
    BY JumpsMade
  <2>2. QED
    BY <1>0, <1>1, <1>3, <1>6, <1>8, <2>1 DEF TypeInv
<1>14. RestInv'
  <2>1. ASSUME NEW t \in Thread, t # u, t # r
        PROVE  callstack'[t] = callstack[t] /\ Top(t)' = Top(t)
    BY <1>8, <2>1 DEF Top, Depth
  <2>2. \A t \in Thread : ~Active(t)' /\ state'[t] # "yielded" => callstack'[t] = <<>>
    <3>1. TAKE t \in Thread
    <3>2. CASE t = u
      BY <1>6, <1>8, <3>2
    <3>3. CASE t = r
      BY <1>3, <1>7, <3>3
    <3>4. CASE t # u /\ t # r
      BY <1>0, <1>6, <1>7, <2>1, <3>4 DEF RestInv
    <3>5. QED
      BY <3>2, <3>3, <3>4
  <2>3. \A t \in Thread : state'[t] = "yielded" => callstack'[t] # <<>> /\ Top(t)'.kind = "yield"
    <3>1. TAKE t \in Thread
    <3>2. CASE t = u
      <4>1. SUFFICES ASSUME st = "yielded"
                     PROVE  callstack'[t] # <<>> /\ Top(t)'.kind = "yield"
        BY <1>6, <3>2
      <4>2. p = callstack[u] /\ p # <<>> /\ Top(u).kind = "yield"
        BY <4>1
      <4>3. callstack'[t] = callstack[t]
        BY <1>8, <3>2, <4>2
      <4>4. QED
        BY <3>2, <4>2, <4>3 DEF Top, Depth
    <3>3. CASE t = r
      BY <1>6, <3>3
    <3>4. CASE t # u /\ t # r
      BY <1>0, <1>6, <2>1, <3>4 DEF RestInv
    <3>5. QED
      BY <3>2, <3>3, <3>4
  <2>4. \A t \in Thread : callstack'[t] # <<>> => callstack'[t][1].kind = "ecma"
    <3>1. TAKE t \in Thread
    <3>2. CASE t = u
      BY <1>0, <1>1, <1>8, <3>2 DEF RestInv
    <3>3. CASE t = r
      <4>1. 1 \in 1 .. Len(q)
        BY <1>5
      <4>2. QED
        BY <1>4, <1>8, <3>3, <4>1
    <3>4. CASE t # u /\ t # r
      BY <1>0, <2>1, <3>4 DEF RestInv
    <3>5. QED
      BY <3>2, <3>3, <3>4
  <2>5. callstack'[curr'] # <<>>
    BY <1>5, <1>6, <1>8
  <2>6. state'[Main] \in {"inactive", "running", "resumed"}
    BY <1>0, <1>1, <1>6 DEF RestInv
  <2>7. QED
    BY <2>2, <2>3, <2>4, <2>5, <2>6 DEF RestInv
<1>15. ChainInv(rank)'
  <2>1. rank[Main] = 0 /\ curr' # None /\ Active(Main)'
    BY <1>0, <1>1, <1>3, <1>6, <1>7 DEF ChainInv
  <2>2. \A t \in Thread : state'[t] = "running" <=> t = curr'
    <3>1. TAKE t \in Thread
    <3>2. CASE t = u \/ t = r
      BY <1>3, <1>6, <3>2
    <3>3. CASE t # u /\ t # r
      <4>1. state[t] # "running"
        BY <1>0, <3>3 DEF ChainInv
      <4>2. QED
        BY <1>6, <3>3, <4>1
    <3>4. QED
      BY <3>2, <3>3
  <2>3. \A t \in Thread : Active(t)' => rank[t] <= rank[curr']
    BY <1>6, <1>7, <1>10
  <2>4. \A x, y \in Thread : Active(x)' /\ Active(y)' /\ rank[x] = rank[y] => x = y
    BY <1>0, <1>7 DEF ChainInv
  <2>5. ASSUME NEW t \in Thread, resumer'[t] # None
        PROVE  /\ Active(t)'
               /\ state'[resumer'[t]] = "resumed"
               /\ rank[t] = rank[resumer'[t]] + 1
               /\ callstack'[resumer'[t]] # <<>>
               /\ callstack'[resumer'[t]][Len(callstack'[resumer'[t]])].kind = "resume"
               /\ callstack'[resumer'[t]][Len(callstack'[resumer'[t]])].to = t
    <3>1. t # u /\ resumer'[t] = resumer[t] /\ resumer[t] # None
      BY <1>6, <2>5
    <3>2. resumer[t] \in Thread /\ resumer[t] # u /\ resumer[t] # r
      BY <1>12, <3>1
    <3>3. /\ Active(t) /\ state[resumer[t]] = "resumed" /\ rank[t] = rank[resumer[t]] + 1
          /\ callstack[resumer[t]] # <<>> /\ Top(resumer[t]).kind = "resume" /\ Top(resumer[t]).to = t
      BY <1>0, <3>1 DEF ChainInv
    <3>4. callstack'[resumer[t]] = callstack[resumer[t]] /\ state'[resumer[t]] = "resumed"
      BY <1>6, <1>8, <3>2, <3>3
    <3>5. callstack'[resumer[t]][Len(callstack'[resumer[t]])] = Top(resumer[t])
      BY <3>4 DEF Top, Depth
    <3>6. QED
      BY <1>7, <3>1, <3>3, <3>4, <3>5
  <2>6. ASSUME NEW x \in Thread, state'[x] = "resumed"
        PROVE  \E t \in Thread : resumer'[t] = x
    <3>1. x # u /\ x # r /\ state[x] = "resumed"
      BY <1>6, <2>6
    <3>2. PICK t \in Thread : resumer[t] = x
      BY <1>0, <3>1 DEF ChainInv
    <3>3. t # u
      BY <3>1, <3>2
    <3>4. QED
      BY <1>6, <3>2, <3>3
  <2>7. \A t \in Thread \ {Main} : Active(t)' => resumer'[t] # None
    BY <1>0, <1>6, <1>7 DEF ChainInv
  <2>8. QED
    BY <2>1, <2>2, <2>3, <2>4, <2>5, <2>6, <2>7 DEF ChainInv, Top, Depth
<1>16. CStackInv(rank)'
  <2>1. ASSUME NEW i \in 1 .. n
        PROVE  CatchInv(i)'
    <3>1. CatchInv(i) /\ cstack[i] \in Catches /\ ~Refused(cstack[i]) /\ cstack[i].thr # u
      BY <1>0, <1>1, <1>2, <2>1 DEF CStackInv
    <3>2. cstack[i].thr \in Thread /\ cstack[i].depth \in Nat
      BY <3>1 DEF Catches
    <3>3. cstack[i].depth < Depth(cstack[i].thr) /\ Active(cstack[i].thr)'
      BY <1>6, <1>7, <3>1, <3>2 DEF CatchInv
    <3>4. CASE cstack[i].thr = r
      <4>1. cstack[i].depth <= Len(q)
        BY <1>4, <1>5, <3>2, <3>3, <3>4
      <4>2. cstack[i].kind = "executor" => cstack[i].depth \in 1 .. Len(q) /\ callstack[r][cstack[i].depth].entry
        BY <1>5, <3>1, <3>2, <3>4, <4>1 DEF CatchInv
      <4>3. cstack[i].kind = "executor" => q[cstack[i].depth].entry
        BY <4>2
      <4>4. QED
        BY <1>6, <1>8, <3>1, <3>3, <3>4, <4>1, <4>3 DEF CatchInv, Depth
    <3>5. CASE cstack[i].thr # r
      <4>1. callstack'[cstack[i].thr] = callstack[cstack[i].thr]
        BY <1>8, <3>1, <3>2, <3>5
      <4>2. QED
        BY <1>6, <3>1, <3>3, <4>1 DEF CatchInv, Depth
    <3>6. QED
      BY <3>4, <3>5
  <2>2. ASSUME NEW i \in 1 .. n
        PROVE  RefusedInv(i)' /\ LinkInv(i)'
    <3>1. LinkInv(i) /\ ~Refused(cstack[i])
      BY <1>0, <1>1, <1>2, <2>2 DEF CStackInv
    <3>2. i < n => ~Refused(cstack[i + 1])
      <4>1. i < n => i + 1 \in 1 .. n
        BY <1>2
      <4>2. QED
        BY <1>1, <4>1
    <3>3. ~Refused(cstack[i])' /\ (i < n => ~Refused(cstack[i + 1])')
      BY <1>6, <3>1, <3>2
    <3>4. RefusedInv(i)'
      BY <3>3 DEF RefusedInv
    <3>5. LinkInv(i)'
      BY <1>6, <3>1, <3>2, <3>3 DEF LinkInv
    <3>6. QED
      BY <3>4, <3>5
  <2>3. ASSUME NEW i \in 1 .. n, NEW j \in 1 .. n
        PROVE  OrderInv(rank, i, j)'
    <3>1. OrderInv(rank, i, j)
      BY <1>0, <1>2, <2>3 DEF CStackInv
    <3>2. QED
      BY <1>6, <3>1 DEF OrderInv
  <2>4. SafeTopInv'
    BY <1>11 DEF SafeTopInv
  <2>5. curr' # None /\ cstack' # <<>>
    BY <1>1, <1>3, <1>6 DEF OnExecutor
  <2>6. DOMAIN cstack' = 1 .. n
    BY <1>2, <1>6
  <2>7. QED
    BY <2>1, <2>2, <2>3, <2>4, <2>5, <2>6 DEF CStackInv
<1>17. ASSUME NEW t \in Thread, NEW d \in DOMAIN callstack'[t]
       PROVE  /\ d \in DOMAIN callstack[t] /\ callstack'[t][d] = callstack[t][d]
              /\ \A e \in 1 .. d - 1 : callstack'[t][e] = callstack[t][e]
              /\ t = u => p = callstack[u] /\ ~Falling
  <2>1. CASE t = u
    <3>1. p # <<>>
      <4>1. ASSUME p = <<>>
            PROVE  FALSE
        <5>1. DOMAIN callstack'[t] = 1 .. 0
          BY <1>8, <2>1, <4>1
        <5>2. d \in DOMAIN callstack'[t]
          BY <1>17
        <5>3. d \in 1 .. 0
          BY <5>1, <5>2
        <5>4. QED
          BY <5>3
      <4>2. QED
        BY <4>1
    <3>2. p = callstack[u] /\ ~Falling
      BY <3>1
    <3>3. QED
      BY <1>8, <1>17, <2>1, <3>2
  <2>2. CASE t = r
    <3>1. d \in 1 .. Len(q) /\ callstack'[t] = q
      BY <1>5, <1>8, <1>17, <2>2
    <3>2. d \in 1 .. Depth(r) /\ \A e \in 1 .. d - 1 : e \in 1 .. Len(q)
      BY <1>4, <1>5, <3>1
    <3>3. QED
      BY <1>3, <1>4, <1>5, <2>2, <3>1, <3>2
  <2>3. CASE t # u /\ t # r
    BY <1>8, <1>17, <2>3
  <2>4. QED
    BY <2>1, <2>2, <2>3
<1>18. EntryInv'
  <2>1. SUFFICES ASSUME NEW t \in Thread, NEW d \in DOMAIN callstack'[t], callstack'[t][d].entry
                 PROVE  \E i \in DOMAIN cstack' :
                          cstack'[i].kind = "executor" /\ cstack'[i].thr = t /\ cstack'[i].depth = d
    BY DEF EntryInv
  <2>2. d \in DOMAIN callstack[t] /\ callstack[t][d].entry /\ (t = u => ~Falling)
    BY <1>17, <2>1
  <2>3. \E i \in DOMAIN cstack :
          cstack[i].kind = "executor" /\ cstack[i].thr = t /\ cstack[i].depth = d
    BY <1>0, <2>2 DEF EntryInv
  <2>4. QED
    BY <1>6, <2>3
<1>19. CountInv'
  <2>1. SUFFICES ASSUME NEW t \in Thread
                 PROVE  preventcount'[t] = Preventing(callstack'[t]) + Cardinality(SafesOf(cstack, t))
    <3>1. SUFFICES ASSUME NEW t \in Thread
                   PROVE  preventcount'[t] = Preventing(callstack'[t]) + Cardinality(SafesOf(cstack', t))
      BY DEF CountInv
    <3>2. QED
      BY <1>6, <3>1
  <2>2. /\ callstack'[t] \in Seq(Acts) /\ callstack[t] \in Seq(Acts)
        /\ preventcount'[t] \in Int /\ preventcount[t] \in Int
    BY <1>0, <1>8 DEF TypeInv
  <2>3. Preventing(callstack'[t]) \in Nat /\ Preventing(callstack[t]) \in Nat
    BY <2>2, PreventingCounts
  <2>4. Cardinality(SafesOf(cstack, t)) \in Nat
    BY <1>2, SafesCount
  <2>5. preventcount[t] = Preventing(callstack[t]) + Cardinality(SafesOf(cstack, t))
    BY <1>0 DEF CountInv
  <2>6. preventcount'[t] - Preventing(callstack'[t]) = preventcount[t] - Preventing(callstack[t])
    OBVIOUS
  <2>7. QED
    BY <2>2, <2>3, <2>4, <2>5, <2>6
<1>20. PendingInv(rank)'
  <2>1. SUFFICES ASSUME NEW t \in Thread, NEW d \in DOMAIN callstack'[t]
                 PROVE  PendingAt(rank, t, d)'
    BY DEF PendingInv
  <2>2. /\ d \in DOMAIN callstack[t] /\ callstack'[t][d] = callstack[t][d]
        /\ \A e \in 1 .. d - 1 : callstack'[t][e] = callstack[t][e]
        /\ t = u => ~Falling
    BY <1>17, <2>1
  <2>3. PendingAt(rank, t, d) /\ ~Failed(t, d) /\ callstack[t][d] \in Acts
    BY <1>0, <2>2, Types DEF PendingInv, Failed
  <2>4. Active(t)' => Active(t)
    BY <1>7
  <2>5. \A x \in Thread : Active(x)' => Active(x)
    BY <1>7
  <2>6. callstack[t][d].kind = "resume" => callstack[t][d].to \in Thread
    BY <1>1, <2>3 DEF Acts
  <2>7. ASSUME callstack'[t][d].kind = "resume", Active(t)', Active(callstack[t][d].to)'
        PROVE  rank[callstack'[t][d].to] > rank[t]
    <3>1. Active(callstack[t][d].to)
      BY <2>2, <2>5, <2>6, <2>7
    <3>2. QED
      BY <2>2, <2>3, <2>4, <2>7, <3>1 DEF PendingAt
  <2>8. callstack'[t][d].kind = "yield" =>
          d >= 2 /\ t # Main /\ \A e \in 1 .. d - 1 : ~Prevents(callstack'[t][e])
    BY <2>2, <2>3 DEF PendingAt
  <2>9. QED
    BY <2>7, <2>8 DEF PendingAt
<1>21. JumpInv'
  <2>1. cstack' # <<>>
    BY <1>6 DEF OnExecutor
  <2>2. QED
    BY <2>1, JumpsMade DEF JumpInv
<1>22. QED
  BY <1>13, <1>14, <1>15, <1>16, <1>18, <1>19, <1>20, <1>21 DEF Inv

-----------------------------------------------------------------------------
(* Steps that leave the stacks alone *)

\* A new thread has nothing on its stack.
LEMMA NewStep ==
  ASSUME NEW rank \in Ranks, Inv(rank), NEW u \in Thread, NEW b \in BOOLEAN, New(u, b)
  PROVE  Inv(rank)'
<1> SUFFICES ASSUME NEW n, n = Len(cstack)
             PROVE  Inv(rank)'
  OBVIOUS
<1>0. /\ TypeInv /\ RestInv /\ EntryInv /\ CountInv /\ JumpInv
      /\ ChainInv(rank) /\ CStackInv(rank) /\ PendingInv(rank)
  BY DEF Inv
<1>1. Quiet /\ state[u] = "none"
  BY DEF New, InEcma, InCode
<1>2. /\ state' \in [Thread -> State] /\ state'[u] = "inactive"
      /\ \A t \in Thread : t # u => state'[t] = state[t]
      /\ native' \subseteq Thread
      /\ resumer' = resumer /\ curr' = curr /\ callstack' = callstack
      /\ preventcount' = preventcount /\ cstack' = cstack /\ lj' = lj /\ finalizer' = finalizer
  BY <1>0 DEF New, TypeInv, State, stacks
<1>3. /\ \A i \in 1 .. n : ~Refused(cstack[i])
      /\ curr \in Thread /\ curr # u /\ ~Falling
  BY <1>1, QuietFacts
<1>4. DOMAIN cstack = 1 .. n /\ \A i \in 1 .. n : cstack[i] \in Catches
  BY <1>0, Types
<1>5. ~Active(u) /\ u # Main /\ callstack[u] = <<>>
  <2>1. ~Active(u) /\ state[u] # "yielded"
    BY <1>1 DEF Active
  <2>2. u # Main
    BY <1>0, <1>1 DEF RestInv
  <2>3. QED
    BY <1>0, <2>1, <2>2 DEF RestInv
<1>6. \A t \in Thread : Active(t)' <=> Active(t)
  BY <1>2, <1>5 DEF Active
<1>7. \A t \in Thread : (state'[t] = "yielded" <=> state[t] = "yielded")
                        /\ (state'[t] = "running" <=> state[t] = "running")
                        /\ (state'[t] = "resumed" <=> state[t] = "resumed")
  BY <1>1, <1>2
<1>8. TypeInv'
  BY <1>0, <1>2 DEF TypeInv
<1>9. RestInv'
  <2>1. \A t \in Thread : Top(t)' = Top(t)
    BY <1>2 DEF Top, Depth
  <2>2. state'[Main] = state[Main]
    BY <1>2, <1>5, NoneIsNoThread
  <2>3. (OnExecutor' <=> OnExecutor) /\ (Falling' <=> Falling)
    BY <1>2 DEF OnExecutor, Innermost, Falling
  <2>4. QED
    BY <1>0, <1>2, <1>6, <1>7, <2>1, <2>2, <2>3 DEF RestInv
<1>10. ChainInv(rank)'
  <2>1. \A t \in Thread : Top(t)' = Top(t)
    BY <1>2 DEF Top, Depth
  <2>2. \A t \in Thread : resumer[t] # None => resumer[t] \in Thread
    BY <1>0 DEF TypeInv
  <2>3. Main \in Thread
    BY NoneIsNoThread
  <2>4. QED
    BY <1>0, <1>2, <1>6, <1>7, <2>1, <2>2, <2>3 DEF ChainInv
<1>11. CStackInv(rank)'
  <2>1. ASSUME NEW i \in 1 .. n
        PROVE  RefusedInv(i)' /\ CatchInv(i)' /\ LinkInv(i)'
    <3>1. LinkInv(i) /\ CatchInv(i) /\ ~Refused(cstack[i]) /\ cstack[i].thr \in Thread
      BY <1>0, <1>3, <1>4, <2>1 DEF CStackInv, Catches
    <3>2. CatchInv(i)'
      BY <1>2, <1>6, <3>1 DEF CatchInv, Depth
    <3>3. RefusedInv(i)'
      BY <1>2, <3>1 DEF RefusedInv
    <3>4. LinkInv(i)'
      BY <1>2, <3>1 DEF LinkInv, Depth
    <3>5. QED
      BY <3>2, <3>3, <3>4
  <2>2. ASSUME NEW i \in 1 .. n, NEW j \in 1 .. n
        PROVE  OrderInv(rank, i, j)'
    <3>1. OrderInv(rank, i, j)
      BY <1>0, <1>4, <2>2 DEF CStackInv
    <3>2. QED
      BY <1>2, <3>1 DEF OrderInv
  <2>3. SafeTopInv'
    BY <1>0, <1>2 DEF CStackInv, SafeTopInv, Innermost, Depth, Top, Falling
  <2>4. (curr' = None <=> cstack' = <<>>) /\ DOMAIN cstack' = 1 .. n
    BY <1>0, <1>2, <1>4 DEF CStackInv
  <2>5. QED
    BY <2>1, <2>2, <2>3, <2>4 DEF CStackInv
<1>12. EntryInv'
  BY <1>0, <1>2 DEF EntryInv, Falling, Depth, Innermost
<1>13. CountInv'
  BY <1>0, <1>2 DEF CountInv
<1>14. PendingInv(rank)'
  <2>1. SUFFICES ASSUME NEW t \in Thread, NEW d \in DOMAIN callstack'[t]
                 PROVE  PendingAt(rank, t, d)'
    BY DEF PendingInv
  <2>2. PendingAt(rank, t, d) /\ ~Failed(t, d) /\ callstack[t][d] \in Acts
    BY <1>0, <1>2, <1>3, <2>1, Types DEF PendingInv, Failed
  <2>3. callstack[t][d].kind = "resume" => callstack[t][d].to \in Thread
    BY <2>2 DEF Acts
  <2>4. QED
    BY <1>2, <1>6, <2>2, <2>3 DEF PendingAt
<1>15. JumpInv'
  BY <1>0, <1>2 DEF JumpInv, OnExecutor, Innermost, Top, Depth
<1>16. QED
  BY <1>8, <1>9, <1>10, <1>11, <1>12, <1>13, <1>14, <1>15 DEF Inv

\* The C function of a protected call throws.
LEMMA RaiseProtectedStep ==
  ASSUME NEW rank \in Ranks, Inv(rank), InProtected, lj' = Throw,
         UNCHANGED <<state, resumer, curr, callstack, preventcount, cstack, native, finalizer>>
  PROVE  Inv(rank)'
<1> SUFFICES ASSUME NEW n, n = Len(cstack)
             PROVE  Inv(rank)'
  OBVIOUS
<1>0. /\ TypeInv /\ RestInv /\ EntryInv /\ CountInv /\ JumpInv
      /\ ChainInv(rank) /\ CStackInv(rank) /\ PendingInv(rank)
  BY DEF Inv
<1>1. Quiet /\ Innermost.kind = "safe" /\ cstack # <<>>
  BY DEF InProtected, Quiet
<1>2. /\ \A i \in 1 .. n : ~Refused(cstack[i])
      /\ curr \in Thread /\ ~Falling
  BY <1>1, QuietFacts
<1>3. /\ DOMAIN cstack = 1 .. n
  BY <1>0, Types
<1>4. /\ \A t : Active(t)' <=> Active(t)
      /\ ~OnExecutor' /\ ~OnExecutor /\ Falling' /\ Innermost' = Innermost
  BY <1>1, JumpsMade DEF Active, OnExecutor, Innermost, Falling
<1>5. TypeInv'
  BY <1>0, JumpsMade DEF TypeInv
<1>6. RestInv'
  BY <1>0, <1>4 DEF RestInv, Top, Depth
<1>7. ChainInv(rank)'
  BY <1>0, <1>4 DEF ChainInv, Top, Depth
<1>8. CStackInv(rank)'
  <2>1. ASSUME NEW i \in 1 .. n
        PROVE  RefusedInv(i)' /\ CatchInv(i)' /\ LinkInv(i)'
    <3>1. LinkInv(i) /\ CatchInv(i) /\ ~Refused(cstack[i])
      BY <1>0, <1>2, <1>3, <2>1 DEF CStackInv
    <3>2. CatchInv(i)'
      BY <1>4, <3>1 DEF CatchInv, Depth
    <3>3. RefusedInv(i)'
      BY <3>1 DEF RefusedInv
    <3>4. LinkInv(i)'
      BY <3>1 DEF LinkInv, Depth
    <3>5. QED
      BY <3>2, <3>3, <3>4
  <2>2. ASSUME NEW i \in 1 .. n, NEW j \in 1 .. n
        PROVE  OrderInv(rank, i, j)'
    <3>1. OrderInv(rank, i, j)
      BY <1>0, <1>3, <2>2 DEF CStackInv
    <3>2. QED
      BY <3>1 DEF OrderInv
  <2>3. SafeTopInv'
    <3>1. Innermost.thr = curr /\ Depth(curr) = Innermost.depth
      BY <1>1, QuietFacts
    <3>2. QED
      BY <1>4, <3>1 DEF SafeTopInv, Depth
  <2>4. (curr' = None <=> cstack' = <<>>) /\ DOMAIN cstack' = 1 .. n
    BY <1>0, <1>3 DEF CStackInv
  <2>5. QED
    BY <2>1, <2>2, <2>3, <2>4 DEF CStackInv
<1>9. EntryInv'
  BY <1>0, <1>2 DEF EntryInv
<1>10. CountInv'
  BY <1>0 DEF CountInv
<1>11. PendingInv(rank)'
  <2>1. SUFFICES ASSUME NEW t \in Thread, NEW d \in DOMAIN callstack'[t]
                 PROVE  PendingAt(rank, t, d)'
    BY DEF PendingInv
  <2>2. PendingAt(rank, t, d) /\ ~Failed(t, d)
    BY <1>0, <1>2, <2>1 DEF PendingInv, Failed
  <2>3. QED
    BY <1>4, <2>2 DEF PendingAt
<1>12. JumpInv'
  BY <1>1, JumpsMade DEF JumpInv
<1>13. QED
  BY <1>5, <1>6, <1>7, <1>8, <1>9, <1>10, <1>11, <1>12 DEF Inv

-----------------------------------------------------------------------------
(* Cutting a stack *)

\* Every way to unwind a stack is to leave a lower part of it.
LEMMA UnwindForm ==
  ASSUME TypeInv, NEW t \in Thread, NEW depth \in 0 .. Depth(t), UnwindTo(t, depth)
  PROVE  \E s \in Seq(Acts) :
           /\ Len(s) = depth
           /\ \A d \in 1 .. depth : s[d] = callstack[t][d]
           /\ callstack' = [callstack EXCEPT ![t] = s]
           /\ preventcount' =
                [preventcount EXCEPT ![t] = @ + Preventing(s) - Preventing(callstack[t])]
<1> DEFINE cs == callstack[t]
           s == SubSeq(cs, 1, depth)
<1>1. cs \in Seq(Acts)
  BY Types
<1>2. /\ s \in Seq(Acts) /\ Len(s) = depth /\ \A d \in 1 .. depth : s[d] = cs[d]
      /\ Preventing(SubSeq(cs, depth + 1, Len(cs))) = Preventing(cs) - Preventing(s)
  BY <1>1, PreventingCut DEF Depth
<1>3. Preventing(cs) \in Nat /\ Preventing(s) \in Nat
  BY <1>1, <1>2, PreventingCounts
<1>4. preventcount[t] \in Int
  BY DEF TypeInv
<1>5. callstack' = [callstack EXCEPT ![t] = s]
  BY DEF UnwindTo
<1>6. preventcount' = [preventcount EXCEPT ![t] = @ - (Preventing(cs) - Preventing(s))]
  BY <1>2 DEF UnwindTo, Depth
<1> HIDE DEF s, cs
<1>7. preventcount' = [preventcount EXCEPT ![t] = @ + Preventing(s) - Preventing(cs)]
  <2>1. preventcount[t] - (Preventing(cs) - Preventing(s)) = preventcount[t] + Preventing(s) - Preventing(cs)
    BY <1>3, <1>4
  <2>2. QED
    BY <1>6, <2>1
<1>8. QED
  BY <1>2, <1>5, <1>7 DEF cs

\* The activation on top of a stack goes.
LEMMA PreventingPop ==
  ASSUME NEW s \in Seq(Acts), s # <<>>
  PROVE  /\ SubSeq(s, 1, Len(s) - 1) \in Seq(Acts)
         /\ Len(SubSeq(s, 1, Len(s) - 1)) = Len(s) - 1
         /\ \A d \in 1 .. Len(s) - 1 : SubSeq(s, 1, Len(s) - 1)[d] = s[d]
         /\ Preventing(s) =
              Preventing(SubSeq(s, 1, Len(s) - 1)) + (IF Prevents(s[Len(s)]) THEN 1 ELSE 0)
<1> DEFINE q == SubSeq(s, 1, Len(s) - 1)
           a == s[Len(s)]
           r == Append(q, a)
<1>1. Len(s) \in Nat /\ Len(s) > 0
  BY LenProperties, EmptySeq
<1>2. Len(s) - 1 \in 0 .. Len(s) /\ Len(s) \in 1 .. Len(s)
  BY <1>1
<1>3. a \in Acts
  BY <1>2, LenProperties
<1>4. q \in Seq(Acts) /\ Len(q) = Len(s) - 1 /\ \A d \in 1 .. Len(s) - 1 : q[d] = s[d]
  BY <1>2, PreventingCut
<1> HIDE DEF q, a
<1>5. r \in Seq(Acts) /\ Len(r) = Len(s) /\ r[Len(s)] = a /\ \A d \in 1 .. Len(s) - 1 : r[d] = q[d]
  BY <1>1, <1>3, <1>4, AppendProperties
<1>6. \A d \in 1 .. Len(s) : r[d] = s[d]
  BY <1>1, <1>4, <1>5 DEF a
<1>7. Preventing(r) = Preventing(q) + (IF Prevents(a) THEN 1 ELSE 0)
  BY <1>3, <1>4, PreventingPush
<1> HIDE DEF r
<1>8. Preventing(r) = Preventing(s)
  BY <1>5, <1>6, PreventingSame
<1>9. QED
  BY <1>4, <1>7, <1>8 DEF q, a

\* While an activation has control.
LEMMA InCodeFacts ==
  ASSUME NEW rank \in Ranks, Inv(rank), InCode
  PROVE  /\ OnExecutor /\ ~Falling /\ lj = NoJump /\ lj.type = "none" /\ Quiet
         /\ curr \in Thread /\ state[curr] = "running" /\ callstack[curr] # <<>>
         /\ Depth(curr) \in Nat /\ Depth(curr) >= 1
         /\ Top(curr) = callstack[curr][Depth(curr)] /\ Top(curr) \in Acts
<1>1. Quiet /\ Innermost.kind = "executor"
  BY DEF InCode
<1>2. /\ curr \in Thread /\ state[curr] = "running" /\ ~Falling /\ lj = NoJump
      /\ OnExecutor /\ callstack[curr] # <<>>
  BY <1>1, QuietFacts
<1>3. TypeInv
  BY DEF Inv
<1>4. Depth(curr) \in Nat /\ Depth(curr) >= 1 /\ Depth(curr) \in 1 .. Depth(curr)
  BY <1>2, <1>3, Types
<1>5. QED
  BY <1>1, <1>2, <1>3, <1>4, Types, JumpsMade DEF Top

\* While a longjmp has reached an executor.
LEMMA HandlingFacts ==
  ASSUME NEW rank \in Ranks, Inv(rank), NEW type \in {"resume", "yield", "throw"}, Handling(type)
  PROVE  /\ OnExecutor /\ lj.type = type /\ (Falling <=> type = "throw")
         /\ curr \in Thread /\ state[curr] = "running"
         /\ callstack[curr] # <<>> =>
              /\ Depth(curr) \in Nat /\ Depth(curr) >= 1
              /\ Top(curr) = callstack[curr][Depth(curr)] /\ Top(curr) \in Acts
<1>0. TypeInv /\ JumpInv
  BY DEF Inv
<1>1. OnExecutor /\ lj.type = type /\ (Falling <=> type = "throw")
  BY <1>0 DEF Handling, OnExecutor, JumpInv, Falling
<1>2. curr \in Thread /\ state[curr] = "running"
  BY <1>1, OnExecutorFacts
<1>3. callstack[curr] # <<>> => Depth(curr) \in 1 .. Depth(curr) /\ Depth(curr) \in Nat /\ Depth(curr) >= 1
  BY <1>0, <1>2, Types
<1>4. QED
  BY <1>0, <1>1, <1>2, <1>3, Types DEF Top

-----------------------------------------------------------------------------
(* Answers *)

\* No executor was started on the current thread when the innermost one was not
\* started at one of its activations; so it is not the heap thread.
LEMMA NothingBelow ==
  ASSUME NEW rank \in Ranks, Inv(rank), OnExecutor, ~IsEntry(curr),
         \A d \in 1 .. Depth(curr) : d < Depth(curr) => ~callstack[curr][d].entry
  PROVE  curr # Main /\ \A i \in 1 .. Len(cstack) : cstack[i].thr # curr
<1> SUFFICES ASSUME NEW n, n = Len(cstack)
             PROVE  curr # Main /\ \A i \in 1 .. n : cstack[i].thr # curr
  OBVIOUS
<1>0. TypeInv /\ CStackInv(rank)
  BY DEF Inv
<1>1. /\ n \in 1 .. n /\ DOMAIN cstack = 1 .. n /\ Innermost = cstack[n] /\ curr \in Thread
      /\ ~Refused(cstack[n]) /\ cstack[n] \in Catches
  BY <1>0, OnExecutorFacts, Types
<1>2. Innermost.thr # curr
  <2>1. SUFFICES ASSUME Innermost.thr = curr
                 PROVE  FALSE
    OBVIOUS
  <2>2. CatchInv(n) /\ Innermost.kind = "executor"
    BY <1>0, <1>1 DEF CStackInv, OnExecutor
  <2>3. /\ Innermost.depth <= Depth(curr) /\ Innermost.depth >= 1
        /\ callstack[curr][Innermost.depth].entry
    BY <1>1, <2>1, <2>2 DEF CatchInv
  <2>4. Innermost.depth # Depth(curr)
    BY <2>1 DEF IsEntry
  <2>5. Innermost.depth \in Nat /\ Depth(curr) \in Nat
    BY <1>0, <1>1, Types DEF Catches
  <2>6. QED
    BY <2>3, <2>4, <2>5
<1>3. QED
  BY <1>1, <1>2, OnExecutorFacts

\* Every thread but the heap thread has a resumer, in its call of resume().
LEMMA ResumerFacts ==
  ASSUME NEW rank \in Ranks, Inv(rank), OnExecutor, curr # Main, NEW r, r = resumer[curr]
  PROVE  /\ r \in Thread /\ r # curr /\ callstack[r] \in Seq(Acts) /\ callstack[r] # <<>>
         /\ Depth(r) \in Nat /\ Depth(r) >= 1 /\ Prevents(callstack[r][Depth(r)])
<1>0. TypeInv /\ ChainInv(rank)
  BY DEF Inv
<1>1. curr \in Thread /\ state[curr] = "running"
  BY OnExecutorFacts
<1>2. r # None /\ r \in Thread
  BY <1>0, <1>1 DEF ChainInv, Active, TypeInv
<1>3. state[r] = "resumed" /\ callstack[r] # <<>> /\ Top(r).kind = "resume"
  BY <1>0, <1>1, <1>2 DEF ChainInv
<1>4. callstack[r] \in Seq(Acts) /\ Depth(r) \in Nat /\ Depth(r) >= 1
  BY <1>0, <1>2, <1>3, Types
<1>5. QED
  BY <1>1, <1>2, <1>3, <1>4 DEF Top, Prevents

\* The answer is what the resumer's call of resume() returns: that call goes, and
\* the stack p of the thread that answers forbids as much as it did.
LEMMA AnswerStacks ==
  ASSUME TypeInv, NEW u \in Thread, NEW r \in Thread, r # u,
         callstack[r] # <<>>, Prevents(callstack[r][Depth(r)]),
         NEW p \in Seq(Acts), Preventing(p) = Preventing(callstack[u]),
         callstack' = [callstack EXCEPT ![u] = p,
                                        ![r] = SubSeq(callstack[r], 1, Depth(r) - 1)],
         preventcount' = [preventcount EXCEPT ![r] = @ - 1]
  PROVE  /\ callstack' \in [Thread -> Seq(Acts)] /\ callstack'[u] = p
         /\ \A t \in Thread : t # u /\ t # r => callstack'[t] = callstack[t]
         /\ preventcount' \in [Thread -> Int]
         /\ \A t \in Thread : preventcount'[t] - Preventing(callstack'[t])
                              = preventcount[t] - Preventing(callstack[t])
         /\ Len(callstack'[r]) = Depth(r) - 1
         /\ \A d \in 1 .. Len(callstack'[r]) : callstack'[r][d] = callstack[r][d]
<1> DEFINE q == SubSeq(callstack[r], 1, Depth(r) - 1)
<1>1. callstack[r] \in Seq(Acts)
  BY Types
<1>2. /\ q \in Seq(Acts) /\ Len(q) = Depth(r) - 1
      /\ \A d \in 1 .. Depth(r) - 1 : q[d] = callstack[r][d]
      /\ Preventing(callstack[r]) = Preventing(q) + 1
  BY <1>1, PreventingPop DEF Depth
<1>3. Preventing(q) \in Nat /\ Preventing(callstack[r]) \in Nat
  BY <1>1, <1>2, PreventingCounts
<1>4. callstack' = [callstack EXCEPT ![u] = p, ![r] = q]
  OBVIOUS
<1> HIDE DEF q
<1>8. /\ callstack' \in [Thread -> Seq(Acts)] /\ callstack'[u] = p /\ callstack'[r] = q
      /\ \A t \in Thread : t # u /\ t # r => callstack'[t] = callstack[t]
  BY <1>2, <1>4 DEF TypeInv
<1>5. preventcount' \in [Thread -> Int]
  BY DEF TypeInv
<1>6. ASSUME NEW t \in Thread
      PROVE  preventcount'[t] - Preventing(callstack'[t]) = preventcount[t] - Preventing(callstack[t])
  <2>2. CASE t = r
    <3>1. preventcount'[r] = preventcount[r] - 1 /\ callstack'[r] = q /\ preventcount[r] \in Int
      BY <1>4 DEF TypeInv
    <3>2. preventcount'[t] = preventcount[t] - 1 /\ preventcount[t] \in Int
      BY <2>2, <3>1
    <3>3. Preventing(callstack'[t]) = Preventing(q)
      BY <2>2, <3>1
    <3>4. Preventing(callstack[t]) = Preventing(q) + 1
      BY <1>2, <2>2
    <3>5. QED
      BY <1>3, <3>2, <3>3, <3>4
  <2>3. CASE t = u
    <3>1. preventcount'[t] = preventcount[t] /\ callstack'[t] = p
      BY <1>4, <2>3 DEF TypeInv
    <3>2. QED
      BY <2>3, <3>1
  <2>4. CASE t # r /\ t # u
    <3>1. preventcount'[t] = preventcount[t] /\ callstack'[t] = callstack[t]
      BY <1>4, <2>4 DEF TypeInv
    <3>2. QED
      BY <3>1
  <2>5. QED
    BY <2>2, <2>3, <2>4
<1>7. QED
  BY <1>2, <1>5, <1>6, <1>8

\* The answer is an error: its stack is left for the error to unwind.
LEMMA AnswerErrorStep ==
  ASSUME NEW rank \in Ranks, Inv(rank), OnExecutor, curr # Main,
         \A i \in 1 .. Len(cstack) : cstack[i].thr # curr,
         NEW st, BackTo(resumer[curr], curr, st),
         UNCHANGED <<callstack, preventcount, cstack, native, finalizer>>,
         \/ st = "yielded" /\ callstack[curr] # <<>> /\ Top(curr).kind = "yield" /\ ~Falling
         \/ st = "terminated" /\ callstack[curr] = <<>>,
         lj' \in Jumps, lj'.type = "throw"
  PROVE  Inv(rank)'
<1> SUFFICES ASSUME NEW r, r = resumer[curr]
             PROVE  Inv(rank)'
  OBVIOUS
<1>0. TypeInv
  BY DEF Inv
<1>1. curr \in Thread
  BY OnExecutorFacts
<1>2. r \in Thread /\ r # curr /\ callstack[r] \in Seq(Acts) /\ Depth(r) \in Nat
  BY ResumerFacts
<1>3. callstack[curr] \in Seq(Acts)
  BY <1>0, <1>1, Types
<1>4. /\ callstack' \in [Thread -> Seq(Acts)] /\ callstack'[curr] = callstack[curr]
      /\ \A t \in Thread : t # curr /\ t # r => callstack'[t] = callstack[t]
  BY <1>0 DEF TypeInv
<1>5. /\ preventcount' \in [Thread -> Int]
      /\ \A t \in Thread : preventcount'[t] - Preventing(callstack'[t])
                           = preventcount[t] - Preventing(callstack[t])
  BY <1>0 DEF TypeInv
<1>6. Len(callstack'[r]) \in {Depth(r) - 1, Depth(r)}
  BY DEF Depth
<1>7. \A d \in 1 .. Len(callstack'[r]) : callstack'[r][d] = callstack[r][d]
  OBVIOUS
<1>8. BackTo(r, curr, st)
  OBVIOUS
<1>9. QED
  BY <1>2, <1>3, <1>4, <1>5, <1>6, <1>7, <1>8, BackStep

\* duk__handle_return: to the finally block, out of the executor, to the caller or
\* to the resumer.
LEMMA ReturnStep ==
  ASSUME NEW rank \in Ranks, Inv(rank), InEcma, ReturnTo(curr), UNCHANGED <<native, lj, finalizer>>
  PROVE  Inv(rank)'
<1>0. TypeInv /\ EntryInv /\ CStackInv(rank) /\ RestInv
  BY DEF Inv
<1>1. InCode /\ Top(curr).kind = "ecma"
  BY DEF InEcma
<1>2. /\ OnExecutor /\ ~Falling /\ lj = NoJump /\ lj.type = "none"
      /\ curr \in Thread /\ state[curr] = "running" /\ callstack[curr] # <<>>
      /\ Depth(curr) \in Nat /\ Depth(curr) >= 1
      /\ Top(curr) = callstack[curr][Depth(curr)] /\ Top(curr) \in Acts
  BY <1>1, InCodeFacts
<1>3. CASE Top(curr).cat = "finally"
  <2>1. SetCat(curr, "returning") /\ UNCHANGED <<state, resumer, curr, preventcount, cstack, native, finalizer>>
    BY <1>3 DEF ReturnTo, threads
  <2>2. lj' = NoJump
    BY <1>2
  <2>3. QED
    BY <1>1, <1>2, <2>1, <2>2, CatStep
<1>4. CASE Top(curr).cat # "finally" /\ IsEntry(curr)
  <2>1. /\ UnwindTo(curr, Depth(curr) - 1) /\ cstack' = PopC(cstack)
        /\ curr' = Innermost.curr /\ state' = [state EXCEPT ![curr] = Innermost.state]
        /\ UNCHANGED resumer
    BY <1>4 DEF ReturnTo
  <2>2. Innermost.curr = curr /\ Innermost.state = "running"
    <3>1. /\ Innermost = cstack[Len(cstack)] /\ Len(cstack) \in 1 .. Len(cstack)
          /\ ~Refused(cstack[Len(cstack)]) /\ Innermost.thr = curr
      BY <1>2, <1>4, OnExecutorFacts DEF IsEntry
    <3>2. CatchInv(Len(cstack)) /\ Innermost.kind = "executor"
      BY <1>0, <1>2, <3>1, Types DEF CStackInv, OnExecutor
    <3>3. QED
      BY <3>1, <3>2 DEF CatchInv, Refused
  <2>3. UNCHANGED <<state, resumer, curr, native, lj, finalizer>>
    BY <1>0, <1>2, <2>1, <2>2 DEF TypeInv
  <2>4. PICK s \in Seq(Acts) :
          /\ Len(s) = Depth(curr) - 1
          /\ \A d \in 1 .. Depth(curr) - 1 : s[d] = callstack[curr][d]
          /\ callstack' = [callstack EXCEPT ![curr] = s]
          /\ preventcount' =
               [preventcount EXCEPT ![curr] = @ + Preventing(s) - Preventing(callstack[curr])]
    <3>1. Depth(curr) - 1 \in 0 .. Depth(curr)
      BY <1>2
    <3>2. QED
      BY <1>0, <1>2, <2>1, <3>1, UnwindForm
  <2>5. \A d \in 1 .. Len(s) : s[d] = callstack[curr][d]
    BY <2>4
  <2>6. QED
    BY <1>2, <1>4, <2>1, <2>3, <2>4, <2>5, LeaveExecutorStep
<1>5. CASE Top(curr).cat # "finally" /\ ~IsEntry(curr) /\ Depth(curr) >= 2
  <2>1. /\ UnwindTo(curr, Depth(curr) - 1)
        /\ UNCHANGED <<state, resumer, curr, cstack, native, lj, finalizer>>
    BY <1>5 DEF ReturnTo, threads
  <2>2. lj.type \in {"none", "throw"}
    BY <1>2
  <2>3. QED
    BY <1>2, <1>5, <2>1, <2>2, DropStep
<1>6. CASE Top(curr).cat # "finally" /\ ~IsEntry(curr) /\ ~(Depth(curr) >= 2)
  <2>1. Depth(curr) = 1
    BY <1>2, <1>6
  <2>2. curr # Main /\ \A i \in 1 .. Len(cstack) : cstack[i].thr # curr
    <3>1. \A d \in 1 .. Depth(curr) : d < Depth(curr) => ~callstack[curr][d].entry
      BY <2>1
    <3>2. QED
      BY <1>2, <1>6, <3>1, NothingBelow
  <2>3. Preventing(callstack[curr]) = 0
    <3>1. 1 \in 1 .. Depth(curr) /\ ~Falling
      BY <1>2, <2>1
    <3>2. DOMAIN cstack = 1 .. Len(cstack) /\ callstack[curr] \in Seq(Acts) /\ callstack[curr][1] \in Acts
      BY <1>0, <1>2, <3>1, Types
    <3>3. ~callstack[curr][1].entry
      <4>1. callstack[curr][1].entry =>
              \E i \in 1 .. Len(cstack) : 
                cstack[i].kind = "executor" /\ cstack[i].thr = curr /\ cstack[i].depth = 1
        BY <1>2, <3>1, CurrentStack
      <4>2. QED
        BY <2>2, <4>1
    <3>4. ~Prevents(callstack[curr][1])
      BY <1>1, <1>2, <2>1, <3>3 DEF Prevents
    <3>5. QED
      BY <2>1, <3>2, <3>4, PreventingNone DEF Depth
  <2>4. SUFFICES ASSUME NEW r, r = resumer[curr]
                 PROVE  Inv(rank)'
    OBVIOUS
  <2>5. /\ r \in Thread /\ r # curr /\ callstack[r] # <<>> /\ Prevents(callstack[r][Depth(r)])
    BY <1>2, <2>2, <2>4, ResumerFacts
  <2>6. /\ callstack' = [callstack EXCEPT ![curr] = <<>>, ![r] = SubSeq(@, 1, Depth(r) - 1)]
        /\ preventcount' = [preventcount EXCEPT ![r] = @ - 1]
        /\ BackTo(r, curr, "terminated") /\ UNCHANGED cstack
    BY <1>6, <2>4 DEF ReturnTo
  <2>7. callstack' = [callstack EXCEPT ![curr] = <<>>, ![r] = SubSeq(callstack[r], 1, Depth(r) - 1)]
    BY <1>0, <1>2, <2>5, <2>6 DEF TypeInv
  <2>8. PICK p \in Seq(Acts) : p = <<>> /\ Preventing(p) = 0
    <3>1. <<>> \in Seq(Acts) /\ Len(<<>>) = 0
      BY EmptySeq
    <3>2. SUFFICES ASSUME NEW e \in Seq(Acts), Len(e) = 0
                   PROVE  Preventing(e) = 0
      BY <3>1
    <3>3. \A i \in 1 .. Len(e) : ~Prevents(e[i])
      BY <3>2
    <3>4. QED
      BY <3>3, PreventingNone
  <2>9. callstack' = [callstack EXCEPT ![curr] = p, ![r] = SubSeq(callstack[r], 1, Depth(r) - 1)]
    BY <2>7, <2>8
  <2>10. /\ callstack' \in [Thread -> Seq(Acts)] /\ callstack'[curr] = p
         /\ \A t \in Thread : t # curr /\ t # r => callstack'[t] = callstack[t]
         /\ preventcount' \in [Thread -> Int]
         /\ \A t \in Thread : preventcount'[t] - Preventing(callstack'[t])
                              = preventcount[t] - Preventing(callstack[t])
         /\ Len(callstack'[r]) = Depth(r) - 1
         /\ \A d \in 1 .. Len(callstack'[r]) : callstack'[r][d] = callstack[r][d]
    <3>1. Preventing(p) = Preventing(callstack[curr])
      BY <2>3, <2>8
    <3>2. preventcount' = [preventcount EXCEPT ![r] = @ - 1]
      BY <2>6
    <3>3. QED
      BY <1>0, <1>2, <2>5, <2>9, <3>1, <3>2, AnswerStacks
  <2>11. /\ lj' \in Jumps /\ lj' = NoJump /\ UNCHANGED <<cstack, native, finalizer>>
         /\ Len(callstack'[r]) \in {Depth(r) - 1, Depth(r)}
         /\ BackTo(r, curr, "terminated") /\ callstack'[curr] = <<>>
    BY <1>2, <2>6, <2>8, <2>10, JumpsMade
  <2>12. QED
    BY <1>2, <2>2, <2>4, <2>10, <2>11, BackStep
<1>7. QED
  BY <1>3, <1>4, <1>5, <1>6

\* duk__handle_longjmp, DUK_LJ_TYPE_YIELD.
LEMMA YieldStep ==
  ASSUME NEW rank \in Ranks, Inv(rank), YieldError \/ YieldValue
  PROVE  Inv(rank)'
<1>0. TypeInv /\ JumpInv
  BY DEF Inv
<1>1. Handling("yield")
  BY DEF YieldError, YieldValue
<1>2. OnExecutor /\ lj.type = "yield" /\ ~Falling /\ curr \in Thread
  BY <1>1, HandlingFacts
<1>3. callstack[curr] # <<>> /\ Top(curr).kind = "yield"
  BY <1>0, <1>2 DEF JumpInv
<1>4. /\ Depth(curr) \in Nat /\ Depth(curr) >= 1 /\ Depth(curr) \in 1 .. Depth(curr)
      /\ Top(curr) = callstack[curr][Depth(curr)]
  BY <1>1, <1>3, HandlingFacts
<1>5. curr # Main /\ \A d \in 1 .. Depth(curr) - 1 : ~Prevents(callstack[curr][d])
  BY <1>2, <1>3, <1>4, CurrentStack
<1>6. curr # Main /\ \A i \in 1 .. Len(cstack) : cstack[i].thr # curr
  <2>1. ~IsEntry(curr)
    BY <1>2, <1>3, OnExecutorFacts
  <2>2. \A d \in 1 .. Depth(curr) : d < Depth(curr) => ~callstack[curr][d].entry
    <3>1. SUFFICES ASSUME NEW d \in 1 .. Depth(curr), d < Depth(curr)
                   PROVE  ~callstack[curr][d].entry
      OBVIOUS
    <3>2. d \in 1 .. Depth(curr) - 1
      BY <1>4, <3>1
    <3>3. QED
      BY <1>5, <3>2 DEF Prevents
  <2>3. QED
    BY <1>2, <2>1, <2>2, NothingBelow
<1>7. CASE YieldError
  <2>1. /\ BackTo(resumer[curr], curr, "yielded") /\ lj' = Throw
        /\ UNCHANGED <<callstack, preventcount, cstack, native, finalizer>>
    BY <1>7 DEF YieldError, stacks
  <2>2. QED
    BY <1>2, <1>3, <1>6, <2>1, JumpsMade, AnswerErrorStep
<1>8. CASE YieldValue
  <2>1. SUFFICES ASSUME NEW r, r = resumer[curr]
                 PROVE  Inv(rank)'
    OBVIOUS
  <2>2. /\ UnwindTo(r, Depth(r) - 1) /\ BackTo(r, curr, "yielded") /\ lj' = NoJump
        /\ UNCHANGED <<cstack, native, finalizer>>
    BY <1>8, <2>1 DEF YieldValue
  <2>3. /\ r \in Thread /\ r # curr /\ callstack[r] \in Seq(Acts) /\ callstack[r] # <<>>
        /\ Depth(r) \in Nat /\ Depth(r) >= 1 /\ Prevents(callstack[r][Depth(r)])
    BY <1>2, <1>6, <2>1, ResumerFacts
  <2>4. Depth(r) - 1 \in 0 .. Depth(r)
    BY <2>3
  <2>5. /\ callstack' \in [Thread -> Seq(Acts)]
        /\ \A t \in Thread : t # r => callstack'[t] = callstack[t]
        /\ Len(callstack'[r]) = Depth(r) - 1
        /\ \A d \in 1 .. Len(callstack'[r]) : callstack'[r][d] = callstack[r][d]
        /\ preventcount' \in [Thread -> Int]
        /\ \A t \in Thread : preventcount'[t] - Preventing(callstack'[t])
                             = preventcount[t] - Preventing(callstack[t])
    <3>1. PICK s \in Seq(Acts) :
            /\ Len(s) = Depth(r) - 1
            /\ \A d \in 1 .. Depth(r) - 1 : s[d] = callstack[r][d]
            /\ callstack' = [callstack EXCEPT ![r] = s]
            /\ preventcount' =
                 [preventcount EXCEPT ![r] = @ + Preventing(s) - Preventing(callstack[r])]
      BY <1>0, <2>2, <2>3, <2>4, UnwindForm
    <3>2. /\ callstack' \in [Thread -> Seq(Acts)] /\ callstack'[r] = s
          /\ \A t \in Thread \ {r} : callstack'[t] = callstack[t]
          /\ preventcount' \in [Thread -> Int]
          /\ \A t \in Thread : preventcount'[t] - Preventing(callstack'[t])
                               = preventcount[t] - Preventing(callstack[t])
      BY <1>0, <2>3, <3>1, OneStack
    <3>3. QED
      BY <3>1, <3>2
  <2>6. /\ callstack'[curr] = callstack[curr]
        /\ Len(callstack'[r]) \in {Depth(r) - 1, Depth(r)} /\ lj' \in Jumps /\ lj' = NoJump
        /\ \A t \in Thread : t # curr /\ t # r => callstack'[t] = callstack[t]
    BY <1>2, <2>2, <2>3, <2>5, JumpsMade
  <2>7. QED
    BY <1>2, <1>3, <1>6, <2>1, <2>2, <2>5, <2>6, BackStep
<1>9. QED
  BY <1>7, <1>8

\* duk__handle_longjmp, DUK_LJ_TYPE_THROW when the thread has nothing left.
LEMMA TerminateStep ==
  ASSUME NEW rank \in Ranks, Inv(rank), ThrowTerminates
  PROVE  Inv(rank)'
<1>0. TypeInv /\ JumpInv /\ CStackInv(rank)
  BY DEF Inv
<1>1. Handling("throw") /\ callstack[curr] = <<>>
  BY DEF ThrowTerminates
<1>2. OnExecutor /\ lj.type = "throw" /\ Falling /\ curr \in Thread
  BY <1>1, HandlingFacts
<1>3. Depth(curr) = 0
  BY <1>0, <1>1, <1>2, Types DEF Depth
<1>4. ~IsEntry(curr)
  <2>1. SUFFICES ASSUME Innermost.thr = curr, Innermost.depth = 0
                 PROVE  FALSE
    BY <1>3 DEF IsEntry
  <2>2. Innermost = cstack[Len(cstack)] /\ Len(cstack) \in 1 .. Len(cstack)
    BY <1>2, OnExecutorFacts
  <2>3. CatchInv(Len(cstack)) /\ Innermost.kind = "executor"
    BY <1>0, <1>2, <2>2, Types DEF CStackInv, OnExecutor
  <2>4. QED
    BY <2>1, <2>2, <2>3 DEF CatchInv
<1>5. curr # Main /\ \A i \in 1 .. Len(cstack) : cstack[i].thr # curr
  <2>1. \A d \in 1 .. Depth(curr) : d < Depth(curr) => ~callstack[curr][d].entry
    BY <1>3
  <2>2. QED
    BY <1>2, <1>4, <2>1, NothingBelow
<1>6. /\ BackTo(resumer[curr], curr, "terminated") /\ lj' \in Jumps /\ lj'.type = "throw"
      /\ UNCHANGED <<callstack, preventcount, cstack, native, finalizer>>
  BY <1>0, <1>2 DEF ThrowTerminates, stacks, TypeInv
<1>7. QED
  BY <1>1, <1>2, <1>5, <1>6, AnswerErrorStep

\* A catch or finally takes the error.
LEMMA CaughtStep ==
  ASSUME NEW rank \in Ranks, Inv(rank), ThrowCaught
  PROVE  Inv(rank)'
<1>1. /\ Handling("throw") /\ callstack[curr] # <<>> /\ Top(curr).cat \in Catching
      /\ lj' = NoJump
      /\ UNCHANGED <<state, resumer, curr, preventcount, cstack, native, finalizer>>
  BY DEF ThrowCaught, threads
<1>2. OnExecutor /\ Top(curr) \in Acts
  BY <1>1, HandlingFacts
<1>3. Top(curr).kind = "ecma"
  BY <1>1, <1>2 DEF Acts, Catching
<1>4. CASE Top(curr).cat = "catch"
  <2>1. SetCat(curr, "none")
    BY <1>4 DEF ThrowCaught
  <2>2. QED
    BY <1>1, <1>2, <1>3, <2>1, CatStep
<1>5. CASE Top(curr).cat # "catch"
  <2>1. SetCat(curr, "throwing")
    BY <1>5 DEF ThrowCaught
  <2>2. QED
    BY <1>1, <1>2, <1>3, <2>1, CatStep
<1>6. QED
  BY <1>4, <1>5

\* The error leaves an activation or an executor.
LEMMA UnwindsStep ==
  ASSUME NEW rank \in Ranks, Inv(rank), ThrowUnwinds
  PROVE  Inv(rank)'
<1>0. TypeInv
  BY DEF Inv
<1>1. /\ Handling("throw") /\ callstack[curr] # <<>> /\ Top(curr).cat \notin Catching
      /\ UNCHANGED <<state, resumer, curr, native, lj, finalizer>>
  BY DEF ThrowUnwinds, threads
<1>2. OnExecutor /\ lj.type = "throw" /\ Falling /\ curr \in Thread
  BY <1>1, HandlingFacts
<1>3. CASE IsEntry(curr)
  <2>1. cstack' = PopC(cstack) /\ callstack' = callstack /\ preventcount' = preventcount
    BY <1>3 DEF ThrowUnwinds
  <2>2. SUFFICES ASSUME NEW s, s = callstack[curr]
                 PROVE  Inv(rank)'
    OBVIOUS
  <2>3. s \in Seq(Acts) /\ Preventing(s) \in Nat /\ preventcount[curr] \in Int
    BY <1>0, <1>2, <2>2, PreventingCounts DEF TypeInv
  <2>4. callstack' = [callstack EXCEPT ![curr] = s]
    BY <1>0, <2>1, <2>2 DEF TypeInv
  <2>5. preventcount' =
          [preventcount EXCEPT ![curr] = @ + Preventing(s) - Preventing(callstack[curr])]
    <3>1. preventcount[curr] + Preventing(s) - Preventing(callstack[curr]) = preventcount[curr]
      BY <2>2, <2>3
    <3>2. preventcount' = [preventcount EXCEPT ![curr] = preventcount[curr]]
      BY <1>0, <2>1 DEF TypeInv
    <3>3. QED
      BY <3>1, <3>2
  <2>6. Len(s) = Depth(curr) /\ \A d \in 1 .. Len(s) : s[d] = callstack[curr][d]
    BY <2>2 DEF Depth
  <2>7. QED
    BY <1>1, <1>2, <1>3, <2>1, <2>3, <2>4, <2>5, <2>6, LeaveExecutorStep
<1>4. CASE ~IsEntry(curr)
  <2>1. UnwindTo(curr, Depth(curr) - 1) /\ cstack' = cstack
    BY <1>4 DEF ThrowUnwinds
  <2>2. QED
    BY <1>1, <1>2, <1>4, <2>1, DropStep
<1>5. QED
  BY <1>3, <1>4

\* What is on the stack of a thread that may be resumed: nothing, or a yield with
\* nothing under it that forbids one.
LEMMA RestingStack ==
  ASSUME NEW rank \in Ranks, Inv(rank), NEW u \in Thread, ~Active(u)
  PROVE  /\ state[u] # "yielded" => callstack[u] = <<>>
         /\ state[u] = "yielded" =>
              /\ Depth(u) >= 2 /\ callstack[u][Depth(u)].kind = "yield"
              /\ ~callstack[u][Depth(u)].entry
              /\ callstack[u][1].kind = "ecma"
              /\ \A d \in 1 .. Depth(u) - 1 :
                   ~Prevents(callstack[u][d]) /\ callstack[u][d].kind = "ecma"
                   /\ ~callstack[u][d].entry
<1>0. TypeInv /\ RestInv /\ PendingInv(rank) /\ ChainInv(rank)
  BY DEF Inv
<1>1. state[u] # "yielded" => callstack[u] = <<>>
  BY <1>0 DEF RestInv
<1>2. ASSUME state[u] = "yielded"
      PROVE  /\ Depth(u) >= 2 /\ callstack[u][Depth(u)].kind = "yield"
             /\ ~callstack[u][Depth(u)].entry
             /\ callstack[u][1].kind = "ecma"
             /\ \A d \in 1 .. Depth(u) - 1 :
                  ~Prevents(callstack[u][d]) /\ callstack[u][d].kind = "ecma"
                  /\ ~callstack[u][d].entry
  <2>1. callstack[u] # <<>> /\ callstack[u][Depth(u)].kind = "yield" /\ callstack[u][1].kind = "ecma"
    BY <1>0, <1>2 DEF RestInv, Top
  <2>2. Depth(u) \in DOMAIN callstack[u] /\ callstack[u][Depth(u)] \in Acts
    BY <1>0, <2>1, Types
  <2>3. u # curr
    BY <1>0, <1>2 DEF ChainInv
  <2>4. Depth(u) >= 2 /\ \A d \in 1 .. Depth(u) - 1 : ~Prevents(callstack[u][d])
    <3>1. PendingAt(rank, u, Depth(u)) /\ ~Failed(u, Depth(u))
      BY <1>0, <2>2, <2>3 DEF PendingInv, Failed
    <3>2. QED
      BY <2>1, <3>1 DEF PendingAt
  <2>5. ~callstack[u][Depth(u)].entry
    BY <2>1, <2>2 DEF Acts
  <2>6. QED
    BY <2>1, <2>4, <2>5 DEF Prevents
<1>3. QED
  BY <1>1, <1>2

\* duk__handle_longjmp, DUK_LJ_TYPE_RESUME.
LEMMA ResumesStep ==
  ASSUME NEW rank \in Ranks, Inv(rank), ResumeError \/ ResumeValue
  PROVE  IInv'
<1>0. TypeInv /\ JumpInv
  BY DEF Inv
<1>1. Handling("resume")
  BY DEF ResumeError, ResumeValue
<1>2. OnExecutor /\ lj.type = "resume" /\ ~Falling /\ curr \in Thread
  BY <1>1, HandlingFacts
<1> SUFFICES ASSUME NEW u, u = lj.to
             PROVE  IInv'
  OBVIOUS
<1>3. callstack[curr] # <<>> /\ Top(curr).kind = "resume" /\ Top(curr).to = u
  BY <1>0, <1>2 DEF JumpInv
<1>4. /\ Depth(curr) \in Nat /\ Depth(curr) \in 1 .. Depth(curr)
      /\ Top(curr) = callstack[curr][Depth(curr)] /\ Top(curr) \in Acts
  BY <1>1, <1>3, HandlingFacts
<1>5. u \in Thread /\ ~Active(u)
  <2>1. u \in Thread
    BY <1>3, <1>4 DEF Acts
  <2>2. QED
    BY <1>2, <1>3, <1>4, <2>1, CurrentStack
<1>6. callstack[u] \in Seq(Acts) /\ Depth(u) \in Nat /\ preventcount[u] \in Int
      /\ (callstack[u] # <<>> <=> Depth(u) > 0)
      /\ Preventing(callstack[u]) \in Nat /\ callstack \in [Thread -> Seq(Acts)]
      /\ preventcount \in [Thread -> Int]
  <2>1. callstack[u] \in Seq(Acts) /\ Depth(u) \in Nat /\ preventcount[u] \in Int
        /\ (callstack[u] # <<>> <=> Depth(u) > 0)
    BY <1>0, <1>5, Types DEF TypeInv
  <2>2. QED
    BY <1>0, <2>1, PreventingCounts DEF TypeInv
<1>7. CASE ResumeError
  <2>1. SUFFICES ASSUME NEW s, s = callstack[u]
                 PROVE  IInv'
    OBVIOUS
  <2>2. /\ SwitchTo(u) /\ lj' = Throw /\ UNCHANGED <<cstack, native, finalizer>>
        /\ callstack' = callstack /\ preventcount' = preventcount
    BY <1>7 DEF ResumeError, stacks
  <2>3. Resumed(s)
    <3>1. CASE state[u] # "yielded"
      <4>1. s = <<>>
        BY <1>5, <2>1, <3>1, RestingStack
      <4>2. Len(s) = 0
        BY <4>1, EmptySeq
      <4>3. QED
        BY <4>1, <4>2 DEF Resumed
    <3>2. CASE state[u] = "yielded"
      <4>1. /\ Depth(u) >= 2 /\ callstack[u][Depth(u)].kind = "yield"
            /\ ~callstack[u][Depth(u)].entry
            /\ callstack[u][1].kind = "ecma"
            /\ \A d \in 1 .. Depth(u) - 1 :
                 ~Prevents(callstack[u][d]) /\ callstack[u][d].kind = "ecma"
                 /\ ~callstack[u][d].entry
        BY <1>5, <3>2, RestingStack
      <4>2. Len(s) = Depth(u)
        BY <2>1 DEF Depth
      <4>3. \A d \in 1 .. Depth(u) : d \in 1 .. Depth(u) - 1 \/ d = Depth(u)
        BY <1>6
      <4>4. QED
        BY <2>1, <4>1, <4>2, <4>3 DEF Resumed
    <3>3. QED
      BY <3>1, <3>2
  <2>4. callstack' = [callstack EXCEPT ![u] = s]
    BY <1>6, <2>1, <2>2
  <2>5. preventcount' = [preventcount EXCEPT ![u] = @ + Preventing(s) - Preventing(callstack[u])]
    <3>1. preventcount[u] + Preventing(s) - Preventing(callstack[u]) = preventcount[u]
      BY <1>6, <2>1
    <3>2. preventcount' = [preventcount EXCEPT ![u] = preventcount[u]]
      BY <1>6, <2>2
    <3>3. QED
      BY <3>1, <3>2
  <2>6. s \in Seq(Acts)
    BY <1>6, <2>1
  <2>7. QED
    BY <1>2, <2>2, <2>3, <2>4, <2>5, <2>6, ResumeStep
<1>8. CASE ResumeValue
  <2>1. /\ SwitchTo(u) /\ lj' = NoJump /\ UNCHANGED <<cstack, native, finalizer>>
    BY <1>8 DEF ResumeValue
  <2>2. CASE state[u] = "yielded"
    <3>1. /\ Depth(u) >= 2 /\ callstack[u][Depth(u)].kind = "yield"
          /\ ~callstack[u][Depth(u)].entry
          /\ callstack[u][1].kind = "ecma"
          /\ \A d \in 1 .. Depth(u) - 1 :
               ~Prevents(callstack[u][d]) /\ callstack[u][d].kind = "ecma"
               /\ ~callstack[u][d].entry
      BY <1>5, <2>2, RestingStack
    <3>2. UnwindTo(u, Depth(u) - 1)
      BY <1>8, <2>2 DEF ResumeValue
    <3>3. PICK s \in Seq(Acts) :
            /\ Len(s) = Depth(u) - 1
            /\ \A d \in 1 .. Depth(u) - 1 : s[d] = callstack[u][d]
            /\ callstack' = [callstack EXCEPT ![u] = s]
            /\ preventcount' =
                 [preventcount EXCEPT ![u] = @ + Preventing(s) - Preventing(callstack[u])]
      <4>1. Depth(u) - 1 \in 0 .. Depth(u)
        BY <1>6, <3>1
      <4>2. QED
        BY <1>0, <1>5, <3>2, <4>1, UnwindForm
    <3>4. Resumed(s) /\ s # <<>>
      <4>1. 1 \in 1 .. Depth(u) - 1 /\ Len(s) > 0
        BY <1>6, <3>1, <3>3
      <4>2. QED
        BY <3>1, <3>3, <4>1, EmptySeq DEF Resumed
    <3>5. QED
      BY <1>2, <2>1, <3>3, <3>4, ResumeStep
  <2>3. CASE state[u] # "yielded"
    <3>1. Push(u, Activation("ecma"))
      BY <1>8, <2>3 DEF ResumeValue
    <3>2. Activation("ecma") \in Acts /\ ~Activation("ecma").entry /\ Activation("ecma").kind = "ecma"
      BY DEF Activation, Acts
    <3>3. callstack[u] = <<>>
      BY <1>5, <2>3, RestingStack
    <3>4. SUFFICES ASSUME NEW s, s = Append(callstack[u], Activation("ecma"))
                   PROVE  IInv'
      OBVIOUS
    <3>5. s \in Seq(Acts) /\ Len(s) = 1 /\ s[1] = Activation("ecma")
      <4>1. Len(callstack[u]) = 0
        BY <3>3, EmptySeq
      <4>2. QED
        BY <1>6, <3>2, <3>4, <4>1, AppendProperties
    <3>6. Resumed(s) /\ s # <<>>
      <4>1. s # <<>>
        <5>1. SUFFICES ASSUME s = <<>>
                       PROVE  FALSE
          OBVIOUS
        <5>2. Len(<<>>) = 0
          OBVIOUS
        <5>3. QED
          BY <3>5, <5>1, <5>2
      <4>2. \A d \in 1 .. Len(s) : d = 1
        BY <3>5
      <4>3. s[1].kind = "ecma" /\ ~s[1].entry
        BY <3>2, <3>5
      <4>4. \A d \in 1 .. Len(s) : ~s[d].entry /\ s[d].kind = "ecma"
        BY <4>2, <4>3
      <4>5. QED
        BY <4>1, <4>3, <4>4 DEF Resumed
    <3>7. callstack' = [callstack EXCEPT ![u] = s]
      BY <3>1, <3>4 DEF Push
    <3>8. preventcount' = [preventcount EXCEPT ![u] = @ + Preventing(s) - Preventing(callstack[u])]
      <4>1. ~Prevents(Activation("ecma"))
        BY <3>2 DEF Prevents
      <4>2. Preventing(s) = Preventing(callstack[u])
        BY <1>6, <3>2, <3>4, <4>1, PreventingPush
      <4>3. preventcount[u] + Preventing(s) - Preventing(callstack[u]) = preventcount[u] + 0
        BY <1>6, <4>2
      <4>4. preventcount' = [preventcount EXCEPT ![u] = preventcount[u] + 0]
        BY <3>1, <4>1 DEF Push
      <4>5. QED
        BY <4>3, <4>4
    <3>9. QED
      BY <1>2, <2>1, <3>5, <3>6, <3>7, <3>8, ResumeStep
  <2>4. QED
    BY <2>2, <2>3
<1>9. QED
  BY <1>7, <1>8

-----------------------------------------------------------------------------
(* The steps that only push, or only begin a longjmp *)

\* A call made by ECMAScript code.
LEMMA CallStep ==
  ASSUME NEW rank \in Ranks, Inv(rank), NEW kind \in {"ecma", "native"}, Call(kind)
  PROVE  Inv(rank)'
<1>1. /\ InCode /\ Push(curr, Activation(kind))
      /\ UNCHANGED <<state, resumer, curr, cstack, native, lj, finalizer>>
  BY DEF Call, InEcma, threads
<1>2. OnExecutor /\ lj = NoJump
  BY <1>1, InCodeFacts
<1>3. SUFFICES ASSUME NEW a, a = Activation(kind)
               PROVE  Inv(rank)'
  OBVIOUS
<1>4. a \in Acts /\ ~a.entry /\ a.kind \in {"ecma", "native"}
  BY <1>3 DEF Activation, Acts
<1>5. Push(curr, a) /\ lj' \in {NoJump, Throw}
  BY <1>1, <1>2, <1>3
<1>6. QED
  BY <1>1, <1>2, <1>4, <1>5, PushStep

\* A call of resume(): it goes on only to a thread that is not being run.
LEMMA CallResumeStep ==
  ASSUME NEW rank \in Ranks, Inv(rank), NEW t \in Thread, NEW b \in BOOLEAN, CallResume(t, b)
  PROVE  Inv(rank)'
<1>1. /\ InCode /\ Push(curr, [Activation("resume") EXCEPT !.to = t, !.iserror = b])
      /\ UNCHANGED <<state, resumer, curr, cstack, native, finalizer>>
      /\ lj' = IF InEcma /\ Resumable(t) THEN NoJump ELSE Throw
  BY DEF CallResume, InEcma, InNative, threads
<1>2. OnExecutor /\ lj = NoJump
  BY <1>1, InCodeFacts
<1>3. SUFFICES ASSUME NEW a, a = [Activation("resume") EXCEPT !.to = t, !.iserror = b]
               PROVE  Inv(rank)'
  OBVIOUS
<1>4. a \in Acts /\ ~a.entry /\ a.kind = "resume" /\ a.to = t
  <2>1. a = [kind |-> "resume", entry |-> FALSE, cat |-> "none", to |-> t, iserror |-> b]
    BY <1>3 DEF Activation
  <2>2. t # None
    BY NoneIsNoThread
  <2>3. QED
    BY <2>1, <2>2 DEF Acts
<1>5. Push(curr, a) /\ lj' \in {NoJump, Throw}
  BY <1>1, <1>3
<1>6. Resumable(t) => ~Active(t)
  BY DEF Resumable, Active
<1>7. ~Active(a.to) \/ lj' = Throw
  BY <1>1, <1>4, <1>6
<1>8. QED
  BY <1>1, <1>2, <1>4, <1>5, <1>7, PushStep

\* A call of yield(): it goes on only where nothing under it forbids it.
LEMMA CallYieldStep ==
  ASSUME NEW rank \in Ranks, Inv(rank), NEW b \in BOOLEAN, CallYield(b)
  PROVE  Inv(rank)'
<1>1. /\ InCode /\ Push(curr, [Activation("yield") EXCEPT !.iserror = b])
      /\ UNCHANGED <<state, resumer, curr, cstack, native, finalizer>>
      /\ lj' = IF Yieldable THEN NoJump ELSE Throw
  BY DEF CallYield, InEcma, InNative, threads
<1>2. OnExecutor /\ lj = NoJump
  BY <1>1, InCodeFacts
<1>3. SUFFICES ASSUME NEW a, a = [Activation("yield") EXCEPT !.iserror = b]
               PROVE  Inv(rank)'
  OBVIOUS
<1>4. a \in Acts /\ ~a.entry /\ a.kind = "yield"
  <2>1. a = [kind |-> "yield", entry |-> FALSE, cat |-> "none", to |-> None, iserror |-> b]
    BY <1>3 DEF Activation
  <2>2. QED
    BY <2>1 DEF Acts
<1>5. Push(curr, a) /\ lj' \in {NoJump, Throw} /\ (Yieldable \/ lj' = Throw)
  BY <1>1, <1>3
<1>6. QED
  BY <1>1, <1>2, <1>4, <1>5, PushStep

\* An error begins.
LEMMA RaiseStep ==
  ASSUME NEW rank \in Ranks, Inv(rank), InCode \/ InProtected, lj' = Throw,
         UNCHANGED <<state, resumer, curr, callstack, preventcount, cstack, native, finalizer>>
  PROVE  Inv(rank)'
<1>1. CASE InCode
  <2>1. OnExecutor /\ lj = NoJump
    BY <1>1, InCodeFacts
  <2>2. JumpInv'
    BY <2>1, JumpsMade DEF JumpInv, OnExecutor
  <2>3. QED
    BY <2>1, <2>2, JumpsMade, JumpStep
<1>2. CASE InProtected
  BY <1>2, RaiseProtectedStep
<1>3. QED
  BY <1>1, <1>2

\* resume() or yield() begins its longjmp.
LEMMA LongjmpStep ==
  ASSUME NEW rank \in Ranks, Inv(rank), LongjmpFromThread
  PROVE  Inv(rank)'
<1>1. /\ InCode /\ Top(curr).kind \in {"resume", "yield"}
      /\ lj' = Jump(Top(curr).kind, Top(curr).to, Top(curr).iserror)
      /\ UNCHANGED <<state, resumer, curr, callstack, preventcount, cstack, native, finalizer>>
  BY DEF LongjmpFromThread, threads, stacks
<1>2. /\ OnExecutor /\ lj = NoJump /\ Top(curr) \in Acts /\ callstack[curr] # <<>>
  BY <1>1, InCodeFacts
<1>3. lj' \in Jumps
  BY <1>1, <1>2 DEF Jump, Jumps, Acts
<1>4. lj'.type = Top(curr).kind /\ lj'.to = Top(curr).to
  BY <1>1 DEF Jump
<1>5. OnExecutor' /\ Top(curr)' = Top(curr) /\ callstack'[curr'] # <<>>
  BY <1>1, <1>2 DEF OnExecutor, Innermost, Top, Depth
<1>6. JumpInv'
  BY <1>1, <1>4, <1>5 DEF JumpInv, OnExecutor
<1>7. QED
  BY <1>1, <1>2, <1>3, <1>6, JumpStep

-----------------------------------------------------------------------------
(* The steps of protected calls and of finalizers *)

\* The host, a native function or an error handler makes a protected call.
LEMMA ProtectedCallStep ==
  ASSUME NEW rank \in Ranks, Inv(rank), ProtectedCall
  PROVE  Inv(rank)'
<1>1. finalizer' \in {"due", "running", "ran", "refused"}
  BY DEF ProtectedCall, Inv, TypeInv
<1>2. CASE curr = None /\ StartSafe(Main, "host")
  BY <1>1, <1>2, StartHostStep
<1>3. CASE InNative /\ StartSafe(curr, "pcall")
  BY <1>1, <1>3, StartSafeStep DEF InNative, InCode
<1>4. CASE InHandler /\ StartSafe(curr, "errThrow")
  BY <1>1, <1>4, StartSafeStep DEF InHandler, InCode
<1>5. QED
  BY <1>2, <1>3, <1>4 DEF ProtectedCall

\* A finalizer is called, or refused.
LEMMA RunFinalizerStep ==
  ASSUME NEW rank \in Ranks, Inv(rank), RunFinalizer
  PROVE  Inv(rank)'
<1>1. /\ lj = NoJump /\ StartSafe(Main, "finalizer")
      /\ finalizer' \in {"due", "running", "ran", "refused"}
  BY DEF RunFinalizer
<1>2. CASE curr = None
  BY <1>1, <1>2, StartHostStep
<1>3. CASE curr # None
  <2>1. Quiet
    BY <1>1, <1>3 DEF Inv, CStackInv, Quiet
  <2>2. CASE curr = Main
    BY <1>1, <2>1, <2>2, StartSafeStep
  <2>3. CASE curr # Main
    BY <1>1, <2>1, <2>3, RefusedStep
  <2>4. QED
    BY <2>2, <2>3
<1>4. QED
  BY <1>2, <1>3

\* A protected call is left, whether its catchpoint was refused, the host's or another.
LEMMA LeavesStep ==
  ASSUME NEW rank \in Ranks, Inv(rank), cstack # <<>>, Innermost.kind = "safe", LeaveSafe
  PROVE  Inv(rank)'
<1>1. Len(cstack) \in Nat /\ Len(cstack) > 0
  BY Types DEF Inv
<1>2. \A n \in Nat : n > 0 => n = 1 \/ n > 1
  OBVIOUS
<1>3. Len(cstack) = 1 \/ Len(cstack) > 1
  BY <1>1, <1>2
<1>4. QED
  BY <1>3, LeaveRefusedStep, LeaveSafeStep, LeaveHostStep

-----------------------------------------------------------------------------
(* The invariant *)

\* Before the first call all threads have the same place.
LEMMA InitInv == Init => IInv
<1> SUFFICES ASSUME Init
             PROVE  IInv
  OBVIOUS
<1> DEFINE rank == [t \in Thread |-> 0]
<1>1. rank \in Ranks
  BY DEF Ranks
<1>2. Main \in Thread /\ None \notin Thread
  BY NoneIsNoThread
<1>3. Len(<<>>) = 0 /\ DOMAIN <<>> = {} /\ <<>> \in Seq(Acts) /\ <<>> \in Seq(Catches)
  BY EmptySeq
<1>4. \A t \in Thread : ~Active(t) /\ callstack[t] = <<>> /\ preventcount[t] = 0
                         /\ resumer[t] = None /\ state[t] \in {"none", "inactive"}
  BY DEF Init, Active
<1>5. cstack = <<>> /\ curr = None /\ lj = NoJump /\ ~OnExecutor
  BY DEF Init, OnExecutor
<1>6. TypeInv
  BY <1>2, <1>3, JumpsMade DEF Init, TypeInv, State
<1>7. RestInv
  BY <1>2, <1>4, <1>5 DEF RestInv, Init
<1>8. EntryInv
  BY <1>3, <1>4 DEF EntryInv
<1>9. CountInv
  <2>1. ASSUME NEW t \in Thread
        PROVE  preventcount[t] = Preventing(callstack[t]) + Cardinality(SafesOf(cstack, t))
    <3>1. Preventing(callstack[t]) = 0
      <4>1. SUFFICES ASSUME NEW e \in Seq(Acts), Len(e) = 0
                     PROVE  Preventing(e) = 0
        BY <1>3, <1>4, <2>1
      <4>2. \A i \in 1 .. Len(e) : ~Prevents(e[i])
        BY <4>1
      <4>3. QED
        BY <4>2, PreventingNone
    <3>2. SafesOf(cstack, t) = {}
      BY <1>3, <1>5 DEF SafesOf
    <3>3. Cardinality(SafesOf(cstack, t)) = 0
      BY <3>2, FS_EmptySet
    <3>4. QED
      BY <1>4, <2>1, <3>1, <3>3
  <2>2. QED
    BY <2>1 DEF CountInv
<1>10. JumpInv
  BY <1>5, JumpsMade DEF JumpInv
<1>11. ChainInv(rank)
  BY <1>2, <1>4, <1>5 DEF ChainInv
<1>12. CStackInv(rank)
  BY <1>3, <1>5 DEF CStackInv, SafeTopInv
<1>13. PendingInv(rank)
  BY <1>3, <1>4 DEF PendingInv
<1>14. Inv(rank)
  BY <1>6, <1>7, <1>8, <1>9, <1>10, <1>11, <1>12, <1>13 DEF Inv
<1>15. QED
  BY <1>1, <1>14 DEF IInv

\* Each action preserves the invariant.
LEMMA StepInv == IInv /\ [Next]_vars => IInv'
<1> SUFFICES ASSUME NEW rank \in Ranks, Inv(rank), [Next]_vars
             PROVE  IInv'
  BY DEF IInv
<1> USE DEF IInv
<1>1. CASE ProtectedCall
  BY <1>1, ProtectedCallStep
<1>2. CASE RunFinalizer
  BY <1>2, RunFinalizerStep
<1>3. CASE EnterExecutor
  BY <1>3, EnterStep
<1>4. ASSUME NEW kind \in {"ecma", "native"}, Call(kind)
      PROVE  IInv'
  BY <1>4, CallStep
<1>5. CASE NativeReturns
  <2>1. /\ InNative /\ UnwindTo(curr, Depth(curr) - 1)
        /\ UNCHANGED <<state, resumer, curr, cstack, native, lj, finalizer>>
    BY <1>5 DEF NativeReturns, threads
  <2>2. /\ InCode /\ Top(curr).kind = "native"
    BY <2>1 DEF InNative
  <2>3. /\ OnExecutor /\ lj.type = "none" /\ curr \in Thread /\ callstack[curr] # <<>>
        /\ Depth(curr) \in Nat /\ Depth(curr) >= 1 /\ Top(curr) = callstack[curr][Depth(curr)]
    BY <2>2, InCodeFacts
  <2>4. ~IsEntry(curr)
    BY <2>2, <2>3, OnExecutorFacts
  <2>5. Depth(curr) >= 2
    <3>1. callstack[curr][1].kind = "ecma"
      BY <2>3 DEF Inv, RestInv
    <3>2. QED
      BY <2>2, <2>3, <3>1
  <2>6. QED
    BY <2>1, <2>3, <2>4, <2>5, DropStep
<1>6. CASE Raise
  <2>1. /\ InCode \/ InProtected
        /\ lj' = Throw
        /\ UNCHANGED <<state, resumer, curr, callstack, preventcount, cstack, native, finalizer>>
    BY <1>6 DEF Raise, InEcma, InNative, threads, stacks
  <2>2. QED
    BY <2>1, RaiseStep
<1>7. CASE SafeReturns
  BY <1>7, LeavesStep DEF SafeReturns, InProtected, Quiet
<1>8. ASSUME NEW cat \in Catching, Try(cat)
      PROVE  IInv'
  <2>1. /\ InCode /\ Top(curr).kind = "ecma" /\ SetCat(curr, cat)
        /\ UNCHANGED <<state, resumer, curr, preventcount, cstack, native, lj, finalizer>>
    BY <1>8 DEF Try, InEcma, threads
  <2>2. OnExecutor /\ callstack[curr] # <<>> /\ ~Falling /\ lj' = NoJump
    BY <2>1, InCodeFacts
  <2>3. cat \in {"none", "catch", "finally", "throwing", "returning"}
    BY <1>8 DEF Catching
  <2>4. QED
    BY <2>1, <2>2, <2>3, CatStep
<1>9. CASE EndTry
  <2>1. /\ InCode /\ Top(curr).kind = "ecma" /\ SetCat(curr, "none")
        /\ UNCHANGED <<state, resumer, curr, preventcount, cstack, native, lj, finalizer>>
    BY <1>9 DEF EndTry, InEcma, threads
  <2>2. OnExecutor /\ callstack[curr] # <<>> /\ ~Falling /\ lj' = NoJump
    BY <2>1, InCodeFacts
  <2>3. QED
    BY <2>1, <2>2, CatStep
<1>10. CASE Return
  BY <1>10, ReturnStep DEF Return
<1>11. CASE EndFinally
  <2>1. CASE ReturnTo(curr) /\ UNCHANGED lj
    BY <1>11, <2>1, ReturnStep DEF EndFinally
  <2>2. CASE lj' = Throw /\ UNCHANGED <<threads, stacks>>
    <3>1. /\ InCode
          /\ UNCHANGED <<state, resumer, curr, callstack, preventcount, cstack, native, finalizer>>
      BY <1>11, <2>2 DEF EndFinally, InEcma, threads, stacks
    <3>2. QED
      BY <2>2, <3>1, RaiseStep
  <2>3. QED
    BY <1>11, <2>1, <2>2 DEF EndFinally
<1>12. ASSUME NEW t \in Thread, NEW b \in BOOLEAN, New(t, b)
       PROVE  IInv'
  BY <1>12, NewStep
<1>13. ASSUME NEW t \in Thread, NEW b \in BOOLEAN, CallResume(t, b)
       PROVE  IInv'
  BY <1>13, CallResumeStep
<1>14. ASSUME NEW b \in BOOLEAN, CallYield(b)
       PROVE  IInv'
  BY <1>14, CallYieldStep
<1>15. CASE LongjmpFromThread
  BY <1>15, LongjmpStep
<1>16. CASE ResumeError \/ ResumeValue
  <2>1. IInv'
    BY <1>16, ResumesStep
  <2>2. QED
    BY <2>1
<1>17. CASE YieldError \/ YieldValue
  BY <1>17, YieldStep
<1>18. CASE ThrowCaught
  BY <1>18, CaughtStep
<1>19. CASE ThrowUnwinds
  BY <1>19, UnwindsStep
<1>20. CASE ThrowTerminates
  BY <1>20, TerminateStep
<1>21. CASE SafeCatches
  <2>1. cstack # <<>>
    BY <1>21 DEF SafeCatches, Inv, JumpInv
  <2>2. QED
    BY <1>21, <2>1, LeavesStep DEF SafeCatches
<1>22. CASE UNCHANGED vars
  <2>1. UNCHANGED <<state, resumer, callstack, preventcount, native, curr, cstack, lj, finalizer>>
    BY <1>22 DEF vars, threads, stacks
  <2>2. /\ TypeInv' /\ RestInv' /\ EntryInv' /\ CountInv' /\ JumpInv'
        /\ ChainInv(rank)' /\ CStackInv(rank)' /\ PendingInv(rank)'
    BY <2>1 DEF Inv, TypeInv, RestInv, EntryInv, CountInv, JumpInv, ChainInv, CStackInv, PendingInv,
       RefusedInv, CatchInv, LinkInv, OrderInv, SafeTopInv, PendingAt, Failed, Active, OnExecutor,
       Falling, Innermost, Top, Depth
  <2>3. QED
    BY <2>2 DEF Inv
<1>23. QED
  BY <1>1, <1>2, <1>3, <1>4, <1>5, <1>6, <1>7, <1>8, <1>9, <1>10, <1>11, <1>12, <1>13,
     <1>14, <1>15, <1>16, <1>17, <1>18, <1>19, <1>20, <1>21, <1>22 DEF Next

\* Whatever the program calls, throws, resumes and yields, in whatever order: for
\* some ranking of the threads the invariant of the chain of resumers, of the
\* catchpoints and of the call stacks holds.
THEOREM Invariance == Spec => []IInv
<1>1. Init => IInv
  BY InitInv
<1>2. IInv /\ [Next]_vars => IInv'
  BY StepInv
<1>3. QED
  BY <1>1, <1>2, PTL DEF Spec

-----------------------------------------------------------------------------
(* What the runs check *)

\* The counter is a number because it counts.
LEMMA InvTypeOK == IInv => TypeOK
<1> SUFFICES ASSUME NEW rank \in Ranks, Inv(rank)
             PROVE  TypeOK
  BY DEF IInv
<1>0. TypeInv /\ CountInv
  BY DEF Inv
<1>1. ASSUME NEW t \in Thread, NEW i \in DOMAIN callstack[t]
      PROVE  /\ callstack[t][i].kind \in {"ecma", "native", "resume", "yield"}
             /\ callstack[t][i].cat # "none" => callstack[t][i].kind = "ecma"
             /\ callstack[t][i].to # None <=> callstack[t][i].kind = "resume"
  <2>1. callstack[t][i] \in Acts
    BY <1>0, <1>1, Types
  <2>2. QED
    BY <2>1 DEF Acts
<1>2. preventcount \in [Thread -> Nat]
  <2>1. ASSUME NEW t \in Thread
        PROVE  preventcount[t] \in Nat
    <3>1. callstack[t] \in Seq(Acts) /\ cstack \in Seq(Catches)
      BY <1>0, <2>1 DEF TypeInv
    <3>2. Preventing(callstack[t]) \in Nat /\ Cardinality(SafesOf(cstack, t)) \in Nat
      BY <2>1, <3>1, PreventingCounts, SafesCount
    <3>3. preventcount[t] = Preventing(callstack[t]) + Cardinality(SafesOf(cstack, t))
      BY <1>0, <2>1 DEF CountInv
    <3>4. QED
      BY <3>2, <3>3
  <2>2. QED
    BY <1>0, <2>1 DEF TypeInv
<1>3. \A i \in DOMAIN cstack : cstack[i].thr \in Thread
  BY <1>0, Types DEF Catches
<1>4. lj.type \in {"none", "resume", "yield", "throw"}
  BY <1>0 DEF TypeInv, Jumps
<1>5. QED
  BY <1>0, <1>1, <1>2, <1>3, <1>4 DEF TypeOK, TypeInv

\* duk_hthread and duk_heap keep their state in its ranges: the count of what
\* forbids a yield never goes below zero (duktape.c, duk_hthread_activation_unwind
\* and duk_handle_safe_call take from it), only ECMAScript activations have
\* catchers, only calls of resume() name a thread.
THEOREM TypesKept == Spec => []TypeOK
BY Invariance, InvTypeOK, PTL

\* The chain says who waits for whom.
LEMMA InvResumersWait == IInv => ResumersWait
<1> SUFFICES ASSUME NEW rank \in Ranks, Inv(rank)
             PROVE  ResumersWait
  BY DEF IInv
<1>1. ChainInv(rank)
  BY DEF Inv
<1>2. QED
  BY <1>1 DEF ChainInv, ResumersWait, Active

\* The threads being run are a chain from the heap thread to the current one, each
\* waiting in the very call of resume() that names the next (duk__handle_longjmp,
\* duk__handle_return): no interleaving of resumes, yields, errors, returns and
\* native calls gives a thread two resumers, a resumer that does something else, or
\* none.
THEOREM AnswersHaveOnePlace == Spec => []ResumersWait
BY Invariance, InvResumersWait, PTL

\* The count, and where each catchpoint lies.
LEMMA InvYieldsLeaveNoC == IInv => YieldsLeaveNoC
<1> SUFFICES ASSUME NEW rank \in Ranks, Inv(rank)
             PROVE  YieldsLeaveNoC
  BY DEF IInv
<1>0. TypeInv /\ CountInv /\ CStackInv(rank)
  BY DEF Inv
<1>1. DOMAIN cstack = 1 .. Len(cstack)
  BY <1>0, Types
<1>2. ASSUME NEW t \in Thread
      PROVE  preventcount[t] = Preventing(callstack[t])
               + Cardinality({i \in DOMAIN cstack : cstack[i].kind = "safe" /\ cstack[i].thr = t})
  BY <1>0, <1>1, <1>2 DEF CountInv, SafesOf
<1>3. ASSUME NEW i \in DOMAIN cstack
      PROVE  /\ state[cstack[i].thr] \in {"running", "resumed"}
             /\ cstack[i].depth <= Depth(cstack[i].thr)
             /\ cstack[i].kind = "executor" =>
                  callstack[cstack[i].thr][cstack[i].depth].entry
  <2>1. CatchInv(i)
    BY <1>0, <1>3 DEF CStackInv
  <2>2. QED
    BY <2>1 DEF CatchInv, Active
<1>4. QED
  BY <1>2, <1>3 DEF YieldsLeaveNoC

\* callstack_preventcount is exactly the number of activations and protected calls
\* of the thread that could not be left and come back to, on the path of an error
\* as on the path of a return, so the check of yield() lets no thread go that has
\* left something on the C stack.
THEOREM YieldsCanBeLeft == Spec => []YieldsLeaveNoC
BY Invariance, InvYieldsLeaveNoC, PTL

-----------------------------------------------------------------------------
(* What an unwinding drops *)

\* Only an unwinding and the end of a protected call drop activations while an error
\* is under way, and each drops what has no handler.
LEMMA UnwindKeepsHandlers ==
  ASSUME IInv, Next, lj.type = "throw",
         NEW t \in Thread, NEW i \in DOMAIN callstack[t], i > Len(callstack'[t])
  PROVE  callstack[t][i].cat \notin Catching
<1> SUFFICES ASSUME NEW rank \in Ranks, Inv(rank)
             PROVE  callstack[t][i].cat \notin Catching
  BY DEF IInv
<1>0. TypeInv /\ CStackInv(rank) /\ JumpInv
  BY DEF Inv
<1>1. /\ Depth(t) \in Nat /\ i \in 1 .. Depth(t) /\ Depth(t) = Len(callstack[t])
      /\ callstack[t] \in Seq(Acts) /\ callstack \in [Thread -> Seq(Acts)]
      /\ callstack[t] # <<>>
  BY <1>0, Types DEF Depth, TypeInv
<1>2. callstack' # callstack
  <2>1. SUFFICES ASSUME callstack' = callstack
                 PROVE  FALSE
    OBVIOUS
  <2>2. QED
    BY <1>1, <2>1
<1>3. lj # NoJump
  BY JumpsMade
<1>4. ThrowCaught \/ ThrowUnwinds \/ SafeCatches
  <2>1. ~Quiet
    BY <1>3 DEF Quiet
  <2>2. ~InCode /\ ~InEcma /\ ~InNative /\ ~InProtected /\ ~InHandler
    BY <2>1 DEF InCode, InEcma, InNative, InProtected, InHandler
  <2>3. ~Handling("resume") /\ ~Handling("yield")
    BY DEF Handling
  <2>4. ~ProtectedCall /\ ~RunFinalizer
    BY <1>3, <2>2 DEF ProtectedCall, RunFinalizer
  <2>5. ~ThrowTerminates
    BY <1>2 DEF ThrowTerminates, stacks
  <2>6. ~EnterExecutor /\ ~NativeReturns /\ ~Raise /\ ~SafeReturns /\ ~EndTry /\ ~Return /\ ~EndFinally
        /\ ~LongjmpFromThread
    BY <2>2 DEF EnterExecutor, NativeReturns, Raise, SafeReturns, EndTry, Return, EndFinally,
                LongjmpFromThread
  <2>7. ~ResumeError /\ ~ResumeValue /\ ~YieldError /\ ~YieldValue
    BY <2>3 DEF ResumeError, ResumeValue, YieldError, YieldValue
  <2>8. \A kind : ~Call(kind)
    BY <2>2 DEF Call
  <2>9. \A u, b : ~New(u, b) /\ ~CallResume(u, b) /\ ~CallYield(b) /\ ~Try(b)
    BY <2>2 DEF New, CallResume, CallYield, Try
  <2>10. QED
    BY <2>4, <2>5, <2>6, <2>7, <2>8, <2>9 DEF Next
<1>5. CASE ThrowCaught
  <2>1. SetCat(curr, "none") \/ SetCat(curr, "throwing")
    BY <1>5 DEF ThrowCaught
  <2>2. curr \in Thread /\ callstack[curr] # <<>> /\ Depth(curr) \in DOMAIN callstack[curr]
        /\ callstack[curr] \in Seq(Acts)
    BY <1>0, <1>5, HandlingFacts, Types DEF ThrowCaught
  <2>3. ASSUME NEW cat, SetCat(curr, cat)
        PROVE  Len(callstack'[t]) = Len(callstack[t])
    <3>1. callstack' = [callstack EXCEPT ![curr] = [@ EXCEPT ![Depth(curr)].cat = cat]]
      BY <2>3 DEF SetCat
    <3>2. CASE t # curr
      BY <1>1, <3>1, <3>2
    <3>3. CASE t = curr
      <4>1. callstack'[t] = [callstack[curr] EXCEPT ![Depth(curr)].cat = cat]
        BY <1>1, <2>2, <3>1, <3>3
      <4>2. DOMAIN callstack'[t] = DOMAIN callstack[curr]
        BY <4>1
      <4>3. QED
        BY <1>1, <2>2, <3>3, <4>1, <4>2
    <3>4. QED
      BY <3>2, <3>3
  <2>4. Len(callstack'[t]) = Depth(t)
    BY <1>1, <2>1, <2>3
  <2>5. QED
    BY <1>1, <2>4
<1>6. CASE ThrowUnwinds
  <2>1. /\ UnwindTo(curr, Depth(curr) - 1) /\ Top(curr).cat \notin Catching
        /\ Handling("throw") /\ callstack[curr] # <<>>
    BY <1>2, <1>6 DEF ThrowUnwinds
  <2>2. /\ curr \in Thread /\ Depth(curr) \in Nat /\ Depth(curr) >= 1
        /\ Top(curr) = callstack[curr][Depth(curr)]
    BY <2>1, HandlingFacts
  <2>3. Depth(curr) - 1 \in 0 .. Depth(curr)
    BY <2>2
  <2>4. PICK s \in Seq(Acts) :
          Len(s) = Depth(curr) - 1 /\ callstack' = [callstack EXCEPT ![curr] = s]
    BY <1>0, <2>1, <2>2, <2>3, UnwindForm
  <2>5. t = curr
    <3>1. SUFFICES ASSUME t # curr
                   PROVE  FALSE
      OBVIOUS
    <3>2. callstack'[t] = callstack[t]
      BY <1>1, <2>4, <3>1
    <3>3. QED
      BY <1>1, <3>2
  <2>6. callstack'[t] = s
    BY <1>1, <2>2, <2>4, <2>5
  <2>7. i = Depth(curr)
    BY <1>1, <2>2, <2>4, <2>5, <2>6
  <2>8. QED
    BY <2>1, <2>2, <2>5, <2>7
<1>7. CASE SafeCatches
  <2>1. cstack # <<>> /\ Innermost.kind = "safe" /\ LeaveSafe
    BY <1>0, <1>7 DEF SafeCatches, JumpInv
  <2>2. SUFFICES ASSUME NEW n, n = Len(cstack)
                 PROVE  callstack[t][i].cat \notin Catching
    OBVIOUS
  <2>3. n \in DOMAIN cstack /\ Innermost = cstack[n] /\ cstack[n] \in Catches
    BY <1>0, <2>1, <2>2, Types DEF Innermost
  <2>4. RefusedInv(n) /\ CatchInv(n) /\ SafeTopInv
    BY <1>0, <2>3 DEF CStackInv
  <2>5. Innermost.depth <= Depth(Innermost.thr) /\ Innermost.thr \in Thread /\ Innermost.depth \in Nat
    BY <2>3, <2>4 DEF CatchInv, Catches
  <2>6. CountInv
    BY DEF Inv
  <2>7. /\ Len(callstack'[Innermost.thr]) = Innermost.depth
        /\ \A u \in Thread \ {Innermost.thr} : callstack'[u] = callstack[u]
    BY <1>0, <2>1, <2>5, <2>6, LeaveSafeStacks
  <2>8. t = Innermost.thr
    <3>1. SUFFICES ASSUME t # Innermost.thr
                   PROVE  FALSE
      OBVIOUS
    <3>2. callstack'[t] = callstack[t]
      BY <2>7, <3>1
    <3>3. QED
      BY <1>1, <3>2
  <2>9. i > Innermost.depth
    BY <2>7, <2>8
  <2>10. CASE Refused(Innermost)
    <3>1. Innermost.depth = Depth(t)
      BY <2>3, <2>4, <2>8, <2>10 DEF RefusedInv
    <3>2. QED
      BY <1>1, <2>9, <3>1
  <2>11. CASE ~Refused(Innermost)
    <3>1. /\ t = curr
          /\ \/ Depth(curr) = Innermost.depth
             \/ Depth(curr) = Innermost.depth + 1 /\ Top(curr).cat \notin Catching
      BY <2>1, <2>4, <2>8, <2>11 DEF SafeTopInv
    <3>2. Depth(curr) = Innermost.depth + 1 /\ i = Depth(curr)
      BY <1>1, <2>5, <2>9, <3>1
    <3>3. Top(curr).cat \notin Catching
      <4>1. Depth(curr) # Innermost.depth
        BY <1>1, <2>5, <2>9, <3>1
      <4>2. QED
        BY <3>1, <4>1
    <3>4. callstack[t][i] = Top(curr)
      BY <3>1, <3>2 DEF Top
    <3>5. QED
      BY <3>3, <3>4
  <2>12. QED
    BY <2>10, <2>11
<1>8. QED
  BY <1>4, <1>5, <1>6, <1>7

\* An error that unwinds drops no activation that would have caught it: neither the
\* longjmp to an executor, nor the end of a coroutine, nor the C stack of a
\* protected call skips a catch or a finally.
THEOREM HandlersTakeErrors == Spec => HandlersNotPassed
<1>1. IInv /\ [Next]_vars =>
        [lj.type = "throw" =>
           \A t \in Thread : \A i \in DOMAIN callstack[t] :
             (i > Len(callstack'[t])) => callstack[t][i].cat \notin Catching]_vars
  <2>1. SUFFICES ASSUME IInv, Next, lj.type = "throw",
                        NEW t \in Thread, NEW i \in DOMAIN callstack[t], i > Len(callstack'[t])
                 PROVE  callstack[t][i].cat \notin Catching
    OBVIOUS
  <2>2. QED
    BY <2>1, UnwindKeepsHandlers
<1>2. QED
  BY <1>1, Invariance, PTL DEF Spec, HandlersNotPassed

-----------------------------------------------------------------------------
(* Resumes with a value *)

\* A call of resume() with a value, which nothing runs inside of: no error handler.
ValueResume(t, d) ==
  d \in DOMAIN callstack[t] /\ callstack[t][d].kind = "resume" /\ ~callstack[t][d].iserror

Ready(t) == state[t] \in {"inactive", "yielded"}

\* No protected call is made from inside one, and a coroutine makes them from an
\* activation of its own.
SafeAt(i) ==
  LET c == cstack[i]
  IN  c.kind = "safe" =>
        /\ c.thr # Main => c.depth >= 1
        /\ c.curr # None =>
             ~ValueResume(c.curr, IF Refused(c) THEN Depth(c.curr) ELSE c.depth)

OnTop == \A t \in Thread : \A d \in DOMAIN callstack[t] : ValueResume(t, d) => d = Depth(t)

\* So what its checks found of the thread it resumes still holds when its longjmp
\* arrives.  Of a resume with an error this says nothing: an errThrow handler may have
\* resumed the thread meanwhile, and duktape.c:78464-78474 asserts too much.
ValueInv ==
  /\ \A i \in DOMAIN cstack : SafeAt(i)
  /\ OnTop
  /\ curr # None /\ ~Falling /\ ValueResume(curr, Depth(curr)) => Ready(Top(curr).to)
  /\ lj.type = "resume" => lj.iserror = Top(curr).iserror

\* A step changes no more than the cat of an activation that stays.
Alike(a, b) == a.kind = b.kind /\ a.iserror = b.iserror /\ a.to = b.to
StacksAlike ==
  \A t \in Thread : \A d \in DOMAIN callstack[t] :
    d \in DOMAIN callstack'[t] => Alike(callstack[t][d], callstack'[t][d])
StacksCut == StacksAlike /\ \A t \in Thread : Len(callstack'[t]) <= Len(callstack[t])

\* What a resume with a value is after a step, it was before.
LEMMA ValueResumeWas ==
  ASSUME StacksAlike, NEW t \in Thread, NEW d \in DOMAIN callstack[t],
         ValueResume(t, d)'
  PROVE  ValueResume(t, d)
BY DEF StacksAlike, Alike, ValueResume

\* A catchpoint that stays.
LEMMA SafeKept ==
  ASSUME NEW rank \in Ranks, Inv(rank), ValueInv, TypeInv', StacksAlike,
         NEW i \in DOMAIN cstack, cstack'[i] = cstack[i], ~Refused(cstack[i])
  PROVE  SafeAt(i)'
<1> SUFFICES ASSUME NEW c, c = cstack[i], c.kind = "safe"
             PROVE  /\ c.thr # Main => c.depth >= 1
                    /\ c.curr # None => ~ValueResume(c.curr, c.depth)'
  BY DEF SafeAt, Refused
<1>0. TypeInv /\ CatchInv(i) /\ SafeAt(i)
  BY DEF Inv, CStackInv, ValueInv
<1>1. c \in Catches
  BY <1>0, Types
<1>2. c.thr # Main => c.depth >= 1
  BY <1>0 DEF SafeAt
<1>3. ASSUME c.curr # None, ValueResume(c.curr, c.depth)'
      PROVE  FALSE
  <2>1. c.curr = c.thr /\ c.thr \in Thread /\ ~ValueResume(c.thr, c.depth)
    BY <1>0, <1>1, <1>3 DEF SafeAt, Refused, Catches
  <2>2. c.depth <= Depth(c.thr) /\ c.depth \in Nat
    BY <1>0, <1>1 DEF CatchInv, Catches
  <2>3. c.depth \in DOMAIN callstack'[c.thr]
    BY <1>3, <2>1 DEF ValueResume
  <2>4. c.depth >= 1
    <3>1. callstack'[c.thr] \in Seq(Acts)
      BY <2>1 DEF TypeInv
    <3>2. QED
      BY <2>3, <3>1, LenProperties
  <2>5. c.depth \in DOMAIN callstack[c.thr]
    BY <1>0, <2>1, <2>2, <2>4, Types
  <2>6. QED
    BY <1>3, <2>1, <2>5, ValueResumeWas
<1>4. QED
  BY <1>2, <1>3

\* What stays on a stack that was cut was on top if it is a resume with a value.
LEMMA CutOnTop ==
  ASSUME TypeInv, OnTop, TypeInv', StacksCut
  PROVE  /\ OnTop'
         /\ \A t \in Thread : Len(callstack'[t]) < Len(callstack[t]) =>
              \A d \in DOMAIN callstack'[t] : ~ValueResume(t, d)'
<1>1. ASSUME NEW t \in Thread, NEW d \in DOMAIN callstack'[t], ValueResume(t, d)'
      PROVE  d = Len(callstack'[t]) /\ Len(callstack'[t]) = Len(callstack[t])
  <2>1. /\ Len(callstack[t]) \in Nat /\ DOMAIN callstack[t] = 1 .. Len(callstack[t])
        /\ Len(callstack'[t]) \in Nat /\ DOMAIN callstack'[t] = 1 .. Len(callstack'[t])
    <3>1. callstack[t] \in Seq(Acts) /\ callstack'[t] \in Seq(Acts)
      BY DEF TypeInv
    <3>2. QED
      BY <3>1, LenProperties
  <2>2. Len(callstack'[t]) <= Len(callstack[t])
    BY DEF StacksCut
  <2>3. d \in DOMAIN callstack[t]
    BY <1>1, <2>1, <2>2
  <2>4. ValueResume(t, d)
    BY <1>1, <2>3, ValueResumeWas DEF StacksCut
  <2>5. d = Len(callstack[t])
    BY <2>3, <2>4 DEF OnTop, Depth
  <2>6. QED
    BY <1>1, <2>1, <2>2, <2>5
<1>2. OnTop'
  BY <1>1 DEF OnTop, Depth
<1>3. ASSUME NEW t \in Thread, Len(callstack'[t]) < Len(callstack[t]),
             NEW d \in DOMAIN callstack'[t], ValueResume(t, d)'
      PROVE  FALSE
  <2>1. Len(callstack'[t]) = Len(callstack[t])
    BY <1>1, <1>3
  <2>2. callstack[t] \in Seq(Acts)
    BY DEF TypeInv
  <2>3. Len(callstack[t]) \in Nat
    BY <2>2, LenProperties
  <2>4. QED
    BY <1>3, <2>1, <2>3
<1>4. QED
  BY <1>2, <1>3

\* A step that cuts stacks, if any, and catchpoints, if any.
LEMMA ValueCut ==
  ASSUME NEW rank \in Ranks, Inv(rank), ValueInv, TypeInv', StacksCut,
         \A i \in DOMAIN cstack' :
           i \in DOMAIN cstack /\ cstack'[i] = cstack[i] /\ ~Refused(cstack[i]),
         lj'.type # "resume",
         lj'.type = "throw" \/ curr' = None \/ ~ValueResume(curr, Depth(curr))'
  PROVE  ValueInv'
<1>1. \A i \in DOMAIN cstack' : SafeAt(i)'
  BY SafeKept DEF StacksCut
<1>2. OnTop'
  BY CutOnTop DEF Inv, ValueInv
<1>3. QED
  BY <1>1, <1>2 DEF ValueInv, Falling

\* A call that is begun, with an executor for it or not.
LEMMA ValuePush ==
  ASSUME NEW rank \in Ranks, Inv(rank), ValueInv, TypeInv',
         NEW t \in Thread, NEW a \in Acts, callstack' = [callstack EXCEPT ![t] = Append(@, a)],
         ~ValueResume(t, Depth(t)),
         \A i \in DOMAIN cstack' :
           \/ i \in DOMAIN cstack /\ cstack'[i] = cstack[i] /\ ~Refused(cstack[i])
           \/ cstack'[i].kind # "safe",
         curr' = t, lj'.type # "resume",
         lj'.type = "throw" \/ a.kind # "resume" \/ a.iserror \/ Ready(a.to)'
  PROVE  ValueInv'
<1>0. TypeInv /\ OnTop
  BY DEF Inv, ValueInv
<1>1. /\ callstack[t] \in Seq(Acts) /\ Depth(t) \in Nat /\ DOMAIN callstack[t] = 1 .. Depth(t)
      /\ Depth(t) = Len(callstack[t])
  BY <1>0, Types DEF Depth
<1>2. /\ Len(callstack'[t]) = Depth(t) + 1 /\ DOMAIN callstack'[t] = 1 .. Depth(t) + 1
      /\ callstack'[t][Depth(t) + 1] = a
      /\ \A d \in 1 .. Depth(t) : callstack'[t][d] = callstack[t][d]
  <2>1. callstack'[t] = Append(callstack[t], a)
    BY <1>0 DEF TypeInv
  <2>2. QED
    BY <1>1, <2>1, AppendProperties, LenProperties
<1>3. \A u \in Thread \ {t} : callstack'[u] = callstack[u]
  BY <1>0 DEF TypeInv
<1>4. StacksAlike
  <2>1. \A u \in Thread : \A d \in DOMAIN callstack[u] : callstack'[u][d] = callstack[u][d]
    BY <1>1, <1>2, <1>3
  <2>2. QED
    BY <2>1 DEF StacksAlike, Alike
<1>5. \A i \in DOMAIN cstack' : SafeAt(i)'
  <2>1. \A i : cstack'[i].kind # "safe" => SafeAt(i)'
    BY DEF SafeAt
  <2>2. QED
    BY <1>4, <2>1, SafeKept
<1>6. OnTop'
  <2>1. SUFFICES ASSUME NEW u \in Thread, NEW d \in DOMAIN callstack'[u], ValueResume(u, d)'
                 PROVE  d = Len(callstack'[u])
    BY DEF OnTop, Depth
  <2>2. CASE u # t
    <3>1. callstack'[u] = callstack[u]
      BY <1>3, <2>2
    <3>2. ValueResume(u, d)
      BY <2>1, <3>1 DEF ValueResume
    <3>3. QED
      BY <1>0, <3>1, <3>2 DEF OnTop, ValueResume, Depth
  <2>3. CASE u = t
    <3>1. d \in 1 .. Depth(t) + 1
      BY <1>2, <2>3
    <3>2. d # Depth(t) + 1 => FALSE
      <4>1. SUFFICES ASSUME d # Depth(t) + 1
                     PROVE  FALSE
        OBVIOUS
      <4>2. d \in 1 .. Depth(t)
        BY <1>1, <3>1, <4>1
      <4>3. ValueResume(t, d)
        BY <1>1, <1>4, <2>1, <2>3, <4>2, ValueResumeWas
      <4>4. d = Depth(t)
        BY <1>0, <4>3 DEF OnTop, ValueResume
      <4>5. QED
        BY <4>3, <4>4
    <3>3. QED
      BY <1>2, <2>3, <3>2
  <2>4. QED
    BY <2>2, <2>3
<1>7. ASSUME lj'.type # "throw", ValueResume(t, Depth(t))'
      PROVE  Ready(Top(t).to)'
  <2>1. Top(t)' = a
    BY <1>2 DEF Top, Depth
  <2>2. a.kind = "resume" /\ ~a.iserror
    BY <1>2, <1>7 DEF ValueResume, Depth
  <2>3. Ready(a.to)'
    BY <1>7, <2>2
  <2>4. Top(t)'.to = a.to
    BY <2>1
  <2>5. Ready(Top(t).to)' <=> Ready(a.to)'
    BY <2>1 DEF Ready
  <2>6. QED
    BY <2>3, <2>5
<1>8. curr' # None /\ ~Falling' /\ ValueResume(curr, Depth(curr))' => Ready(Top(curr).to)'
  BY <1>7 DEF Falling, Depth, ValueResume, Ready, Top
<1>9. QED
  BY <1>5, <1>6, <1>8 DEF ValueInv

\* A protected call that is begun, or refused.
LEMMA ValueSafe ==
  ASSUME NEW rank \in Ranks, Inv(rank), ValueInv, TypeInv',
         NEW t \in Thread, NEW what, StartSafe(t, what),
         curr = None \/ Quiet, curr = None => t = Main,
         t # Main => t = curr /\ Depth(t) >= 1,
         curr # None => ~ValueResume(curr, Depth(curr))
  PROVE  ValueInv'
<1> SUFFICES ASSUME NEW n, n = Len(cstack), NEW c, c = Catchpoint("safe", t, Depth(t), what)
             PROVE  ValueInv'
  OBVIOUS
<1>0. TypeInv /\ RestInv /\ ChainInv(rank) /\ CStackInv(rank)
  BY DEF Inv
<1>1. n \in Nat /\ cstack \in Seq(Catches) /\ DOMAIN cstack = 1 .. n
  BY <1>0, Types DEF TypeInv
<1>2. cstack' = Append(cstack, c) /\ callstack' = callstack
  BY DEF StartSafe
<1>3. /\ Len(cstack') = n + 1 /\ DOMAIN cstack' = 1 .. n + 1 /\ cstack'[n + 1] = c
      /\ \A i \in 1 .. n : cstack'[i] = cstack[i]
  <2>1. cstack' \in Seq(Catches)
    BY DEF TypeInv
  <2>2. \A i \in 1 .. n + 1 : cstack'[i] = IF i = n + 1 THEN c ELSE cstack[i]
    BY <1>1, <1>2
  <2>3. Len(cstack') = n + 1
    BY <1>1, <1>2
  <2>4. QED
    BY <1>1, <2>1, <2>2, <2>3, LenProperties
<1>4. StacksCut
  BY <1>0, <1>2, Types DEF StacksCut, StacksAlike, Alike, Depth
<1>5. \A i \in 1 .. n : ~Refused(cstack[i])
  <2>1. CASE curr = None
    <3>1. n = 0
      BY <1>0, <2>1, Types DEF CStackInv
    <3>2. QED
      BY <3>1
  <2>2. CASE Quiet
    BY <2>2, QuietFacts
  <2>3. QED
    BY <2>1, <2>2
<1>6. ASSUME NEW i \in DOMAIN cstack'
      PROVE  SafeAt(i)'
  <2>1. CASE i \in 1 .. n
    BY <1>1, <1>3, <1>4, <1>5, <2>1, SafeKept DEF StacksCut
  <2>2. CASE i = n + 1
    <3>1. /\ cstack'[i] = c /\ c.thr = t /\ c.depth = Depth(t) /\ c.curr = curr
      BY <1>3, <2>2 DEF Catchpoint
    <3>2. c.curr # None => ~ValueResume(c.curr, Depth(c.curr))'
      BY <1>2, <3>1 DEF ValueResume, Depth
    <3>3. Refused(c) \/ c.curr = None \/ (curr = t /\ c.depth = Depth(curr))
      BY <3>1 DEF Refused
    <3>4. ~ValueResume(c.curr, c.depth)' \/ Refused(c) \/ c.curr = None
      BY <1>2, <3>1, <3>3 DEF ValueResume, Depth
    <3>6. c.thr # Main => c.depth >= 1
      BY <3>1
    <3>7. c.curr # None => IF Refused(c) THEN ~ValueResume(c.curr, Depth(c.curr))'
                                         ELSE ~ValueResume(c.curr, c.depth)'
      BY <1>2, <3>1, <3>2, <3>4
    <3>8. QED
      BY <3>1, <3>6, <3>7 DEF SafeAt
  <2>3. QED
    BY <1>1, <1>3, <2>1, <2>2
<1>7. OnTop'
  BY <1>0, <1>4, CutOnTop DEF ValueInv
<1>8. lj'.type = "throw" \/ (curr' = t /\ Callable(t) /\ lj' = NoJump)
  BY JumpsMade DEF StartSafe
<1>9. lj'.type # "resume"
  BY JumpsMade DEF StartSafe
<1>10. curr' = t /\ Callable(t) => ~ValueResume(t, Depth(t))'
  <2>1. CASE t = curr
    BY <1>2, <2>1, NoneIsNoThread DEF ValueResume, Depth
  <2>2. CASE t # curr /\ Callable(t)
    <3>1. state[t] = "inactive"
      BY <2>2 DEF Callable
    <3>2. callstack[t] = <<>>
      BY <1>0, <3>1 DEF RestInv, Active
    <3>3. callstack'[t] = <<>>
      BY <1>2, <3>2
    <3>4. DOMAIN callstack'[t] = {}
      BY <3>3, EmptySeq
    <3>5. QED
      BY <3>4 DEF ValueResume
  <2>3. QED
    BY <2>1, <2>2
<1>11. ~(curr' # None /\ ~Falling' /\ ValueResume(curr, Depth(curr))')
  BY <1>8, <1>10 DEF Falling, ValueResume, Depth
<1>12. QED
  BY <1>6, <1>7, <1>9, <1>11 DEF ValueInv

\* An unwinding cuts one stack.
LEMMA UnwindCuts ==
  ASSUME TypeInv, NEW t \in Thread, NEW depth \in 0 .. Depth(t), UnwindTo(t, depth)
  PROVE  /\ StacksCut /\ Len(callstack'[t]) = depth
         /\ \A u \in Thread \ {t} : callstack'[u] = callstack[u]
         /\ callstack' \in [Thread -> Seq(Acts)]
<1>1. PICK s \in Seq(Acts) :
        /\ Len(s) = depth
        /\ \A d \in 1 .. depth : s[d] = callstack[t][d]
        /\ callstack' = [callstack EXCEPT ![t] = s]
  BY UnwindForm
<1>2. /\ callstack'[t] = s /\ \A u \in Thread \ {t} : callstack'[u] = callstack[u]
      /\ callstack' \in [Thread -> Seq(Acts)]
  BY <1>1 DEF TypeInv
<1>3. DOMAIN s = 1 .. depth /\ depth \in Nat /\ depth <= Len(callstack[t])
  BY <1>1, LenProperties, Types DEF Depth
<1>4. ASSUME NEW u \in Thread
      PROVE  /\ Len(callstack'[u]) <= Len(callstack[u])
             /\ \A d \in DOMAIN callstack[u] :
                  d \in DOMAIN callstack'[u] => callstack'[u][d] = callstack[u][d]
  <2>1. CASE u = t
    BY <1>1, <1>2, <1>3, <2>1
  <2>2. CASE u # t
    <3>1. callstack'[u] = callstack[u] /\ Len(callstack[u]) \in Nat
      BY <1>2, <2>2, Types DEF Depth
    <3>2. QED
      BY <3>1
  <2>3. QED
    BY <2>1, <2>2
<1>5. QED
  BY <1>1, <1>2, <1>4 DEF StacksCut, StacksAlike, Alike

\* A try, a finally or a catch changes the cat of the activation on top.
LEMMA CatCuts ==
  ASSUME TypeInv, curr \in Thread, callstack[curr] # <<>>, NEW cat, SetCat(curr, cat)
  PROVE  /\ StacksCut /\ Len(callstack'[curr]) = Depth(curr)
         /\ callstack'[curr][Depth(curr)].kind = Top(curr).kind
         /\ callstack'[curr] # <<>>
         /\ \A u \in Thread \ {curr} : callstack'[u] = callstack[u]
<1> SUFFICES ASSUME NEW t, t = curr, NEW n, n = Depth(curr)
             PROVE  /\ StacksCut /\ Len(callstack'[t]) = n
                    /\ callstack'[t][n].kind = Top(t).kind
                    /\ callstack'[t] # <<>>
                    /\ \A u \in Thread \ {t} : callstack'[u] = callstack[u]
  OBVIOUS
<1>1. /\ t \in Thread /\ n \in 1 .. n /\ n = Len(callstack[t]) /\ callstack[t] \in Seq(Acts)
      /\ DOMAIN callstack[t] = 1 .. n
      /\ \A d \in 1 .. n : callstack[t][d] \in Acts
  BY Types DEF Depth
<1>2. callstack' = [callstack EXCEPT ![t] = [@ EXCEPT ![n].cat = cat]]
  BY DEF SetCat
<1>3. callstack'[t] = [callstack[t] EXCEPT ![n].cat = cat]
      /\ \A u \in Thread \ {t} : callstack'[u] = callstack[u]
  BY <1>1, <1>2 DEF TypeInv
<1>4. /\ DOMAIN callstack'[t] = 1 .. n
      /\ callstack'[t][n] = [callstack[t][n] EXCEPT !.cat = cat]
      /\ \A d \in 1 .. n : d # n => callstack'[t][d] = callstack[t][d]
  BY <1>1, <1>3
<1>5. Alike(callstack[t][n], callstack'[t][n])
  BY <1>1, <1>4 DEF Alike, Acts
<1>6. Len(callstack'[t]) = n
  BY <1>1, <1>3
<1>7. ASSUME NEW u \in Thread
      PROVE  /\ Len(callstack'[u]) <= Len(callstack[u])
             /\ \A d \in DOMAIN callstack[u] :
                  d \in DOMAIN callstack'[u] => Alike(callstack[u][d], callstack'[u][d])
  <2>1. CASE u = t
    <3>1. \A d \in 1 .. n : Alike(callstack[t][d], callstack'[t][d])
      BY <1>4, <1>5 DEF Alike
    <3>2. QED
      BY <1>1, <1>6, <2>1, <3>1
  <2>2. CASE u # t
    <3>1. callstack'[u] = callstack[u] /\ Len(callstack[u]) \in Nat
      BY <1>3, <2>2, Types DEF Depth
    <3>2. QED
      BY <3>1 DEF Alike
  <2>3. QED
    BY <2>1, <2>2
<1>8. callstack'[t][n].kind = Top(t).kind
  BY <1>5 DEF Alike, Top
<1>9. callstack'[t] # <<>>
  <2>1. DOMAIN callstack'[t] # {}
    BY <1>1, <1>4
  <2>2. QED
    BY <2>1, EmptySeq
<1>10. QED
  BY <1>3, <1>6, <1>7, <1>8, <1>9 DEF StacksCut, StacksAlike

\* Control comes back from a protected call: not to a resume with a value.
LEMMA ValueLeaves ==
  ASSUME NEW rank \in Ranks, Inv(rank), ValueInv, TypeInv',
         cstack # <<>>, Innermost.kind = "safe", LeaveSafe
  PROVE  ValueInv'
<1> SUFFICES ASSUME NEW n, n = Len(cstack), NEW c, c = Innermost
             PROVE  ValueInv'
  OBVIOUS
<1>0. TypeInv /\ CountInv /\ CStackInv(rank)
  BY DEF Inv
<1>1. /\ n \in Nat /\ n \in 1 .. n /\ DOMAIN cstack = 1 .. n /\ c = cstack[n] /\ c \in Catches
  BY <1>0, Types DEF Innermost
<1>2. CatchInv(n) /\ RefusedInv(n) /\ SafeAt(n) /\ \A i \in 1 .. n : RefusedInv(i)
  BY <1>0, <1>1 DEF CStackInv, ValueInv
<1>3. c.depth <= Depth(c.thr) /\ c.thr \in Thread /\ c.depth \in Nat
  BY <1>1, <1>2 DEF CatchInv, Catches
<1>4. /\ callstack' \in [Thread -> Seq(Acts)]
      /\ Len(callstack'[c.thr]) = c.depth
      /\ \A d \in 1 .. c.depth : callstack'[c.thr][d] = callstack[c.thr][d]
      /\ \A t \in Thread \ {c.thr} : callstack'[t] = callstack[t]
      /\ cstack' \in Seq(Catches) /\ Len(cstack') = n - 1
      /\ \A i \in 1 .. n - 1 : cstack'[i] = cstack[i]
  BY <1>0, <1>3, LeaveSafeStacks
<1>5. DOMAIN callstack'[c.thr] = 1 .. c.depth
  BY <1>3, <1>4, LenProperties
<1>6. ASSUME NEW u \in Thread
      PROVE  /\ Len(callstack'[u]) <= Len(callstack[u])
             /\ \A d \in DOMAIN callstack[u] :
                  d \in DOMAIN callstack'[u] => callstack'[u][d] = callstack[u][d]
  <2>1. CASE u = c.thr
    BY <1>3, <1>4, <1>5, <2>1 DEF Depth
  <2>2. CASE u # c.thr
    <3>1. callstack'[u] = callstack[u] /\ Len(callstack[u]) \in Nat
      BY <1>0, <1>4, <2>2, Types DEF Depth
    <3>2. QED
      BY <3>1
  <2>3. QED
    BY <2>1, <2>2
<1>7. StacksCut
  BY <1>6 DEF StacksCut, StacksAlike, Alike
<1>8. \A i \in DOMAIN cstack' :
        i \in DOMAIN cstack /\ cstack'[i] = cstack[i] /\ ~Refused(cstack[i])
  <2>1. DOMAIN cstack' = 1 .. n - 1
    BY <1>1, <1>4, LenProperties
  <2>2. \A i \in 1 .. n - 1 : i \in 1 .. n /\ i # n
    BY <1>1
  <2>3. \A i \in 1 .. n - 1 : ~Refused(cstack[i])
    BY <1>2, <2>2 DEF RefusedInv
  <2>4. QED
    BY <1>1, <1>4, <2>1, <2>2, <2>3
<1>9. lj' = NoJump /\ curr' = c.curr
  BY DEF LeaveSafe
<1>10. ASSUME c.curr # None, ValueResume(c.curr, Depth(c.curr))'
       PROVE  FALSE
  <2>1. c.curr \in Thread
    BY <1>1, <1>10 DEF Catches
  <2>2. CASE Refused(c)
    <3>1. callstack'[c.curr] = callstack[c.curr]
      BY <1>4, <2>1, <2>2 DEF Refused
    <3>2. ValueResume(c.curr, Depth(c.curr))
      BY <1>10, <3>1 DEF ValueResume, Depth
    <3>3. QED
      BY <1>1, <1>2, <1>10, <2>2, <3>2 DEF SafeAt
  <2>3. CASE ~Refused(c)
    <3>1. c.curr = c.thr /\ ~ValueResume(c.thr, c.depth)
      BY <1>1, <1>2, <1>10, <2>3 DEF SafeAt, Refused
    <3>2. ValueResume(c.thr, c.depth)'
      BY <1>4, <1>10, <3>1 DEF Depth, ValueResume
    <3>3. c.depth \in DOMAIN callstack[c.thr]
      <4>1. c.depth \in 1 .. c.depth
        BY <1>5, <3>2 DEF ValueResume
      <4>2. QED
        BY <1>0, <1>3, <4>1, Types
    <3>4. ValueResume(c.thr, c.depth)
      BY <1>3, <1>7, <3>2, <3>3, ValueResumeWas DEF StacksCut
    <3>5. QED
      BY <3>1, <3>4
  <2>4. QED
    BY <2>2, <2>3
<1>11. curr' = None \/ ~ValueResume(curr, Depth(curr))'
  BY <1>9, <1>10 DEF ValueResume, Depth
<1>12. lj'.type # "resume"
  BY <1>9, JumpsMade
<1>13. QED
  BY <1>7, <1>8, <1>11, <1>12, ValueCut

\* The catchpoints that stay when one is left.
LEMMA CatchesStay ==
  ASSUME TypeInv, cstack # <<>>, cstack' = cstack \/ cstack' = PopC(cstack),
         \A i \in 1 .. Len(cstack) : ~Refused(cstack[i])
  PROVE  \A i \in DOMAIN cstack' :
           i \in DOMAIN cstack /\ cstack'[i] = cstack[i] /\ ~Refused(cstack[i])
<1> SUFFICES ASSUME NEW n, n = Len(cstack)
             PROVE  \A i \in DOMAIN cstack' :
                      i \in DOMAIN cstack /\ cstack'[i] = cstack[i] /\ ~Refused(cstack[i])
  OBVIOUS
<1>1. n \in Nat /\ DOMAIN cstack = 1 .. n /\ cstack \in Seq(Catches)
  BY Types DEF TypeInv
<1>2. CASE cstack' = cstack
  BY <1>1, <1>2
<1>3. CASE cstack' = PopC(cstack)
  <2>1. /\ cstack' \in Seq(Catches) /\ Len(cstack') = n - 1
        /\ \A i \in 1 .. n - 1 : cstack'[i] = cstack[i]
    BY <1>1, <1>3, CPop
  <2>2. DOMAIN cstack' = 1 .. n - 1
    BY <2>1, LenProperties
  <2>3. QED
    BY <1>1, <2>1, <2>2
<1>4. QED
  BY <1>2, <1>3

\* Before the last activation of a coroutine goes, no executor has been started on it.
\* So a return stays in the thread and leaves it something to run, or the executor of
\* the thread's first activation is left, or the coroutine is over.
LEMMA ReturnCases ==
  ASSUME NEW rank \in Ranks, Inv(rank), InEcma, ReturnTo(curr)
  PROVE  \/ /\ StacksCut /\ UNCHANGED <<state, resumer, curr>>
            /\ cstack' = cstack \/ cstack' = PopC(cstack)
            /\ \/ Len(callstack'[curr]) = Depth(curr) - 1 /\ (Depth(curr) >= 2 \/ IsEntry(curr))
               \/ /\ Len(callstack'[curr]) = Depth(curr)
                  /\ callstack'[curr][Depth(curr)].kind = "ecma"
         \/ /\ curr # Main /\ Depth(curr) = 1 /\ resumer[curr] \in Thread /\ resumer[curr] # curr
            /\ BackTo(resumer[curr], curr, "terminated")
            /\ cstack' = cstack
            /\ callstack' = [callstack EXCEPT ![curr] = <<>>,
                               ![resumer[curr]] = SubSeq(callstack[resumer[curr]], 1, Depth(resumer[curr]) - 1)]
<1>0. TypeInv /\ CStackInv(rank)
  BY DEF Inv
<1>1. InCode /\ Top(curr).kind = "ecma"
  BY DEF InEcma
<1>2. /\ OnExecutor /\ curr \in Thread /\ state[curr] = "running" /\ callstack[curr] # <<>>
      /\ Depth(curr) \in Nat /\ Depth(curr) >= 1
  BY <1>1, InCodeFacts
<1>3. CASE Top(curr).cat = "finally"
  <2>1. SetCat(curr, "returning") /\ UNCHANGED <<state, resumer, curr, cstack>>
    BY <1>3 DEF ReturnTo, threads
  <2>2. /\ StacksCut /\ Len(callstack'[curr]) = Depth(curr)
        /\ callstack'[curr][Depth(curr)].kind = "ecma"
    BY <1>0, <1>1, <1>2, <2>1, CatCuts
  <2>3. QED
    BY <2>1, <2>2
<1>4. Depth(curr) - 1 \in 0 .. Depth(curr)
  BY <1>2
<1>5. CASE Top(curr).cat # "finally" /\ IsEntry(curr)
  <2>1. /\ UnwindTo(curr, Depth(curr) - 1) /\ cstack' = PopC(cstack)
        /\ curr' = Innermost.curr /\ state' = [state EXCEPT ![curr] = Innermost.state]
        /\ UNCHANGED resumer
    BY <1>5 DEF ReturnTo
  <2>2. Innermost.curr = curr /\ Innermost.state = "running"
    <3>1. /\ Innermost = cstack[Len(cstack)] /\ Len(cstack) \in 1 .. Len(cstack)
          /\ ~Refused(cstack[Len(cstack)]) /\ Innermost.thr = curr
      BY <1>2, <1>5, OnExecutorFacts DEF IsEntry
    <3>2. CatchInv(Len(cstack)) /\ Innermost.kind = "executor"
      BY <1>0, <1>2, <3>1, Types DEF CStackInv, OnExecutor
    <3>3. QED
      BY <3>1, <3>2 DEF CatchInv, Refused
  <2>3. UNCHANGED <<state, resumer, curr>>
    BY <1>0, <1>2, <2>1, <2>2 DEF TypeInv
  <2>4. /\ StacksCut /\ Len(callstack'[curr]) = Depth(curr) - 1
    BY <1>0, <1>2, <1>4, <2>1, UnwindCuts
  <2>5. QED
    BY <1>5, <2>1, <2>3, <2>4
<1>6. CASE Top(curr).cat # "finally" /\ ~IsEntry(curr) /\ Depth(curr) >= 2
  <2>1. UnwindTo(curr, Depth(curr) - 1) /\ UNCHANGED <<state, resumer, curr, cstack>>
    BY <1>6 DEF ReturnTo, threads
  <2>2. /\ StacksCut /\ Len(callstack'[curr]) = Depth(curr) - 1
    BY <1>0, <1>2, <1>4, <2>1, UnwindCuts
  <2>3. QED
    BY <1>6, <2>1, <2>2
<1>7. CASE Top(curr).cat # "finally" /\ ~IsEntry(curr) /\ ~(Depth(curr) >= 2)
  <2>1. Depth(curr) = 1
    BY <1>2, <1>7
  <2>2. curr # Main
    <3>1. \A d \in 1 .. Depth(curr) : d < Depth(curr) => ~callstack[curr][d].entry
      BY <2>1
    <3>2. QED
      BY <1>2, <1>7, <3>1, NothingBelow
  <2>3. SUFFICES ASSUME NEW r, r = resumer[curr]
                 PROVE  /\ curr # Main /\ Depth(curr) = 1 /\ r \in Thread /\ r # curr
                        /\ BackTo(r, curr, "terminated")
                        /\ cstack' = cstack
                        /\ callstack' = [callstack EXCEPT ![curr] = <<>>,
                                           ![r] = SubSeq(callstack[r], 1, Depth(r) - 1)]
    OBVIOUS
  <2>4. r \in Thread /\ r # curr
    BY <1>2, <2>2, <2>3, ResumerFacts
  <2>5. /\ callstack' = [callstack EXCEPT ![curr] = <<>>, ![r] = SubSeq(@, 1, Depth(r) - 1)]
        /\ BackTo(r, curr, "terminated") /\ UNCHANGED cstack
    BY <1>7, <2>3 DEF ReturnTo
  <2>6. callstack' = [callstack EXCEPT ![curr] = <<>>, ![r] = SubSeq(callstack[r], 1, Depth(r) - 1)]
    BY <1>0, <1>2, <2>4, <2>5 DEF TypeInv
  <2>7. QED
    BY <2>1, <2>2, <2>4, <2>5, <2>6
<1>8. QED
  BY <1>3, <1>5, <1>6, <1>7

\* One stack has lost its top, another all it had.
LEMMA CutsTwo ==
  ASSUME TypeInv, NEW u \in Thread, NEW r \in Thread,
         callstack'[r] \in Seq(Acts), Len(callstack'[r]) = Depth(r) - 1,
         \A d \in 1 .. Depth(r) - 1 : callstack'[r][d] = callstack[r][d],
         callstack'[u] = <<>>,
         \A t \in Thread : t # u /\ t # r => callstack'[t] = callstack[t]
  PROVE  StacksCut
<1>1. ASSUME NEW t \in Thread
      PROVE  /\ Len(callstack'[t]) <= Len(callstack[t])
             /\ \A d \in DOMAIN callstack[t] :
                  d \in DOMAIN callstack'[t] => callstack'[t][d] = callstack[t][d]
  <2>1. Len(callstack[t]) \in Nat
    BY Types DEF Depth
  <2>2. CASE t = r
    <3>1. DOMAIN callstack'[r] = 1 .. Depth(r) - 1
      BY LenProperties DEF Depth
    <3>2. /\ Len(callstack'[t]) = Len(callstack[t]) - 1
          /\ DOMAIN callstack'[t] = 1 .. Len(callstack[t]) - 1
          /\ \A d \in 1 .. Len(callstack[t]) - 1 : callstack'[t][d] = callstack[t][d]
      BY <2>2, <3>1 DEF Depth
    <3>3. QED
      BY <2>1, <3>2
  <2>3. CASE t = u
    <3>1. callstack'[t] = <<>>
      BY <2>3
    <3>2. Len(callstack'[t]) = 0 /\ DOMAIN callstack'[t] = {}
      <4>1. Len(<<>>) = 0 /\ DOMAIN <<>> = {}
        OBVIOUS
      <4>2. QED
        BY <3>1, <4>1
    <3>3. QED
      BY <2>1, <3>2
  <2>4. CASE t # u /\ t # r
    <3>1. callstack'[t] = callstack[t]
      BY <2>4
    <3>2. QED
      BY <2>1, <3>1
  <2>5. QED
    BY <2>2, <2>3, <2>4
<1>2. QED
  BY <1>1 DEF StacksCut, StacksAlike, Alike

\* The stacks after an answer: the call of resume() is off the resumer's.
LEMMA AnswerCuts ==
  ASSUME TypeInv, NEW u \in Thread, NEW r \in Thread, r # u, callstack[r] # <<>>,
         callstack' = [callstack EXCEPT ![u] = <<>>,
                         ![r] = SubSeq(callstack[r], 1, Depth(r) - 1)]
  PROVE  StacksCut /\ Len(callstack'[r]) = Depth(r) - 1 /\ callstack'[u] = <<>>
<1>1. callstack[r] \in Seq(Acts) /\ Depth(r) = Len(callstack[r])
  BY Types DEF Depth
<1>2. /\ callstack'[r] \in Seq(Acts) /\ Len(callstack'[r]) = Depth(r) - 1
      /\ \A d \in 1 .. Depth(r) - 1 : callstack'[r][d] = callstack[r][d]
      /\ callstack'[u] = <<>>
      /\ \A t \in Thread : t # u /\ t # r => callstack'[t] = callstack[t]
  <2>1. /\ SubSeq(callstack[r], 1, Depth(r) - 1) \in Seq(Acts)
        /\ Len(SubSeq(callstack[r], 1, Depth(r) - 1)) = Depth(r) - 1
        /\ \A d \in 1 .. Depth(r) - 1 : SubSeq(callstack[r], 1, Depth(r) - 1)[d] = callstack[r][d]
    BY <1>1, PreventingPop
  <2>2. callstack'[r] = SubSeq(callstack[r], 1, Depth(r) - 1)
    BY DEF TypeInv
  <2>3. callstack'[u] = <<>> /\ \A t \in Thread : t # u /\ t # r => callstack'[t] = callstack[t]
    BY DEF TypeInv
  <2>4. QED
    BY <2>1, <2>2, <2>3
<1>3. QED
  BY <1>2, CutsTwo

\* Stacks that stay as they are.
LEMMA SameCuts == ASSUME TypeInv, callstack' = callstack PROVE StacksCut
BY Types DEF StacksCut, StacksAlike, Alike, Depth

\* Not on a stack that has just lost its top, nor where the top is another call.
LEMMA NoValueOnTop ==
  ASSUME TypeInv, OnTop, TypeInv', StacksCut, NEW t \in Thread,
         \/ Len(callstack'[t]) < Depth(t)
         \/ callstack'[t][Len(callstack'[t])].kind # "resume"
  PROVE  ~ValueResume(t, Depth(t))'
<1>1. CASE Len(callstack'[t]) < Depth(t)
  BY <1>1, CutOnTop DEF Depth, ValueResume
<1>2. CASE callstack'[t][Len(callstack'[t])].kind # "resume"
  BY <1>2 DEF ValueResume, Depth
<1>3. QED
  BY <1>1, <1>2

\* ThrowUnwinds and ThrowCaught, SetCat and NativeReturns: the steps of the current
\* thread that cut its stack, or change the activation on top.
LEMMA ValueInThread ==
  ASSUME NEW rank \in Ranks, Inv(rank), ValueInv, TypeInv', OnExecutor,
         StacksCut, curr' = curr, cstack' = cstack \/ cstack' = PopC(cstack),
         lj' = NoJump \/ lj'.type = "throw",
         \/ lj'.type = "throw"
         \/ Len(callstack'[curr]) < Depth(curr)
         \/ callstack'[curr][Len(callstack'[curr])].kind # "resume"
  PROVE  ValueInv'
<1>0. TypeInv /\ OnTop /\ cstack # <<>>
  BY DEF Inv, ValueInv, OnExecutor
<1>1. curr \in Thread /\ \A i \in 1 .. Len(cstack) : ~Refused(cstack[i])
  BY OnExecutorFacts
<1>2. \A i \in DOMAIN cstack' :
        i \in DOMAIN cstack /\ cstack'[i] = cstack[i] /\ ~Refused(cstack[i])
  BY <1>0, <1>1, CatchesStay
<1>3. lj'.type # "resume"
  BY JumpsMade
<1>4. lj'.type = "throw" \/ ~ValueResume(curr, Depth(curr))'
  <2>1. SUFFICES ASSUME NEW t, t = curr, lj'.type # "throw"
                 PROVE  ~ValueResume(t, Depth(t))'
    BY DEF ValueResume, Depth
  <2>2. QED
    BY <1>0, <1>1, <2>1, NoValueOnTop
<1>5. QED
  BY <1>2, <1>3, <1>4, ValueCut

\* The stacks and the catchpoints stay and an error is under way.
LEMMA ValueError ==
  ASSUME NEW rank \in Ranks, Inv(rank), ValueInv, TypeInv', cstack # <<>>,
         \A i \in 1 .. Len(cstack) : ~Refused(cstack[i]),
         UNCHANGED <<callstack, cstack>>, lj'.type = "throw"
  PROVE  ValueInv'
<1>0. TypeInv
  BY DEF Inv
<1>1. \A i \in DOMAIN cstack' :
        i \in DOMAIN cstack /\ cstack'[i] = cstack[i] /\ ~Refused(cstack[i])
  BY <1>0, CatchesStay
<1>2. StacksCut
  BY <1>0, SameCuts
<1>3. QED
  BY <1>1, <1>2, ValueCut

\* What has control, or made the protected call that has it, is no resume with a value.
LEMMA NoValueBelow ==
  ASSUME NEW rank \in Ranks, Inv(rank), ValueInv,
         InProtected \/ (InCode /\ Top(curr).kind # "resume")
  PROVE  ~ValueResume(curr, Depth(curr))
<1>0. TypeInv /\ CStackInv(rank)
  BY DEF Inv
<1>1. CASE InCode /\ Top(curr).kind # "resume"
  BY <1>1 DEF ValueResume, Top
<1>2. CASE InProtected
  <2>1. SUFFICES ASSUME NEW n, n = Len(cstack), NEW c, c = Innermost
                 PROVE  ~ValueResume(curr, Depth(curr))
    OBVIOUS
  <2>2. /\ curr \in Thread /\ n \in Nat /\ n > 0 /\ c = cstack[n] /\ c.kind = "safe"
        /\ ~Refused(c) /\ c.thr = curr /\ Depth(curr) = c.depth
    <3>1. Quiet /\ c.kind = "safe"
      BY <1>2, <2>1 DEF InProtected
    <3>2. /\ curr \in Thread /\ n \in Nat /\ n > 0 /\ c = cstack[n]
          /\ \A i \in 1 .. n : ~Refused(cstack[i])
          /\ c.thr = curr /\ Depth(curr) = c.depth
      BY <2>1, <3>1, QuietFacts
    <3>3. n \in 1 .. n
      BY <3>2
    <3>4. QED
      BY <3>1, <3>2, <3>3
  <2>3. n \in DOMAIN cstack
    BY <1>0, <2>1, <2>2, Types
  <2>4. CatchInv(n) /\ SafeAt(n)
    BY <1>0, <2>3 DEF CStackInv, ValueInv
  <2>5. CASE c.curr = None
    <3>1. Depth(curr) = 0
      BY <2>2, <2>4, <2>5 DEF CatchInv
    <3>2. DOMAIN callstack[curr] = {}
      BY <1>0, <2>2, <3>1, Types
    <3>3. QED
      BY <3>2 DEF ValueResume
  <2>6. CASE c.curr # None
    BY <2>2, <2>4, <2>6 DEF SafeAt, Refused
  <2>7. QED
    BY <2>5, <2>6
<1>3. QED
  BY <1>1, <1>2

\* Protected calls and finalizers.
LEMMA ValueProtected ==
  ASSUME NEW rank \in Ranks, Inv(rank), ValueInv, TypeInv', ProtectedCall \/ RunFinalizer
  PROVE  ValueInv'
<1>0. TypeInv /\ CStackInv(rank) /\ ChainInv(rank)
  BY DEF Inv
<1>1. ASSUME NEW what, curr = None, StartSafe(Main, what)
      PROVE  ValueInv'
  BY <1>1, ValueSafe, NoneIsNoThread
<1>2. CASE InNative /\ StartSafe(curr, "pcall")
  <2>1. InCode /\ Top(curr).kind = "native"
    BY <1>2 DEF InNative
  <2>2. Quiet /\ curr \in Thread /\ Depth(curr) >= 1 /\ ~ValueResume(curr, Depth(curr))
    BY <2>1, InCodeFacts, NoValueBelow
  <2>3. curr # None
    BY <2>2, NoneIsNoThread
  <2>4. QED
    BY <1>2, <2>2, <2>3, ValueSafe
<1>3. CASE InHandler /\ StartSafe(curr, "errThrow")
  <2>1. InCode /\ Top(curr).iserror
    BY <1>3 DEF InHandler
  <2>2. Quiet /\ curr \in Thread /\ Depth(curr) >= 1 /\ ~ValueResume(curr, Depth(curr))
    BY <2>1, InCodeFacts DEF ValueResume, Top
  <2>3. curr # None
    BY <2>2, NoneIsNoThread
  <2>4. QED
    BY <1>3, <2>2, <2>3, ValueSafe
<1>4. CASE RunFinalizer /\ curr # None
  <2>1. /\ Quiet /\ StartSafe(Main, "finalizer")
        /\ InCode => Top(curr).kind \in {"ecma", "native"}
    BY <1>0, <1>4 DEF RunFinalizer, CStackInv, Quiet
  <2>2. InProtected \/ InCode
    BY <2>1, QuietFacts DEF InProtected, InCode
  <2>3. ~ValueResume(curr, Depth(curr))
    BY <2>1, <2>2, NoValueBelow
  <2>4. QED
    BY <1>4, <2>1, <2>3, ValueSafe, NoneIsNoThread
<1>5. CASE RunFinalizer /\ curr = None
  BY <1>1, <1>5 DEF RunFinalizer
<1>6. QED
  BY <1>1, <1>2, <1>3, <1>4, <1>5 DEF ProtectedCall

\* While the executor or a protected call has control no catchpoint was refused.
LEMMA NoneRefused ==
  ASSUME NEW rank \in Ranks, Inv(rank), InEcma \/ InNative \/ InCode \/ InProtected
  PROVE  /\ Quiet /\ curr \in Thread /\ cstack # <<>> /\ lj = NoJump
         /\ \A i \in 1 .. Len(cstack) : ~Refused(cstack[i])
         /\ \A i \in DOMAIN cstack : ~Refused(cstack[i])
<1>1. Quiet /\ cstack # <<>>
  BY DEF InEcma, InNative, InCode, InProtected, Quiet
<1>2. DOMAIN cstack = 1 .. Len(cstack)
  BY Types DEF Inv
<1>3. QED
  BY <1>1, <1>2, QuietFacts

\* The calls.
LEMMA ValueCalls ==
  ASSUME NEW rank \in Ranks, Inv(rank), ValueInv, TypeInv',
         \/ EnterExecutor
         \/ \E kind \in {"ecma", "native"} : Call(kind)
         \/ \E t \in Thread, b \in BOOLEAN : CallResume(t, b)
         \/ \E b \in BOOLEAN : CallYield(b)
  PROVE  ValueInv'
<1>0. TypeInv
  BY DEF Inv
<1>1. ASSUME NEW a \in Acts, Push(curr, a), UNCHANGED <<curr, cstack>>,
             InEcma \/ InNative, lj' \in {NoJump, Throw},
             lj' = Throw \/ a.kind # "resume" \/ Ready(a.to)'
      PROVE  ValueInv'
  <2>1. InCode /\ Top(curr).kind # "resume"
    BY <1>1 DEF InEcma, InNative
  <2>2. curr \in Thread /\ \A i \in DOMAIN cstack : ~Refused(cstack[i])
    BY <2>1, NoneRefused
  <2>3. ~ValueResume(curr, Depth(curr))
    BY <2>1, NoValueBelow
  <2>4. callstack' = [callstack EXCEPT ![curr] = Append(@, a)]
    BY <1>1 DEF Push
  <2>5. lj'.type # "resume" /\ (lj' = Throw => lj'.type = "throw")
    BY <1>1, JumpsMade
  <2>6. QED
    BY <1>1, <2>2, <2>3, <2>4, <2>5, ValuePush
<1>2. CASE EnterExecutor
  <2> DEFINE c == Catchpoint("executor", curr, Depth(curr) + 1, "call")
  <2>1. /\ InNative \/ InProtected
        /\ Push(curr, EntryActivation) /\ UNCHANGED <<curr, lj>>
        /\ cstack' = Append(cstack, c)
    BY <1>2 DEF EnterExecutor, threads
  <2>2. curr \in Thread /\ lj = NoJump /\ \A i \in DOMAIN cstack : ~Refused(cstack[i])
    BY <2>1, NoneRefused
  <2>3. ~ValueResume(curr, Depth(curr))
    BY <2>1, NoValueBelow DEF InNative
  <2>4. callstack' = [callstack EXCEPT ![curr] = Append(@, EntryActivation)]
    BY <2>1 DEF Push
  <2>5. EntryActivation \in Acts /\ EntryActivation.kind # "resume"
    BY DEF EntryActivation, Activation, Acts
  <2>6. c.kind = "executor"
    BY DEF Catchpoint
  <2> HIDE DEF c
  <2>7. \A i \in DOMAIN cstack' : 
          (i \in DOMAIN cstack /\ cstack'[i] = cstack[i]) \/ cstack'[i] = c
    <3>1. cstack \in Seq(Catches)
      BY <1>0 DEF TypeInv
    <3>2. QED
      BY <2>1, <3>1
  <2>8. lj'.type # "resume"
    BY <2>1, <2>2, JumpsMade
  <2>9. QED
    BY <2>1, <2>2, <2>3, <2>4, <2>5, <2>6, <2>7, <2>8, ValuePush
<1>3. ASSUME NEW kind \in {"ecma", "native"}, Call(kind)
      PROVE  ValueInv'
  <2>1. /\ InEcma /\ Push(curr, Activation(kind)) /\ UNCHANGED <<curr, cstack, lj>>
    BY <1>3 DEF Call, threads
  <2>2. Activation(kind) \in Acts /\ Activation(kind).kind # "resume"
    BY <1>3 DEF Activation, Acts
  <2>3. lj = NoJump
    BY <2>1, NoneRefused
  <2>4. QED
    BY <1>1, <2>1, <2>2, <2>3
<1>4. ASSUME NEW t \in Thread, NEW b \in BOOLEAN, CallResume(t, b)
      PROVE  ValueInv'
  <2>1. SUFFICES ASSUME NEW a, a = [Activation("resume") EXCEPT !.to = t, !.iserror = b]
                 PROVE  ValueInv'
    OBVIOUS
  <2>2. /\ InEcma \/ InNative
        /\ Push(curr, a)
        /\ UNCHANGED <<curr, cstack, state>>
        /\ lj' = IF InEcma /\ Resumable(t) THEN NoJump ELSE Throw
    BY <1>4, <2>1 DEF CallResume, threads
  <2>3. a \in Acts /\ a.to = t
    <3>1. a = [kind |-> "resume", entry |-> FALSE, cat |-> "none", to |-> t, iserror |-> b]
      BY <2>1 DEF Activation
    <3>2. t # None
      BY NoneIsNoThread
    <3>3. QED
      BY <3>1, <3>2 DEF Acts
  <2>4. Resumable(t) => Ready(a.to)'
    BY <2>2, <2>3 DEF Resumable, Ready
  <2>5. lj' \in {NoJump, Throw} /\ (lj' = Throw \/ Ready(a.to)')
    BY <2>2, <2>4
  <2>6. QED
    BY <1>1, <2>2, <2>3, <2>5
<1>5. ASSUME NEW b \in BOOLEAN, CallYield(b)
      PROVE  ValueInv'
  <2>1. SUFFICES ASSUME NEW a, a = [Activation("yield") EXCEPT !.iserror = b]
                 PROVE  ValueInv'
    OBVIOUS
  <2>2. /\ InEcma \/ InNative
        /\ Push(curr, a)
        /\ UNCHANGED <<curr, cstack>>
        /\ lj' \in {NoJump, Throw}
    BY <1>5, <2>1 DEF CallYield, threads
  <2>3. a \in Acts /\ a.kind # "resume"
    <3>1. a = [kind |-> "yield", entry |-> FALSE, cat |-> "none", to |-> None, iserror |-> b]
      BY <2>1 DEF Activation
    <3>2. QED
      BY <3>1 DEF Acts
  <2>4. QED
    BY <1>1, <2>2, <2>3
<1>6. QED
  BY <1>2, <1>3, <1>4, <1>5

\* The longjmps for a resume or a yield, and what they do.
LEMMA ValueJumps ==
  ASSUME NEW rank \in Ranks, Inv(rank), ValueInv, TypeInv',
         ResumeError \/ ResumeValue \/ YieldError \/ YieldValue
  PROVE  ValueInv'
<1>0. TypeInv /\ JumpInv /\ OnTop
  BY DEF Inv, ValueInv
<1>1. CASE ResumeError \/ YieldError
  <2>1. Handling("resume") \/ Handling("yield")
    BY <1>1 DEF ResumeError, YieldError
  <2>2. OnExecutor
    BY <2>1, HandlingFacts
  <2>3. cstack # <<>> /\ \A i \in 1 .. Len(cstack) : ~Refused(cstack[i])
    BY <2>2, OnExecutorFacts DEF OnExecutor
  <2>4. UNCHANGED <<callstack, cstack>> /\ lj' = Throw
    BY <1>1 DEF ResumeError, YieldError, stacks
  <2>5. QED
    BY <2>3, <2>4, ValueError, JumpsMade
<1>2. CASE ResumeValue
  <2>1. SUFFICES ASSUME NEW u, u = lj.to
                 PROVE  ValueInv'
    OBVIOUS
  <2>2. Handling("resume") /\ SwitchTo(u) /\ lj' = NoJump /\ cstack' = cstack
    BY <1>2, <2>1 DEF ResumeValue
  <2>3. OnExecutor /\ lj.type = "resume" /\ ~Falling /\ curr \in Thread
    BY <2>2, HandlingFacts
  <2>4. callstack[curr] # <<>> /\ Top(curr).kind = "resume" /\ Top(curr).to = u
    BY <1>0, <2>1, <2>3 DEF JumpInv
  <2>5. /\ Depth(curr) \in 1 .. Depth(curr)
        /\ Top(curr) = callstack[curr][Depth(curr)] /\ Top(curr) \in Acts
    BY <2>2, <2>4, HandlingFacts
  <2>6. u \in Thread /\ ~Active(u)
    <3>1. u \in Thread
      BY <2>4, <2>5 DEF Acts
    <3>2. QED
      BY <2>3, <2>4, <2>5, <3>1, CurrentStack
  <2>7. /\ cstack # <<>> /\ \A i \in 1 .. Len(cstack) : ~Refused(cstack[i])
        /\ \A i \in DOMAIN cstack : ~Refused(cstack[i])
    BY <1>0, <2>3, OnExecutorFacts, Types DEF OnExecutor
  <2>8. curr' = u /\ lj'.type # "resume"
    BY <2>2, JumpsMade DEF SwitchTo
  <2>9. CASE state[u] = "yielded"
    <3>1. UnwindTo(u, Depth(u) - 1)
      BY <1>2, <2>1, <2>9 DEF ResumeValue
    <3>2. Depth(u) \in Nat /\ Depth(u) >= 2
      BY <1>0, <2>6, <2>9, RestingStack, Types
    <3>3. Depth(u) - 1 \in 0 .. Depth(u) /\ Depth(u) - 1 < Depth(u)
      BY <3>2
    <3>4. StacksCut /\ Len(callstack'[u]) < Depth(u)
      BY <1>0, <2>6, <3>1, <3>3, UnwindCuts
    <3>5. ~ValueResume(u, Depth(u))'
      BY <1>0, <2>6, <3>4, NoValueOnTop
    <3>6. ~ValueResume(curr, Depth(curr))'
      BY <2>8, <3>5 DEF ValueResume, Depth
    <3>7. QED
      BY <1>0, <2>2, <2>7, <2>8, <3>4, <3>6, ValueCut
  <2>10. CASE state[u] # "yielded"
    <3>1. callstack' = [callstack EXCEPT ![u] = Append(@, Activation("ecma"))]
      BY <1>2, <2>1, <2>10 DEF ResumeValue, Push
    <3>2. Activation("ecma") \in Acts /\ Activation("ecma").kind # "resume"
      BY DEF Activation, Acts
    <3>3. ~ValueResume(u, Depth(u))
      <4>1. callstack[u] = <<>>
        BY <2>6, <2>10, RestingStack
      <4>2. DOMAIN callstack[u] = {}
        BY <4>1, EmptySeq
      <4>3. QED
        BY <4>2 DEF ValueResume
    <3>4. QED
      BY <2>2, <2>6, <2>7, <2>8, <3>1, <3>2, <3>3, ValuePush
  <2>11. QED
    BY <2>9, <2>10
<1>3. CASE YieldValue
  <2>1. SUFFICES ASSUME NEW r, r = resumer[curr]
                 PROVE  ValueInv'
    OBVIOUS
  <2>2. /\ Handling("yield") /\ UnwindTo(r, Depth(r) - 1) /\ BackTo(r, curr, "yielded")
        /\ lj' = NoJump /\ cstack' = cstack
    BY <1>3, <2>1 DEF YieldValue
  <2>3. OnExecutor /\ lj.type = "yield" /\ ~Falling /\ curr \in Thread
    BY <2>2, HandlingFacts
  <2>4. curr # Main
    <3>1. callstack[curr] # <<>> /\ Top(curr).kind = "yield"
      BY <1>0, <2>3 DEF JumpInv
    <3>2. Depth(curr) \in 1 .. Depth(curr) /\ Top(curr) = callstack[curr][Depth(curr)]
      BY <1>0, <2>3, <3>1, Types DEF Top
    <3>3. QED
      BY <2>3, <3>1, <3>2, CurrentStack
  <2>5. r \in Thread /\ Depth(r) \in Nat /\ Depth(r) >= 1
    BY <2>1, <2>3, <2>4, ResumerFacts
  <2>6. Depth(r) - 1 \in 0 .. Depth(r) /\ Depth(r) - 1 < Depth(r)
    BY <2>5
  <2>7. StacksCut /\ Len(callstack'[r]) < Depth(r)
    BY <1>0, <2>2, <2>5, <2>6, UnwindCuts
  <2>8. ~ValueResume(r, Depth(r))'
    BY <1>0, <2>5, <2>7, NoValueOnTop
  <2>9. curr' = r /\ lj'.type # "resume"
    BY <2>2, JumpsMade DEF BackTo
  <2>10. ~ValueResume(curr, Depth(curr))'
    BY <2>8, <2>9 DEF ValueResume, Depth
  <2>11. \A i \in DOMAIN cstack' :
           i \in DOMAIN cstack /\ cstack'[i] = cstack[i] /\ ~Refused(cstack[i])
    BY <1>0, <2>2, <2>3, OnExecutorFacts, Types
  <2>12. QED
    BY <2>7, <2>9, <2>10, <2>11, ValueCut
<1>4. QED
  BY <1>1, <1>2, <1>3

\* Returns, try statements and errors in the current thread.
LEMMA ValueRest ==
  ASSUME NEW rank \in Ranks, Inv(rank), ValueInv, TypeInv',
         \/ NativeReturns \/ Raise \/ EndTry \/ Return \/ EndFinally
         \/ \E cat \in Catching : Try(cat)
         \/ \E t \in Thread, b \in BOOLEAN : New(t, b)
         \/ ThrowCaught \/ ThrowUnwinds \/ ThrowTerminates
  PROVE  ValueInv'
<1>0. TypeInv /\ JumpInv /\ RestInv /\ OnTop
  BY DEF Inv, ValueInv
<1>1. ASSUME InEcma \/ InNative
      PROVE  /\ InCode /\ OnExecutor /\ lj = NoJump /\ curr \in Thread /\ callstack[curr] # <<>>
             /\ Depth(curr) \in Nat /\ Depth(curr) >= 1 /\ Depth(curr) - 1 \in 0 .. Depth(curr)
             /\ Depth(curr) - 1 < Depth(curr)
  <2>1. InCode
    BY <1>1 DEF InEcma, InNative
  <2>2. /\ OnExecutor /\ lj = NoJump /\ curr \in Thread /\ callstack[curr] # <<>>
        /\ Depth(curr) \in Nat /\ Depth(curr) >= 1
    BY <2>1, InCodeFacts
  <2>3. QED
    BY <2>1, <2>2
<1>2. ASSUME NEW cat, OnExecutor, curr \in Thread, callstack[curr] # <<>>,
             Top(curr).kind = "ecma", SetCat(curr, cat), UNCHANGED <<curr, cstack>>, lj' = NoJump
      PROVE  ValueInv'
  <2>1. /\ StacksCut /\ Len(callstack'[curr]) = Depth(curr)
        /\ callstack'[curr][Depth(curr)].kind = "ecma"
    BY <1>0, <1>2, CatCuts
  <2>2. QED
    BY <1>2, <2>1, ValueInThread
<1>3. CASE NativeReturns
  <2>1. InNative /\ UnwindTo(curr, Depth(curr) - 1) /\ UNCHANGED <<curr, cstack, lj>>
    BY <1>3 DEF NativeReturns, threads
  <2>2. StacksCut /\ Len(callstack'[curr]) = Depth(curr) - 1
    BY <1>0, <1>1, <2>1, UnwindCuts
  <2>3. OnExecutor /\ lj' = NoJump /\ Len(callstack'[curr]) < Depth(curr)
    BY <1>1, <2>1, <2>2
  <2>4. QED
    BY <2>1, <2>2, <2>3, ValueInThread
<1>4. CASE Raise
  <2>1. UNCHANGED <<callstack, cstack>> /\ lj' = Throw /\ (InEcma \/ InNative \/ InProtected)
    BY <1>4 DEF Raise, stacks
  <2>2. cstack # <<>> /\ \A i \in 1 .. Len(cstack) : ~Refused(cstack[i])
    BY <2>1, NoneRefused
  <2>3. QED
    BY <2>1, <2>2, ValueError, JumpsMade
<1>5. CASE EndTry
  <2>1. InEcma /\ Top(curr).kind = "ecma" /\ SetCat(curr, "none") /\ UNCHANGED <<curr, cstack, lj>>
    BY <1>5 DEF EndTry, InEcma, threads
  <2>2. QED
    BY <1>1, <1>2, <2>1
<1>6. ASSUME NEW cat \in Catching, Try(cat)
      PROVE  ValueInv'
  <2>1. InEcma /\ Top(curr).kind = "ecma" /\ SetCat(curr, cat) /\ UNCHANGED <<curr, cstack, lj>>
    BY <1>6 DEF Try, InEcma, threads
  <2>2. QED
    BY <1>1, <1>2, <2>1
<1>7. ASSUME InEcma, ReturnTo(curr), UNCHANGED lj
      PROVE  ValueInv'
  <2>1. lj' = NoJump /\ OnExecutor
    BY <1>1, <1>7
  <2>2. CASE /\ StacksCut /\ UNCHANGED <<state, resumer, curr>>
             /\ cstack' = cstack \/ cstack' = PopC(cstack)
             /\ \/ Len(callstack'[curr]) = Depth(curr) - 1 /\ (Depth(curr) >= 2 \/ IsEntry(curr))
                \/ /\ Len(callstack'[curr]) = Depth(curr)
                   /\ callstack'[curr][Depth(curr)].kind = "ecma"
    <3>1. \/ Len(callstack'[curr]) < Depth(curr)
          \/ callstack'[curr][Len(callstack'[curr])].kind # "resume"
      BY <1>1, <1>7, <2>2
    <3>2. QED
      BY <2>1, <2>2, <3>1, ValueInThread
  <2>3. CASE /\ curr # Main /\ Depth(curr) = 1 /\ resumer[curr] \in Thread /\ resumer[curr] # curr
             /\ BackTo(resumer[curr], curr, "terminated")
             /\ cstack' = cstack
             /\ callstack' = [callstack EXCEPT ![curr] = <<>>,
                               ![resumer[curr]] = SubSeq(callstack[resumer[curr]], 1, Depth(resumer[curr]) - 1)]
    <3>1. SUFFICES ASSUME NEW r, r = resumer[curr]
                   PROVE  ValueInv'
      OBVIOUS
    <3>2. callstack[r] # <<>> /\ Depth(r) \in Nat /\ curr \in Thread
      BY <1>1, <1>7, <2>3, <3>1, ResumerFacts
    <3>3. StacksCut /\ Len(callstack'[r]) = Depth(r) - 1
      BY <1>0, <2>3, <3>1, <3>2, AnswerCuts
    <3>4. ~ValueResume(r, Depth(r))'
      <4>1. r \in Thread /\ Len(callstack'[r]) < Depth(r)
        BY <2>3, <3>1, <3>2, <3>3
      <4>2. QED
        BY <1>0, <3>3, <4>1, NoValueOnTop
    <3>5. curr' = r
      BY <2>3, <3>1 DEF BackTo
    <3>6. ~ValueResume(curr, Depth(curr))'
      BY <3>4, <3>5 DEF ValueResume, Depth
    <3>7. \A i \in DOMAIN cstack' :
            i \in DOMAIN cstack /\ cstack'[i] = cstack[i] /\ ~Refused(cstack[i])
      BY <1>7, <2>3, NoneRefused
    <3>8. QED
      BY <2>1, <3>3, <3>6, <3>7, ValueCut, JumpsMade
  <2>4. QED
    BY <1>7, <2>2, <2>3, ReturnCases
<1>8. CASE Return
  BY <1>7, <1>8 DEF Return
<1>9. CASE EndFinally
  <2>1. CASE ReturnTo(curr) /\ UNCHANGED lj
    BY <1>7, <1>9, <2>1 DEF EndFinally
  <2>2. CASE lj' = Throw /\ UNCHANGED <<threads, stacks>>
    <3>1. InEcma /\ UNCHANGED <<callstack, cstack>>
      BY <1>9, <2>2 DEF EndFinally, stacks
    <3>2. cstack # <<>> /\ \A i \in 1 .. Len(cstack) : ~Refused(cstack[i])
      BY <3>1, NoneRefused
    <3>3. QED
      BY <2>2, <3>1, <3>2, ValueError, JumpsMade
  <2>3. QED
    BY <1>9, <2>1, <2>2 DEF EndFinally
<1>10. ASSUME NEW t \in Thread, NEW b \in BOOLEAN, New(t, b)
       PROVE  ValueInv'
  <2>1. InEcma /\ Top(curr).kind = "ecma" /\ UNCHANGED <<callstack, cstack, curr, lj>>
    BY <1>10 DEF New, InEcma, stacks
  <2>2. StacksCut
    BY <1>0, <2>1, SameCuts
  <2>3. callstack'[curr][Len(callstack'[curr])].kind # "resume" /\ lj' = NoJump /\ OnExecutor
    BY <1>1, <2>1 DEF Top, Depth
  <2>4. QED
    BY <2>1, <2>2, <2>3, ValueInThread
<1>11. CASE ThrowCaught
  <2>1. /\ Handling("throw") /\ callstack[curr] # <<>> /\ Top(curr).cat \in Catching
        /\ lj' = NoJump /\ UNCHANGED <<curr, cstack>>
        /\ SetCat(curr, "none") \/ SetCat(curr, "throwing")
    BY <1>11 DEF ThrowCaught, threads
  <2>2. OnExecutor /\ Top(curr) \in Acts /\ curr \in Thread
    BY <2>1, HandlingFacts
  <2>3. Top(curr).kind = "ecma"
    BY <2>1, <2>2 DEF Acts, Catching
  <2>4. QED
    BY <1>2, <2>1, <2>2, <2>3
<1>12. CASE ThrowUnwinds
  <2>1. Handling("throw") /\ callstack[curr] # <<>> /\ UNCHANGED <<curr, lj>>
    BY <1>12 DEF ThrowUnwinds, threads
  <2>2. OnExecutor /\ lj'.type = "throw" /\ curr \in Thread
        /\ Depth(curr) \in Nat /\ Depth(curr) >= 1
    BY <2>1, HandlingFacts
  <2>3. Depth(curr) - 1 \in 0 .. Depth(curr)
    BY <2>2
  <2>4. StacksCut /\ (cstack' = cstack \/ cstack' = PopC(cstack))
    <3>1. CASE IsEntry(curr)
      BY <1>0, <1>12, <3>1, SameCuts DEF ThrowUnwinds
    <3>2. CASE ~IsEntry(curr)
      <4>1. UnwindTo(curr, Depth(curr) - 1) /\ cstack' = cstack
        BY <1>12, <3>2 DEF ThrowUnwinds
      <4>2. QED
        BY <1>0, <2>2, <2>3, <4>1, UnwindCuts
    <3>3. QED
      BY <3>1, <3>2
  <2>5. QED
    BY <2>1, <2>2, <2>4, ValueInThread
<1>13. CASE ThrowTerminates
  <2>1. Handling("throw") /\ UNCHANGED <<callstack, cstack, lj>>
    BY <1>13 DEF ThrowTerminates, stacks
  <2>2. OnExecutor /\ lj'.type = "throw"
    BY <2>1, HandlingFacts
  <2>3. cstack # <<>> /\ \A i \in 1 .. Len(cstack) : ~Refused(cstack[i])
    BY <2>2, OnExecutorFacts DEF OnExecutor
  <2>4. QED
    BY <2>1, <2>2, <2>3, ValueError
<1>14. QED
  BY <1>3, <1>4, <1>5, <1>6, <1>8, <1>9, <1>10, <1>11, <1>12, <1>13

\* The checks of resume() hold until its longjmp arrives.
LEMMA ValueStep == IInv /\ ValueInv /\ [Next]_vars => ValueInv'
<1> SUFFICES ASSUME NEW rank \in Ranks, Inv(rank), ValueInv, [Next]_vars
             PROVE  ValueInv'
  BY DEF IInv
<1>0. TypeInv /\ JumpInv /\ CStackInv(rank)
  BY DEF Inv
<1>1. TypeInv'
  <2>1. IInv'
    BY StepInv DEF IInv
  <2>2. QED
    BY <2>1 DEF IInv, Inv
<1>2. CASE LongjmpFromThread
  <2>1. /\ InCode
        /\ lj' = Jump(Top(curr).kind, Top(curr).to, Top(curr).iserror)
        /\ UNCHANGED <<state, curr, callstack, cstack>>
    BY <1>2 DEF LongjmpFromThread, threads, stacks
  <2>2. lj'.iserror = Top(curr).iserror /\ Top(curr)' = Top(curr) /\ ~Falling
    BY <2>1, InCodeFacts DEF Jump, Top, Depth
  <2>3. \A i \in DOMAIN cstack' :
          i \in DOMAIN cstack /\ cstack'[i] = cstack[i] /\ ~Refused(cstack[i])
    BY <2>1, NoneRefused
  <2>4. StacksCut
    BY <1>0, <2>1, SameCuts
  <2>5. \A i \in DOMAIN cstack' : SafeAt(i)'
    BY <1>1, <2>3, <2>4, SafeKept DEF StacksCut
  <2>6. OnTop'
    BY <1>0, <1>1, <2>4, CutOnTop DEF ValueInv
  <2>7. curr' # None /\ ~Falling' /\ ValueResume(curr, Depth(curr))' => Ready(Top(curr).to)'
    BY <2>1, <2>2 DEF ValueInv, ValueResume, Ready, Top, Depth
  <2>8. QED
    BY <2>2, <2>5, <2>6, <2>7 DEF ValueInv
<1>3. CASE SafeReturns
  BY <1>1, <1>3, ValueLeaves DEF SafeReturns, InProtected, Quiet
<1>4. CASE SafeCatches
  BY <1>0, <1>1, <1>4, ValueLeaves DEF SafeCatches, JumpInv
<1>5. CASE UNCHANGED vars
  BY <1>5 DEF vars, threads, stacks, ValueInv, SafeAt, OnTop, ValueResume, Ready, Falling, Refused,
              Top, Depth
<1>6. QED
  BY <1>1, <1>2, <1>3, <1>4, <1>5, ValueProtected, ValueCalls, ValueJumps, ValueRest DEF Next

\* Nothing is under way before the first call.
LEMMA ValueInit == Init => ValueInv
<1> SUFFICES ASSUME Init
             PROVE  ValueInv
  OBVIOUS
<1>1. \A t \in Thread : DOMAIN callstack[t] = {}
  BY DEF Init
<1>2. DOMAIN cstack = {} /\ lj.type = "none" /\ curr = None
  BY JumpsMade DEF Init
<1>3. QED
  BY <1>1, <1>2 DEF ValueInv, OnTop

-----------------------------------------------------------------------------
(* Threads in a row *)

\* A set of natural numbers that is not empty has a least one.
LEMMA LeastNatural ==
  ASSUME NEW S \in SUBSET Nat, S # {}
  PROVE  \E m \in S : \A k \in S : m <= k
<1> DEFINE R == {p \in Nat \X Nat : p[1] < p[2]}
<1>1. IsWellFoundedOn(R, Nat)
  BY NatLessThanWellFounded DEF OpToRel
<1>2. \A k, m \in S : <<k, m>> \notin R => m <= k
  OBVIOUS
<1> HIDE DEF R
<1>3. PICK m \in S : \A k \in S : <<k, m>> \notin R
  BY <1>1, WFMin
<1>4. \A k \in S : m <= k
  BY <1>2, <1>3
<1>5. QED
  BY <1>4

\* A row of the threads of a finite set, each of them once.
IsRow(T, by, front, c) ==
  /\ IsFiniteSet(T)
  /\ c \in [1 .. Cardinality(T) -> T]
  /\ Linked(c, by, front)
  /\ \A i, j \in 1 .. Cardinality(T) : c[i] = c[j] => i = j

\* A function on 1..n is a sequence of n.
LEMMA RowLength ==
  ASSUME NEW n \in Nat, NEW T, NEW c \in [1 .. n -> T]
  PROVE  c \in Seq(T) /\ Len(c) = n /\ DOMAIN c = 1 .. n /\ (c # <<>> <=> n > 0)
<1>1. c \in Seq(T) /\ Len(c) = n /\ DOMAIN c = 1 .. n
  OBVIOUS
<1>2. QED
  BY <1>1, EmptySeq

\* From the front back, a row is determined step by step.
LEMMA LinkedSame ==
  ASSUME NEW n \in Nat, NEW T, NEW by, NEW front,
         NEW c \in [1 .. n -> T], NEW d \in [1 .. n -> T],
         Linked(c, by, front), Linked(d, by, front)
  PROVE  c = d
<1>1. /\ Len(c) = n /\ DOMAIN c = 1 .. n /\ (c # <<>> <=> n > 0)
      /\ Len(d) = n /\ DOMAIN d = 1 .. n /\ (d # <<>> <=> n > 0)
  BY RowLength
<1>2. /\ \A i \in 1 .. n : by[c[i]] = IF i = 1 THEN None ELSE c[i - 1]
      /\ \A i \in 1 .. n : by[d[i]] = IF i = 1 THEN None ELSE d[i - 1]
      /\ n > 0 => c[n] = front /\ d[n] = front
  BY <1>1 DEF Linked
<1> DEFINE Bad == {k \in 0 .. n - 1 : c[n - k] # d[n - k]}
<1>3. Bad = {}
  <2> SUFFICES ASSUME Bad # {}
               PROVE  FALSE
    OBVIOUS
  <2>1. PICK k \in Bad : \A i \in Bad : k <= i
    <3>1. Bad \in SUBSET Nat
      OBVIOUS
    <3> HIDE DEF Bad
    <3>2. QED
      BY <3>1, LeastNatural
  <2>2. k \in 0 .. n - 1 /\ c[n - k] # d[n - k]
    OBVIOUS
  <2>3. k # 0
    BY <1>2, <2>2
  <2>4. k - 1 \in 0 .. n - 1 /\ k - 1 \notin Bad
    <3>1. k - 1 \in 0 .. n - 1 /\ ~ (k <= k - 1)
      BY <2>2, <2>3
    <3> HIDE DEF Bad
    <3>2. QED
      BY <2>1, <3>1
  <2>5. c[n - k + 1] = d[n - k + 1]
    <3>1. n - (k - 1) = n - k + 1
      BY <2>2
    <3>2. c[n - (k - 1)] = d[n - (k - 1)]
      BY <2>4
    <3>3. QED
      BY <3>1, <3>2
  <2>6. n - k + 1 \in 1 .. n /\ n - k + 1 # 1 /\ n - k + 1 - 1 = n - k
    BY <2>2, <2>3
  <2>7. by[c[n - k + 1]] = c[n - k] /\ by[d[n - k + 1]] = d[n - k]
    BY <1>2, <2>6
  <2>8. QED
    BY <2>2, <2>5, <2>7
<1>4. \A i \in 1 .. n : c[i] = d[i]
  <2>1. TAKE i \in 1 .. n
  <2>2. n - i \in 0 .. n - 1 /\ n - (n - i) = i /\ n - i \notin Bad
    <3>1. n - i \in 0 .. n - 1 /\ n - (n - i) = i
      OBVIOUS
    <3> HIDE DEF Bad
    <3>2. QED
      BY <1>3, <3>1
  <2>3. c[n - (n - i)] = d[n - (n - i)]
    BY <2>2
  <2>4. QED
    BY <2>2, <2>3
<1>5. QED
  BY <1>4

\* So the chain is any row there is.
LEMMA RowIs ==
  ASSUME NEW T, NEW by, NEW front, NEW c, IsRow(T, by, front, c)
  PROVE  Row(T, by, front) = c /\ Cardinality(T) \in Nat /\ Len(c) = Cardinality(T)
<1>1. Cardinality(T) \in Nat
  BY FS_CardinalityType DEF IsRow
<1>2. \E d \in [1 .. Cardinality(T) -> T] : Linked(d, by, front)
  BY DEF IsRow
<1> DEFINE d == CHOOSE x \in [1 .. Cardinality(T) -> T] : Linked(x, by, front)
<1>3. d \in [1 .. Cardinality(T) -> T] /\ Linked(d, by, front)
  BY <1>2
<1>4. d = Row(T, by, front)
  BY DEF Row
<1> HIDE DEF d
<1>5. d = c
  BY <1>1, <1>3, LinkedSame DEF IsRow
<1>6. QED
  BY <1>1, <1>4, <1>5, RowLength DEF IsRow

\* A thread more at the front.
LEMMA RowGrows ==
  ASSUME NEW T, NEW by, NEW front, NEW c, IsRow(T, by, front, c), T # {},
         NEW u, u \notin T, NEW to,
         \A t \in T : to[t] = by[t], to[u] = front
  PROVE  IsRow(T \cup {u}, to, u, Append(c, u))
<1> DEFINE U == T \cup {u}
           n == Cardinality(T)
           a == Append(c, u)
<1>1. n \in Nat /\ Len(c) = n /\ c \in Seq(T) /\ DOMAIN c = 1 .. n
  BY RowIs, RowLength DEF IsRow
<1>2. n > 0
  <2>1. n # 0
    BY FS_EmptySet DEF IsRow
  <2>2. QED
    BY <1>1, <2>1
<1>3. IsFiniteSet(U) /\ Cardinality(U) = n + 1
  BY FS_AddElement DEF IsRow
<1>4. c \in [1 .. n -> T] /\ c # <<>> /\ \A i \in 1 .. n : c[i] \in T
  BY <1>1, <1>2, RowLength DEF IsRow
<1>5. /\ \A i \in 1 .. n : by[c[i]] = IF i = 1 THEN None ELSE c[i - 1]
      /\ c[n] = front
  BY <1>1, <1>4 DEF IsRow, Linked
<1>6. /\ a \in Seq(U) /\ Len(a) = n + 1 /\ a[n + 1] = u
      /\ \A i \in 1 .. n : a[i] = c[i]
  <2>1. c \in Seq(U) /\ u \in U
    <3>1. c \in [1 .. n -> U]
      BY <1>4
    <3>2. QED
      BY <1>1, <3>1, RowLength
  <2>2. QED
    BY <1>1, <2>1, AppendProperties
<1> HIDE DEF a
<1>7. a \in [1 .. n + 1 -> U] /\ DOMAIN a = 1 .. n + 1 /\ Len(a) = n + 1
  BY <1>1, <1>6, LenProperties
<1>8. \A i \in 1 .. n + 1 : to[a[i]] = IF i = 1 THEN None ELSE a[i - 1]
  <2>1. TAKE i \in 1 .. n + 1
  <2>2. CASE i = n + 1
    <3>1. a[i] = u /\ i # 1 /\ i - 1 = n /\ n \in 1 .. n
      BY <1>1, <1>2, <1>6, <2>2
    <3>2. a[i - 1] = front
      BY <1>5, <1>6, <3>1
    <3>3. QED
      BY <3>1, <3>2
  <2>3. CASE i # n + 1
    <3>1. i \in 1 .. n /\ (i # 1 => i - 1 \in 1 .. n)
      BY <1>1, <2>3
    <3>2. a[i] = c[i] /\ c[i] \in T /\ (i # 1 => a[i - 1] = c[i - 1])
      BY <1>4, <1>6, <3>1
    <3>3. to[a[i]] = by[c[i]]
      BY <3>2
    <3>4. QED
      BY <1>5, <3>1, <3>2, <3>3
  <2>4. QED
    BY <2>2, <2>3
<1>9. Linked(a, to, u)
  BY <1>6, <1>7, <1>8 DEF Linked
<1>10. \A i, j \in 1 .. n + 1 : a[i] = a[j] => i = j
  <2>1. TAKE i \in 1 .. n + 1, j \in 1 .. n + 1
  <2>2. \A k \in 1 .. n + 1 : k = n + 1 \/ k \in 1 .. n
    BY <1>1
  <2>3. \A k \in 1 .. n : a[k] # u
    BY <1>4, <1>6
  <2>4. CASE i = n + 1 \/ j = n + 1
    BY <1>6, <2>2, <2>3, <2>4
  <2>5. CASE i \in 1 .. n /\ j \in 1 .. n
    BY <1>6, <2>5 DEF IsRow
  <2>6. QED
    BY <2>2, <2>4, <2>5
<1>11. QED
  BY <1>3, <1>7, <1>9, <1>10 DEF IsRow, a

\* The front one leaves.
LEMMA RowShrinks ==
  ASSUME NEW T, NEW by, NEW front, NEW c, IsRow(T, by, front, c),
         front \in T, by[front] # None, NEW to,
         \A t \in T \ {front} : to[t] = by[t]
  PROVE  /\ Len(c) > 1 /\ c[Len(c)] = front
         /\ IsRow(T \ {front}, to, by[front], SubSeq(c, 1, Len(c) - 1))
<1> DEFINE U == T \ {front}
           n == Cardinality(T)
           a == SubSeq(c, 1, Len(c) - 1)
<1>1. n \in Nat /\ Len(c) = n /\ c \in Seq(T) /\ DOMAIN c = 1 .. n
  BY RowIs, RowLength DEF IsRow
<1>2. n > 0
  <2>1. n # 0
    BY FS_EmptySet DEF IsRow
  <2>2. QED
    BY <1>1, <2>1
<1>3. c \in [1 .. n -> T] /\ c # <<>> /\ \A i \in 1 .. n : c[i] \in T
  BY <1>1, <1>2, RowLength DEF IsRow
<1>4. /\ \A i \in 1 .. n : by[c[i]] = IF i = 1 THEN None ELSE c[i - 1]
      /\ c[n] = front
  BY <1>1, <1>3 DEF IsRow, Linked
<1>5. n > 1 /\ by[front] = c[n - 1]
  <2>1. n \in 1 .. n
    BY <1>1, <1>2
  <2>2. by[front] = IF n = 1 THEN None ELSE c[n - 1]
    BY <1>4, <2>1
  <2>3. QED
    BY <1>1, <1>2, <2>2
<1>6. IsFiniteSet(U) /\ Cardinality(U) = n - 1
  BY FS_RemoveElement DEF IsRow
<1>7. Len(a) = n - 1 /\ \A i \in 1 .. n - 1 : a[i] = c[i]
  <2> DEFINE m == n - 1
  <2>1. m \in Nat /\ m >= 1 /\ 1 \in Int /\ \A i \in 1 .. m : c[i] \in T
    BY <1>1, <1>3, <1>5
  <2> HIDE DEF m
  <2>2. /\ Len(SubSeq(c, 1, m)) = (IF 1 <= m THEN m - 1 + 1 ELSE 0)
        /\ \A i \in 1 .. m - 1 + 1 : SubSeq(c, 1, m)[i] = c[1 + i - 1]
    BY <2>1, SubSeqProperties
  <2>3. Len(SubSeq(c, 1, m)) = m /\ \A i \in 1 .. m : SubSeq(c, 1, m)[i] = c[i]
    BY <2>1, <2>2
  <2>4. QED
    BY <1>1, <2>3 DEF m
<1>8. \A i \in 1 .. n - 1 : c[i] \in U
  <2>1. TAKE i \in 1 .. n - 1
  <2>2. i \in 1 .. n /\ n \in 1 .. n /\ i # n
    BY <1>1
  <2>3. c[i] # c[n]
    BY <2>2 DEF IsRow
  <2>4. QED
    BY <1>3, <1>4, <2>2, <2>3
<1>9. a \in [1 .. n - 1 -> U]
  <2>1. a = [i \in 1 .. n - 1 |-> c[i]]
    BY <1>1
  <2>2. QED
    BY <1>8, <2>1
<1> HIDE DEF a
<1>10. DOMAIN a = 1 .. n - 1
  BY <1>9
<1>11. \A i \in 1 .. n - 1 : to[a[i]] = IF i = 1 THEN None ELSE a[i - 1]
  <2>1. TAKE i \in 1 .. n - 1
  <2>2. i \in 1 .. n /\ (i # 1 => i - 1 \in 1 .. n - 1)
    BY <1>1
  <2>3. to[a[i]] = by[c[i]] /\ (i # 1 => a[i - 1] = c[i - 1])
    BY <1>7, <1>8, <2>2
  <2>4. QED
    BY <1>4, <2>2, <2>3
<1>12. a[Len(a)] = by[front]
  <2>1. n - 1 \in 1 .. n - 1
    BY <1>1, <1>5
  <2>2. QED
    BY <1>5, <1>7, <2>1
<1>13. Linked(a, to, by[front])
  BY <1>10, <1>11, <1>12 DEF Linked
<1>14. \A i, j \in 1 .. n - 1 : a[i] = a[j] => i = j
  <2>1. TAKE i \in 1 .. n - 1, j \in 1 .. n - 1
  <2>2. i \in 1 .. n /\ j \in 1 .. n
    BY <1>1
  <2>3. QED
    BY <1>7, <2>2 DEF IsRow
<1>15. QED
  BY <1>1, <1>4, <1>5, <1>6, <1>9, <1>13, <1>14 DEF IsRow, a

\* The same row for the same links.
LEMMA RowStays ==
  ASSUME NEW T, NEW by, NEW front, NEW c, IsRow(T, by, front, c),
         NEW to, \A t \in T : to[t] = by[t]
  PROVE  IsRow(T, to, front, c)
<1>1. c \in [1 .. Cardinality(T) -> T]
  BY DEF IsRow
<1>2. \A i \in DOMAIN c : to[c[i]] = by[c[i]]
  BY <1>1
<1>3. QED
  BY <1>2 DEF IsRow, Linked

-----------------------------------------------------------------------------
(* The chain of resumers *)

\* The threads being run are in a row: it is the chain.
InARow == \E c : IsRow(BeingRun, resumer, Front, c)

\* What ResumeChain calls the status of a thread.
Status(t) == IF Ends(t) THEN "over" ELSE StatusOf[state[t]]

\* A step of ResumeChain, or of nothing it knows.
Kept == InARow' /\ [Promise!Next]_(Promise!vars)

\* A row of the threads being run is the chain.
LEMMA ChainIs ==
  ASSUME NEW c, IsRow(BeingRun, resumer, Front, c)
  PROVE  Chain = c
BY RowIs DEF Chain

\* The chain, as a step leaves it.
LEMMA ChainBecomes ==
  ASSUME NEW c, IsRow(BeingRun', resumer', Front', c)
  PROVE  Chain' = c /\ InARow'
<1>1. Row(BeingRun', resumer', Front') = c
  BY RowIs
<1>2. Chain' = c
  BY <1>1 DEF Chain
<1>3. IsRow(BeingRun, resumer, Front, c)'
  BY DEF IsRow
<1>4. QED
  BY <1>2, <1>3 DEF InARow

\* The same threads in the same row.
LEMMA SameRow ==
  ASSUME InARow, BeingRun' = BeingRun, Front' = Front,
         \A t \in BeingRun : resumer'[t] = resumer[t],
         \A t \in Thread : Status(t)' = Status(t)
  PROVE  Kept
<1>1. PICK c : IsRow(BeingRun, resumer, Front, c)
  BY DEF InARow
<1>2. IsRow(BeingRun', resumer', Front', c)
  BY <1>1, RowStays
<1>3. Chain = c /\ Chain' = c /\ InARow'
  BY <1>1, <1>2, ChainIs, ChainBecomes
<1>4. [t \in Thread |-> IF Ends(t) THEN "over" ELSE StatusOf[state[t]]]'
        = [t \in Thread |-> IF Ends(t) THEN "over" ELSE StatusOf[state[t]]]
  BY DEF Status
<1>5. UNCHANGED Promise!vars
  BY <1>3, <1>4 DEF Promise!vars
<1>6. QED
  BY <1>3, <1>5 DEF Kept

\* Control stays where it is.
LEMMA StayStep ==
  ASSUME NEW rank \in Ranks, Inv(rank), InARow, UNCHANGED <<state, resumer, curr>>,
         curr = None \/ curr = Main \/ (callstack'[curr] = <<>> <=> callstack[curr] = <<>>)
  PROVE  Kept
<1>1. \A t \in Thread : state[t] = "running" <=> t = curr
  BY DEF Inv, ChainInv
<1>2. \A t \in Thread : Ends(t)' <=> Ends(t)
  BY <1>1, NoneIsNoThread DEF Ends
<1>3. BeingRun' = BeingRun
  BY <1>2 DEF BeingRun
<1>4. curr # None => curr \in Thread
  BY DEF Inv, TypeInv
<1>5. Front' = Front
  BY <1>2, <1>4 DEF Front
<1>6. \A t \in Thread : Status(t)' = Status(t)
  BY <1>2 DEF Status
<1>7. QED
  BY <1>3, <1>5, <1>6, SameRow

\* The shortest rows.
LEMMA RowsBegin ==
  ASSUME NEW by, NEW u, by[u] = None, NEW front
  PROVE  IsRow({}, by, front, <<>>) /\ IsRow({u}, by, u, <<u>>)
<1>1. IsFiniteSet({}) /\ Cardinality({}) = 0 /\ IsFiniteSet({u}) /\ Cardinality({u}) = 1
  BY FS_EmptySet, FS_Singleton
<1>2. IsRow({}, by, front, <<>>)
  <2>1. <<>> \in [1 .. 0 -> {}]
    OBVIOUS
  <2>2. DOMAIN <<>> = {}
    OBVIOUS
  <2>3. QED
    BY <1>1, <2>1, <2>2 DEF IsRow, Linked
<1>3. IsRow({u}, by, u, <<u>>)
  <2>1. <<u>> \in [1 .. 1 -> {u}] /\ DOMAIN <<u>> = 1 .. 1 /\ <<u>>[1] = u /\ Len(<<u>>) = 1
    OBVIOUS
  <2>2. \A i, j \in 1 .. 1 : i = j
    OBVIOUS
  <2>3. Linked(<<u>>, by, u)
    BY <2>1 DEF Linked
  <2>4. QED
    BY <1>1, <2>1, <2>2, <2>3 DEF IsRow
<1>4. QED
  BY <1>2, <1>3

\* One thread's status changes.
LEMMA StatusBecomes ==
  ASSUME NEW u \in Thread, NEW s,
         \A t \in Thread : Status(t)' = IF t = u THEN s ELSE Status(t)
  PROVE  [t \in Thread |-> IF Ends(t) THEN "over" ELSE StatusOf[state[t]]]'
           = [[t \in Thread |-> IF Ends(t) THEN "over" ELSE StatusOf[state[t]]] EXCEPT ![u] = s]
BY DEF Status

\* The heap thread has no resumer.
LEMMA MainFirst ==
  ASSUME NEW rank \in Ranks, Inv(rank)
  PROVE  resumer[Main] = None
<1>1. rank[Main] = 0 /\ \A t \in Thread : rank[t] \in Nat
  BY DEF Inv, ChainInv, Ranks
<1>2. SUFFICES ASSUME resumer[Main] # None
               PROVE  FALSE
  OBVIOUS
<1>3. resumer[Main] \in Thread /\ rank[Main] = rank[resumer[Main]] + 1
  BY <1>2, NoneIsNoThread DEF Inv, ChainInv, TypeInv
<1>4. QED
  BY <1>1, <1>3

\* The host begins: the heap thread is in the row alone.
LEMMA EnterRow ==
  ASSUME NEW rank \in Ranks, Inv(rank), curr = None,
         state' = [state EXCEPT ![Main] = "running"], curr' = Main, resumer' = resumer
  PROVE  Kept
<1>0. Main \in Thread /\ None \notin Thread /\ state \in [Thread -> State]
  BY NoneIsNoThread DEF Inv, TypeInv
<1>1. \A t \in Thread : ~Active(t) /\ ~Ends(t)
  BY <1>0 DEF Inv, ChainInv, Ends, Active
<1>2. state[Main] = "inactive"
  BY <1>0, <1>1 DEF Inv, RestInv, Active
<1>3. BeingRun = {}
  BY <1>1 DEF BeingRun, Active
<1>4. state'[Main] = "running" /\ \A t \in Thread \ {Main} : state'[t] = state[t] /\ state'[t] # "running"
  BY <1>0, <1>1 DEF Active
<1>5. \A t \in Thread : ~Ends(t)'
  BY <1>4 DEF Ends
<1>6. BeingRun' = {Main}
  BY <1>0, <1>1, <1>4, <1>5 DEF BeingRun, Active
<1>7. Front' = Main
  BY <1>0, <1>5 DEF Front
<1>8. resumer[Main] = None
  BY MainFirst
<1>9. Chain = <<>>
  BY <1>3, <1>8, RowsBegin, ChainIs
<1>10. Chain' = <<Main>> /\ InARow'
  <2>1. IsRow(BeingRun', resumer', Front', <<Main>>)
    BY <1>6, <1>7, <1>8, RowsBegin
  <2>2. QED
    BY <2>1, ChainBecomes
<1>11. \A t \in Thread : Status(t)' = IF t = Main THEN "active" ELSE Status(t)
  BY <1>1, <1>4, <1>5 DEF Status, StatusOf
<1>12. [t \in Thread |-> IF Ends(t) THEN "over" ELSE StatusOf[state[t]]]'
         = [[t \in Thread |-> IF Ends(t) THEN "over" ELSE StatusOf[state[t]]] EXCEPT ![Main] = "active"]
  BY <1>0, <1>11, StatusBecomes
<1>13. Promise!Enter
  BY <1>9, <1>10, <1>12 DEF Promise!Enter
<1>14. QED
  BY <1>10, <1>13 DEF Kept, Promise!Next

\* The host's call is over.
LEMMA LeaveRow ==
  ASSUME NEW rank \in Ranks, Inv(rank), curr = Main,
         state' = [state EXCEPT ![Main] = "inactive"], curr' = None, resumer' = resumer
  PROVE  Kept
<1>0. Main \in Thread /\ None \notin Thread /\ state \in [Thread -> State]
  BY NoneIsNoThread DEF Inv, TypeInv
<1>1. state[Main] = "running" /\ \A t \in Thread : ~Ends(t)
  BY <1>0 DEF Inv, ChainInv, Ends
<1>2. \A t \in Thread \ {Main} : ~Active(t)
  <2>1. SUFFICES ASSUME NEW t \in Thread, t # Main, Active(t)
                 PROVE  FALSE
    OBVIOUS
  <2>2. rank[t] <= rank[Main] /\ rank[Main] = 0 /\ rank[t] \in Nat
    BY <2>1 DEF Inv, ChainInv, Ranks
  <2>3. rank[t] = rank[Main]
    BY <2>2
  <2>4. QED
    BY <1>0, <1>1, <2>1, <2>3 DEF Inv, ChainInv, Active
<1>3. BeingRun = {Main}
  BY <1>0, <1>1, <1>2 DEF BeingRun, Active
<1>4. state'[Main] = "inactive" /\ \A t \in Thread \ {Main} : state'[t] = state[t]
  BY <1>0
<1>5. \A t \in Thread : ~Ends(t)' /\ ~Active(t)'
  BY <1>1, <1>2, <1>4 DEF Ends, Active
<1>6. BeingRun' = {}
  BY <1>5 DEF BeingRun, Active
<1>7. Front = Main
  BY <1>0, <1>1 DEF Front
<1>8. resumer[Main] = None
  BY MainFirst
<1>9. Chain = <<Main>>
  BY <1>3, <1>7, <1>8, RowsBegin, ChainIs
<1>10. Chain' = <<>> /\ InARow'
  <2>1. IsRow(BeingRun', resumer', Front', <<>>)
    BY <1>6, <1>8, RowsBegin
  <2>2. QED
    BY <2>1, ChainBecomes
<1>11. \A t \in Thread : Status(t)' = IF t = Main THEN "fresh" ELSE Status(t)
  BY <1>1, <1>4, <1>5 DEF Status, StatusOf
<1>12. [t \in Thread |-> IF Ends(t) THEN "over" ELSE StatusOf[state[t]]]'
         = [[t \in Thread |-> IF Ends(t) THEN "over" ELSE StatusOf[state[t]]] EXCEPT ![Main] = "fresh"]
  BY <1>0, <1>11, StatusBecomes
<1>13. Promise!Leave
  BY <1>9, <1>10, <1>12 DEF Promise!Leave
<1>14. QED
  BY <1>10, <1>13 DEF Kept, Promise!Next

\* A thread is resumed: it goes in front, or is over when it has nothing to catch an
\* error with.
LEMMA ResumeRow ==
  ASSUME NEW rank \in Ranks, Inv(rank), InARow, curr \in Thread, callstack[curr] # <<>>,
         NEW u \in Thread, ~Active(u), SwitchTo(u),
         callstack'[curr] = callstack[curr],
         \/ Ready(u) /\ callstack'[u] # <<>>
         \/ state[u] # "yielded" /\ callstack'[u] = <<>>
  PROVE  Kept
<1>0. Main \in Thread /\ None \notin Thread /\ state \in [Thread -> State]
      /\ resumer \in [Thread -> Thread \cup {None}]
  BY NoneIsNoThread DEF Inv, TypeInv
<1>1. /\ state[curr] = "running" /\ Active(Main) /\ u # curr /\ u # Main
      /\ \A t \in Thread : state[t] = "running" => t = curr
  BY <1>0 DEF Inv, ChainInv, Active
<1>2. /\ state'[u] = "running" /\ state'[curr] = "resumed" /\ curr' = u /\ resumer'[u] = curr
      /\ \A t \in Thread \ {u, curr} : state'[t] = state[t]
      /\ \A t \in Thread \ {u} : resumer'[t] = resumer[t]
  BY <1>0, <1>1 DEF SwitchTo
<1>3. \A t \in Thread : ~Ends(t)
  BY <1>1 DEF Ends
<1>4. \A t \in Thread : Ends(t)' <=> (t = u /\ callstack'[u] = <<>>)
  BY <1>1, <1>2 DEF Ends
<1>5. Front = curr /\ curr \in BeingRun /\ u \notin BeingRun /\ BeingRun \subseteq Thread
  BY <1>0, <1>1, <1>3 DEF Front, BeingRun, Active
<1>6. PICK c : IsRow(BeingRun, resumer, Front, c)
  BY DEF InARow
<1>7. Chain = c /\ Chain # <<>>
  <2>1. Chain = c /\ Len(c) = Cardinality(BeingRun) /\ IsFiniteSet(BeingRun)
    BY <1>6, ChainIs, RowIs DEF IsRow
  <2>2. Cardinality(BeingRun) # 0
    BY <1>5, <2>1, FS_EmptySet
  <2>3. Len(<<>>) = 0
    OBVIOUS
  <2>4. QED
    BY <2>1, <2>2, <2>3
<1>8. CASE Ready(u) /\ callstack'[u] # <<>>
  <2>1. BeingRun' = BeingRun \cup {u}
    BY <1>1, <1>2, <1>3, <1>4, <1>8 DEF BeingRun, Active
  <2>2. Front' = u
    BY <1>0, <1>2, <1>4, <1>8 DEF Front
  <2>3. IsRow(BeingRun', resumer', Front', Append(c, u))
    <3>1. \A t \in BeingRun : resumer'[t] = resumer[t]
      BY <1>2, <1>5
    <3>2. resumer'[u] = Front /\ BeingRun # {}
      BY <1>2, <1>5
    <3>3. QED
      BY <1>5, <1>6, <2>1, <2>2, <3>1, <3>2, RowGrows
  <2>4. Chain' = Append(Chain, u) /\ InARow'
    BY <1>7, <2>3, ChainBecomes
  <2>5. \A t \in Thread : Status(t)' = IF t = u THEN "active" ELSE Status(t)
    BY <1>1, <1>2, <1>3, <1>4, <1>8 DEF Status, StatusOf
  <2>6. [t \in Thread |-> IF Ends(t) THEN "over" ELSE StatusOf[state[t]]]'
          = [[t \in Thread |-> IF Ends(t) THEN "over" ELSE StatusOf[state[t]]] EXCEPT ![u] = "active"]
    BY <2>5, StatusBecomes
  <2>7. [t \in Thread |-> IF Ends(t) THEN "over" ELSE StatusOf[state[t]]][u] \in {"fresh", "waiting"}
    BY <1>3, <1>8 DEF Ready, StatusOf
  <2>8. Promise!Resume(u)
    BY <1>7, <2>4, <2>6, <2>7 DEF Promise!Resume
  <2>9. QED
    BY <2>4, <2>8 DEF Kept, Promise!Next
<1>9. CASE state[u] # "yielded" /\ callstack'[u] = <<>>
  <2>1. BeingRun' = BeingRun
    BY <1>1, <1>2, <1>3, <1>4, <1>9 DEF BeingRun, Active
  <2>2. Front' = Front
    BY <1>0, <1>2, <1>4, <1>5, <1>9 DEF Front
  <2>3. \A t \in BeingRun : resumer'[t] = resumer[t]
    BY <1>2, <1>5
  <2>4. \A t \in Thread : Status(t)' = IF t = u THEN "over" ELSE Status(t)
    BY <1>1, <1>2, <1>3, <1>4, <1>9 DEF Status, StatusOf
  <2>5. CASE state[u] = "terminated"
    <3>1. Status(u) = "over"
      BY <1>3, <2>5 DEF Status, StatusOf
    <3>2. QED
      BY <2>1, <2>2, <2>3, <2>4, <3>1, SameRow
  <2>6. CASE state[u] # "terminated"
    <3>1. state[u] \in {"none", "inactive"}
      BY <1>0, <1>9, <2>6 DEF State, Active
    <3>2. [t \in Thread |-> IF Ends(t) THEN "over" ELSE StatusOf[state[t]]][u] = "fresh"
      BY <1>3, <3>1 DEF StatusOf
    <3>3. [t \in Thread |-> IF Ends(t) THEN "over" ELSE StatusOf[state[t]]]'
            = [[t \in Thread |-> IF Ends(t) THEN "over" ELSE StatusOf[state[t]]] EXCEPT ![u] = "over"]
      BY <2>4, StatusBecomes
    <3>4. IsRow(BeingRun', resumer', Front', c)
      BY <1>6, <2>1, <2>2, <2>3, RowStays
    <3>5. Chain' = Chain /\ InARow'
      BY <1>7, <3>4, ChainBecomes
    <3>6. Promise!Cancel(u)
      BY <1>7, <3>2, <3>3, <3>5 DEF Promise!Cancel
    <3>7. QED
      BY <3>5, <3>6 DEF Kept, Promise!Next
  <2>7. QED
    BY <2>5, <2>6
<1>10. QED
  BY <1>8, <1>9

\* The thread in front leaves the row, to wait or for good.
LEMMA AnswerRow ==
  ASSUME InARow, curr \in Thread, curr # Main, ~Ends(curr), state[curr] = "running",
         NEW r, r = resumer[curr], r # None,
         BeingRun' = BeingRun \ {curr}, Front' = r,
         \A t \in BeingRun \ {curr} : resumer'[t] = resumer[t],
         NEW s \in {"waiting", "over"},
         \A t \in Thread : Status(t)' = IF t = curr THEN s ELSE Status(t)
  PROVE  Kept
<1> SUFFICES ASSUME NEW u, u = curr
             PROVE  Kept
  OBVIOUS
<1>1. Front = u /\ u \in BeingRun
  BY DEF Front, BeingRun
<1>2. PICK c : IsRow(BeingRun, resumer, Front, c)
  BY DEF InARow
<1>3. /\ Len(c) > 1 /\ c[Len(c)] = u
      /\ IsRow(BeingRun', resumer', Front', SubSeq(c, 1, Len(c) - 1))
  <2>1. IsRow(BeingRun, resumer, u, c) /\ resumer[u] # None
    BY <1>1, <1>2
  <2>2. \A t \in BeingRun \ {u} : resumer'[t] = resumer[t]
    OBVIOUS
  <2>3. /\ Len(c) > 1 /\ c[Len(c)] = u
        /\ IsRow(BeingRun \ {u}, resumer', resumer[u], SubSeq(c, 1, Len(c) - 1))
    <3>1. ASSUME NEW T, T = BeingRun, NEW by, by = resumer, NEW to, to = resumer'
          PROVE  /\ Len(c) > 1 /\ c[Len(c)] = u
                 /\ IsRow(T \ {u}, to, by[u], SubSeq(c, 1, Len(c) - 1))
      <4>1. IsRow(T, by, u, c) /\ u \in T /\ by[u] # None /\ \A t \in T \ {u} : to[t] = by[t]
        BY <1>1, <2>1, <2>2, <3>1
      <4> HIDE <3>1
      <4>2. QED
        BY <4>1, RowShrinks
    <3>2. QED
      BY <3>1
  <2>4. QED
    BY <2>3
<1>4. Chain = c /\ Chain' = SubSeq(c, 1, Len(c) - 1) /\ InARow'
  BY <1>2, <1>3, ChainIs, ChainBecomes
<1>5. [t \in Thread |-> IF Ends(t) THEN "over" ELSE StatusOf[state[t]]]'
        = [[t \in Thread |-> IF Ends(t) THEN "over" ELSE StatusOf[state[t]]] EXCEPT ![u] = s]
  BY StatusBecomes
<1>6. Promise!Answer(s)
  BY <1>3, <1>4, <1>5 DEF Promise!Answer, Promise!Running
<1>7. QED
  BY <1>4, <1>6 DEF Kept, Promise!Next

\* The current thread answers its resumer; if it had nothing left it is over already.
LEMMA BackRow ==
  ASSUME NEW rank \in Ranks, Inv(rank), InARow, curr \in Thread, curr # Main,
         NEW r, r = resumer[curr], NEW st \in {"yielded", "terminated"},
         BackTo(r, curr, st), callstack'[r] # <<>>,
         callstack[curr] = <<>> => st = "terminated"
  PROVE  Kept
<1> SUFFICES ASSUME NEW u, u = curr
             PROVE  Kept
  OBVIOUS
<1>0. /\ None \notin Thread /\ state \in [Thread -> State]
      /\ resumer \in [Thread -> Thread \cup {None}]
  BY NoneIsNoThread DEF Inv, TypeInv
<1>1. state[u] = "running" /\ \A t \in Thread : state[t] = "running" => t = u
  BY DEF Inv, ChainInv
<1>2. r \in Thread /\ r # None /\ state[r] = "resumed" /\ r # u
  BY <1>0, <1>1 DEF Inv, ChainInv, Active
<1>3. /\ state'[u] = st /\ state'[r] = "running" /\ resumer'[u] = None /\ curr' = r
      /\ \A t \in Thread \ {u, r} : state'[t] = state[t]
      /\ \A t \in Thread \ {u} : resumer'[t] = resumer[t]
  BY <1>0, <1>2 DEF BackTo
<1>4. \A t \in Thread : ~Ends(t)'
  BY <1>1, <1>2, <1>3 DEF Ends
<1>5. \A t \in Thread : Ends(t) <=> (t = u /\ callstack[u] = <<>>)
  BY <1>1 DEF Ends
<1>6. BeingRun' = BeingRun \ {u} /\ Front' = r
  BY <1>0, <1>1, <1>2, <1>3, <1>4, <1>5 DEF BeingRun, Front
<1>7. CASE callstack[u] # <<>>
  <2>1. SUFFICES ASSUME NEW s, s = (IF st = "yielded" THEN "waiting" ELSE "over")
                 PROVE  Kept
    OBVIOUS
  <2>2. \A t \in Thread : Status(t)' = IF t = u THEN s ELSE Status(t)
    BY <1>1, <1>2, <1>3, <1>4, <1>5, <1>7, <2>1 DEF Status, StatusOf
  <2>3. ~Ends(u) /\ s \in {"waiting", "over"} /\ u \in Thread
    BY <1>5, <1>7, <2>1
  <2>4. \A t \in BeingRun \ {u} : resumer'[t] = resumer[t]
    BY <1>3 DEF BeingRun
  <2>5. QED
    BY <1>1, <1>2, <1>6, <2>2, <2>3, <2>4, AnswerRow
<1>8. CASE callstack[u] = <<>>
  <2>1. u \notin BeingRun /\ Front = r
    BY <1>0, <1>5, <1>8 DEF BeingRun, Front
  <2>2. \A t \in Thread : Status(t)' = Status(t)
    BY <1>1, <1>2, <1>3, <1>4, <1>5, <1>8 DEF Status, StatusOf
  <2>3. \A t \in BeingRun : resumer'[t] = resumer[t]
    BY <1>3, <2>1 DEF BeingRun
  <2>4. BeingRun' = BeingRun /\ Front' = Front
    BY <1>6, <2>1
  <2>5. QED
    BY <2>2, <2>3, <2>4, SameRow
<1>9. QED
  BY <1>7, <1>8

\* An error drops the last activation of a coroutine: it is over.
LEMMA DroppedRow ==
  ASSUME NEW rank \in Ranks, Inv(rank), InARow, curr \in Thread, curr # Main,
         callstack[curr] # <<>>, callstack'[curr] = <<>>, UNCHANGED <<state, resumer, curr>>
  PROVE  Kept
<1> SUFFICES ASSUME NEW u, u = curr, NEW r, r = resumer[curr]
             PROVE  Kept
  OBVIOUS
<1>0. None \notin Thread /\ resumer \in [Thread -> Thread \cup {None}]
  BY NoneIsNoThread DEF Inv, TypeInv
<1>1. state[u] = "running" /\ \A t \in Thread : state[t] = "running" => t = u
  BY DEF Inv, ChainInv
<1>2. r # None
  BY <1>1 DEF Inv, ChainInv, Active
<1>3. \A t \in Thread : ~Ends(t) /\ (Ends(t)' <=> t = u)
  BY <1>1 DEF Ends
<1>4. BeingRun' = BeingRun \ {u} /\ Front' = r
  BY <1>0, <1>1, <1>3 DEF BeingRun, Front
<1>5. \A t \in Thread : Status(t)' = IF t = u THEN "over" ELSE Status(t)
  BY <1>3 DEF Status
<1>6. ~Ends(u) /\ "over" \in {"waiting", "over"} /\ \A t \in BeingRun \ {u} : resumer'[t] = resumer[t]
  BY <1>3
<1>7. QED
  BY <1>1, <1>2, <1>4, <1>5, <1>6, AnswerRow

\* A stack with an activation on it.
LEMMA NotEmpty ==
  ASSUME NEW s \in Seq(Acts)
  PROVE  /\ s # <<>> <=> Len(s) >= 1
         /\ Len(s) \in Nat
BY LenProperties, EmptySeq

\* A push leaves one.
LEMMA PushedNotEmpty ==
  ASSUME NEW s \in Seq(Acts), NEW a \in Acts
  PROVE  Append(s, a) # <<>>
<1>1. Append(s, a) \in Seq(Acts) /\ Len(Append(s, a)) = Len(s) + 1 /\ Len(s) \in Nat
  BY AppendProperties, LenProperties
<1>2. \A q \in Seq(Acts) : Len(q) >= 1 => q # <<>>
  BY NotEmpty
<1>3. Len(Append(s, a)) >= 1
  BY <1>1
<1>4. QED
  BY <1>1, <1>2, <1>3, Zenon

\* An executor is not started for the first activation of a coroutine.
LEMMA EntryDeep ==
  ASSUME NEW rank \in Ranks, Inv(rank), ValueInv, OnExecutor, IsEntry(curr), curr # Main
  PROVE  Depth(curr) >= 2
<1> SUFFICES ASSUME NEW n, n = Len(cstack)
             PROVE  Depth(curr) >= 2
  OBVIOUS
<1>0. TypeInv /\ CStackInv(rank)
  BY DEF Inv
<1>1. /\ n \in 1 .. n /\ DOMAIN cstack = 1 .. n /\ Innermost = cstack[n] /\ n \in Nat
      /\ \A i \in 1 .. n : cstack[i] \in Catches /\ ~Refused(cstack[i])
      /\ cstack[n].kind = "executor" /\ cstack[n].thr = curr /\ cstack[n].depth = Depth(curr)
  BY <1>0, OnExecutorFacts, Types DEF OnExecutor, IsEntry
<1>2. n # 1
  <2>1. CatchInv(n)
    BY <1>0, <1>1 DEF CStackInv
  <2>2. QED
    BY <1>1, <2>1 DEF CatchInv
<1>3. n - 1 \in 1 .. n /\ n - 1 + 1 = n /\ n - 1 < n
  BY <1>1, <1>2
<1>4. LinkInv(n - 1) /\ SafeAt(n - 1) /\ cstack[n - 1] \in Catches
  BY <1>0, <1>1, <1>3 DEF CStackInv, ValueInv
<1>5. CASE cstack[n - 1].kind = "safe"
  <2>1. /\ cstack[n].thr = cstack[n - 1].thr
        /\ cstack[n].depth = cstack[n - 1].depth + 1
    BY <1>1, <1>3, <1>4, <1>5 DEF LinkInv
  <2>2. cstack[n - 1].depth >= 1 /\ cstack[n - 1].depth \in Nat
    BY <1>1, <1>4, <1>5, <2>1 DEF SafeAt, Catches
  <2>3. QED
    BY <1>1, <2>1, <2>2
<1>6. CASE cstack[n - 1].kind = "executor"
  BY <1>1, <1>3, <1>4, <1>6 DEF LinkInv
<1>7. QED
  BY <1>4, <1>5, <1>6 DEF Catches

\* A protected call begins: the host enters, or control stays.
LEMMA RowProtected ==
  ASSUME NEW rank \in Ranks, Inv(rank), ValueInv, InARow, ProtectedCall \/ RunFinalizer
  PROVE  Kept
<1>0. /\ Main \in Thread /\ None \notin Thread /\ state \in [Thread -> State]
      /\ curr \in Thread \cup {None}
  BY NoneIsNoThread DEF Inv, TypeInv
<1>1. ASSUME NEW t \in Thread, NEW what, StartSafe(t, what), t = curr \/ t = Main
      PROVE  Kept
  <2>1. resumer' = resumer /\ callstack' = callstack
    BY <1>1 DEF StartSafe
  <2>2. CASE curr = None
    <3>1. t = Main
      BY <1>0, <1>1, <2>2
    <3>2. state[Main] = "inactive"
      BY <1>0, <2>2 DEF Inv, ChainInv, RestInv, Active
    <3>3. Callable(t)
      BY <1>0, <2>2, <3>1, <3>2 DEF Callable
    <3>4. curr' = Main /\ state' = [state EXCEPT ![Main] = "running"]
      BY <1>1, <3>1, <3>3 DEF StartSafe
    <3>5. QED
      BY <2>1, <2>2, <3>4, EnterRow
  <2>3. CASE curr # None
    <3>1. Active(Main) /\ curr \in Thread /\ state[curr] = "running"
      BY <1>0, <2>3 DEF Inv, ChainInv
    <3>2. Callable(t) => t = curr
      BY <1>0, <1>1, <3>1 DEF Callable, Active
    <3>3. state' = state /\ curr' = curr
      <4>1. CASE Callable(t)
        <5>1. state' = [state EXCEPT ![curr] = "running"] /\ curr' = curr
          BY <1>1, <3>2, <4>1 DEF StartSafe
        <5>2. QED
          BY <1>0, <3>1, <5>1
      <4>2. CASE ~Callable(t)
        BY <1>1, <4>2 DEF StartSafe
      <4>3. QED
        BY <4>1, <4>2
    <3>4. QED
      BY <2>1, <3>3, StayStep
  <2>4. QED
    BY <2>2, <2>3
<1>2. CASE RunFinalizer
  BY <1>0, <1>1, <1>2 DEF RunFinalizer
<1>3. CASE curr = None /\ StartSafe(Main, "host")
  BY <1>0, <1>1, <1>3
<1>4. CASE InNative /\ StartSafe(curr, "pcall")
  <2>1. curr \in Thread
    BY <1>4, NoneRefused
  <2>2. QED
    BY <1>1, <1>4, <2>1
<1>5. CASE InHandler /\ StartSafe(curr, "errThrow")
  <2>1. curr \in Thread
    BY <1>5, NoneRefused DEF InHandler
  <2>2. QED
    BY <1>1, <1>5, <2>1
<1>6. QED
  BY <1>2, <1>3, <1>4, <1>5 DEF ProtectedCall

\* A protected call ends: the host leaves, or control stays.
LEMMA RowLeaves ==
  ASSUME NEW rank \in Ranks, Inv(rank), ValueInv, InARow,
         cstack # <<>>, Innermost.kind = "safe", LeaveSafe
  PROVE  Kept
<1> SUFFICES ASSUME NEW n, n = Len(cstack), NEW c, c = Innermost
             PROVE  Kept
  OBVIOUS
<1>0. TypeInv /\ CountInv /\ CStackInv(rank) /\ ChainInv(rank)
  BY DEF Inv
<1>1. /\ n \in Nat /\ n \in 1 .. n /\ DOMAIN cstack = 1 .. n /\ c = cstack[n] /\ c \in Catches
  BY <1>0, Types DEF Innermost
<1>2. CatchInv(n) /\ RefusedInv(n) /\ SafeAt(n) /\ SafeTopInv
  BY <1>0, <1>1 DEF CStackInv, ValueInv
<1>3. /\ c.depth <= Depth(c.thr) /\ c.thr \in Thread /\ c.depth \in Nat
      /\ state \in [Thread -> State]
  BY <1>0, <1>1, <1>2 DEF CatchInv, Catches, TypeInv
<1>4. /\ callstack' \in [Thread -> Seq(Acts)]
      /\ Len(callstack'[c.thr]) = c.depth
      /\ \A t \in Thread \ {c.thr} : callstack'[t] = callstack[t]
  BY <1>0, <1>3, LeaveSafeStacks
<1>5. curr' = c.curr /\ state' = [state EXCEPT ![c.thr] = c.state] /\ resumer' = resumer
  BY DEF LeaveSafe
<1>6. CASE c.curr = None
  <2>1. c.thr = Main /\ c.state = "inactive" /\ ~Refused(c)
    BY <1>1, <1>2, <1>6 DEF CatchInv, Refused
  <2>2. curr = Main
    BY <1>2, <2>1 DEF SafeTopInv
  <2>3. QED
    BY <1>5, <1>6, <2>1, <2>2, LeaveRow
<1>7. CASE Refused(c)
  <2>1. c.thr = Main /\ curr = c.curr /\ state[Main] = c.state /\ curr # Main /\ curr # None
    BY <1>1, <1>2, <1>7 DEF RefusedInv, Refused
  <2>2. curr \in Thread /\ state' = state /\ curr' = curr
    BY <1>0, <1>3, <1>5, <2>1 DEF TypeInv
  <2>3. callstack'[curr] = callstack[curr]
    BY <1>4, <2>1, <2>2
  <2>4. QED
    BY <1>5, <2>2, <2>3, StayStep
<1>8. CASE c.curr # None /\ ~Refused(c)
  <2>1. c.curr = c.thr /\ c.state = "running" /\ c.thr = curr
    BY <1>1, <1>2, <1>8 DEF CatchInv, SafeTopInv, Refused
  <2>2. state[curr] = "running"
    BY <1>0, <1>3, <2>1 DEF ChainInv
  <2>3. state' = state /\ curr' = curr
    BY <1>3, <1>5, <2>1, <2>2
  <2>4. curr # Main => callstack'[curr] # <<>> /\ callstack[curr] # <<>>
    <3>1. SUFFICES ASSUME curr # Main
                   PROVE  callstack'[curr] # <<>> /\ callstack[curr] # <<>>
      OBVIOUS
    <3>2. c.depth >= 1
      BY <1>1, <1>2, <2>1, <3>1 DEF SafeAt
    <3>3. callstack[c.thr] \in Seq(Acts) /\ callstack'[c.thr] \in Seq(Acts)
      BY <1>0, <1>3, <1>4 DEF TypeInv
    <3>4. Len(callstack[c.thr]) \in Nat /\ Len(callstack[c.thr]) >= 1
      BY <1>3, <3>2, <3>3, NotEmpty DEF Depth
    <3>5. QED
      BY <1>4, <2>1, <3>2, <3>3, <3>4, NotEmpty
  <2>5. QED
    BY <1>5, <2>3, <2>4, StayStep
<1>9. QED
  BY <1>6, <1>7, <1>8

\* Calls put an activation on the current stack, which had one unless the heap thread
\* begins.
LEMMA RowCalls ==
  ASSUME NEW rank \in Ranks, Inv(rank), ValueInv, InARow,
         \/ EnterExecutor
         \/ \E kind \in {"ecma", "native"} : Call(kind)
         \/ \E t \in Thread, b \in BOOLEAN : CallResume(t, b)
         \/ \E b \in BOOLEAN : CallYield(b)
  PROVE  Kept
<1>0. TypeInv /\ CStackInv(rank)
  BY DEF Inv
<1>1. ASSUME NEW a \in Acts, Push(curr, a), UNCHANGED <<state, resumer, curr>>,
             InEcma \/ InNative \/ InProtected
      PROVE  Kept
  <2>1. curr \in Thread
    BY <1>1, NoneRefused
  <2>2. callstack'[curr] # <<>>
    <3>1. callstack'[curr] = Append(callstack[curr], a) /\ callstack[curr] \in Seq(Acts)
      BY <1>0, <1>1, <2>1 DEF Push, TypeInv
    <3>2. QED
      BY <3>1, PushedNotEmpty
  <2>3. curr # Main => callstack[curr] # <<>>
    <3>1. CASE InEcma \/ InNative
      <4>1. InCode
        BY <3>1 DEF InEcma, InNative
      <4>2. QED
        BY <4>1, InCodeFacts
    <3>2. CASE InProtected
      <4>1. SUFFICES ASSUME curr # Main, NEW n, n = Len(cstack)
                     PROVE  callstack[curr] # <<>>
        OBVIOUS
      <4>2. /\ n \in Nat /\ n > 0 /\ Innermost = cstack[n] /\ Innermost.thr = curr
            /\ Depth(curr) = Innermost.depth /\ Innermost.kind = "safe"
        BY <3>2, <4>1, QuietFacts DEF InProtected
      <4>3. SafeAt(n)
        BY <1>0, <4>1, <4>2, Types DEF ValueInv
      <4>4. Depth(curr) >= 1
        BY <4>1, <4>2, <4>3 DEF SafeAt
      <4>5. callstack[curr] \in Seq(Acts)
        BY <1>0, <2>1 DEF TypeInv
      <4>6. QED
        BY <4>4, <4>5, NotEmpty DEF Depth
    <3>3. QED
      BY <1>1, <3>1, <3>2
  <2>4. QED
    BY <1>1, <2>2, <2>3, StayStep
<1>2. CASE EnterExecutor
  <2>1. EntryActivation \in Acts
    BY DEF EntryActivation, Activation, Acts
  <2>2. QED
    BY <1>1, <1>2, <2>1 DEF EnterExecutor, threads
<1>3. ASSUME NEW kind \in {"ecma", "native"}, Call(kind)
      PROVE  Kept
  <2>1. Activation(kind) \in Acts
    BY DEF Activation, Acts
  <2>2. QED
    BY <1>1, <1>3, <2>1 DEF Call, threads
<1>4. ASSUME NEW t \in Thread, NEW b \in BOOLEAN, CallResume(t, b)
      PROVE  Kept
  <2>1. [Activation("resume") EXCEPT !.to = t, !.iserror = b] \in Acts
    BY NoneIsNoThread DEF Activation, Acts
  <2>2. QED
    BY <1>1, <1>4, <2>1 DEF CallResume, threads
<1>5. ASSUME NEW b \in BOOLEAN, CallYield(b)
      PROVE  Kept
  <2>1. [Activation("yield") EXCEPT !.iserror = b] \in Acts
    BY DEF Activation, Acts
  <2>2. QED
    BY <1>1, <1>5, <2>1 DEF CallYield, threads
<1>6. QED
  BY <1>2, <1>3, <1>4, <1>5

\* A call of resume() under which there is an activation of the thread.
LEMMA ResumerKeeps ==
  ASSUME NEW rank \in Ranks, Inv(rank), OnExecutor, curr # Main, NEW r, r = resumer[curr]
  PROVE  r \in Thread /\ r # curr /\ callstack[r] # <<>> /\ Depth(r) \in Nat /\ Depth(r) >= 2
<1>1. /\ r \in Thread /\ r # curr /\ callstack[r] # <<>> /\ Depth(r) \in Nat /\ Depth(r) >= 1
  BY ResumerFacts
<1>2. curr \in Thread
  BY OnExecutorFacts
<1>3. Top(r).kind = "resume"
  BY <1>1, <1>2, NoneIsNoThread DEF Inv, ChainInv
<1>4. callstack[r][1].kind = "ecma"
  BY <1>1 DEF Inv, RestInv
<1>5. Depth(r) # 1
  BY <1>3, <1>4 DEF Top
<1>6. QED
  BY <1>1, <1>5

\* A return: control stays in the thread, or the coroutine answers for good.
LEMMA RowReturn ==
  ASSUME NEW rank \in Ranks, Inv(rank), ValueInv, InARow, TypeInv', InEcma, ReturnTo(curr)
  PROVE  Kept
<1>0. TypeInv
  BY DEF Inv
<1>1. /\ OnExecutor /\ curr \in Thread /\ callstack[curr] # <<>>
      /\ Depth(curr) \in Nat /\ Depth(curr) >= 1
  <2>1. InCode
    BY DEF InEcma
  <2>2. QED
    BY <2>1, InCodeFacts
<1>2. CASE /\ StacksCut /\ UNCHANGED <<state, resumer, curr>>
           /\ cstack' = cstack \/ cstack' = PopC(cstack)
           /\ \/ Len(callstack'[curr]) = Depth(curr) - 1 /\ (Depth(curr) >= 2 \/ IsEntry(curr))
              \/ /\ Len(callstack'[curr]) = Depth(curr)
                 /\ callstack'[curr][Depth(curr)].kind = "ecma"
  <2>1. curr # Main => Len(callstack'[curr]) >= 1
    BY <1>1, <1>2, EntryDeep
  <2>2. callstack'[curr] \in Seq(Acts)
    BY <1>1 DEF TypeInv
  <2>3. curr # Main => callstack'[curr] # <<>>
    BY <2>1, <2>2, NotEmpty
  <2>4. QED
    BY <1>1, <1>2, <2>3, StayStep
<1>3. CASE /\ curr # Main /\ Depth(curr) = 1 /\ resumer[curr] \in Thread /\ resumer[curr] # curr
           /\ BackTo(resumer[curr], curr, "terminated")
           /\ cstack' = cstack
           /\ callstack' = [callstack EXCEPT ![curr] = <<>>,
                             ![resumer[curr]] = SubSeq(callstack[resumer[curr]], 1, Depth(resumer[curr]) - 1)]
  <2>1. SUFFICES ASSUME NEW r, r = resumer[curr]
                 PROVE  Kept
    OBVIOUS
  <2>2. r \in Thread /\ r # curr /\ callstack[r] # <<>> /\ Depth(r) \in Nat /\ Depth(r) >= 2
    BY <1>1, <1>3, <2>1, ResumerKeeps
  <2>3. Len(callstack'[r]) = Depth(r) - 1
    BY <1>0, <1>1, <1>3, <2>1, <2>2, AnswerCuts
  <2>4. callstack'[r] \in Seq(Acts) /\ Len(callstack'[r]) >= 1
    BY <2>2, <2>3 DEF TypeInv
  <2>5. callstack'[r] # <<>>
    BY <2>4, NotEmpty
  <2>6. QED
    BY <1>1, <1>3, <2>1, <2>5, BackRow
<1>4. QED
  BY <1>2, <1>3, ReturnCases

\* A resume.
LEMMA RowResumes ==
  ASSUME NEW rank \in Ranks, Inv(rank), ValueInv, InARow, TypeInv', ResumeError \/ ResumeValue
  PROVE  Kept
<1>0. TypeInv /\ JumpInv
  BY DEF Inv
<1> SUFFICES ASSUME NEW u, u = lj.to
             PROVE  Kept
  OBVIOUS
<1>1. Handling("resume") /\ SwitchTo(u)
  BY DEF ResumeError, ResumeValue
<1>2. OnExecutor /\ lj.type = "resume" /\ ~Falling /\ curr \in Thread
  BY <1>1, HandlingFacts
<1>3. callstack[curr] # <<>> /\ Top(curr).kind = "resume" /\ Top(curr).to = u
  BY <1>0, <1>2 DEF JumpInv
<1>4. /\ Depth(curr) \in 1 .. Depth(curr) /\ Depth(curr) \in DOMAIN callstack[curr]
      /\ Top(curr) = callstack[curr][Depth(curr)] /\ Top(curr) \in Acts
  BY <1>0, <1>1, <1>2, <1>3, HandlingFacts, Types
<1>5. u \in Thread /\ ~Active(u)
  <2>1. u \in Thread
    BY <1>3, <1>4 DEF Acts
  <2>2. QED
    BY <1>2, <1>3, <1>4, <2>1, CurrentStack
<1>6. u # curr
  BY <1>2, <1>5, OnExecutorFacts DEF Active
<1>7. CASE ResumeError
  <2>1. callstack' = callstack
    BY <1>7 DEF ResumeError, stacks
  <2>2. CASE state[u] = "yielded"
    <3>1. Ready(u) /\ callstack'[u] # <<>>
      BY <1>5, <2>1, <2>2 DEF Ready, Inv, RestInv
    <3>2. QED
      BY <1>1, <1>2, <1>3, <1>5, <2>1, <3>1, ResumeRow
  <2>3. CASE state[u] # "yielded"
    <3>1. callstack'[u] = <<>>
      BY <1>5, <2>1, <2>3, RestingStack
    <3>2. QED
      BY <1>1, <1>2, <1>3, <1>5, <2>1, <2>3, <3>1, ResumeRow
  <2>4. QED
    BY <2>2, <2>3
<1>8. CASE ResumeValue
  <2>1. Ready(u)
    <3>1. ~lj.iserror
      BY <1>8 DEF ResumeValue
    <3>2. ValueResume(curr, Depth(curr))
      BY <1>2, <1>3, <1>4, <3>1 DEF ValueInv, ValueResume
    <3>3. curr # None
      BY <1>2, NoneIsNoThread
    <3>4. QED
      BY <1>2, <1>3, <3>2, <3>3 DEF ValueInv
  <2>2. callstack'[u] # <<>> /\ callstack'[curr] = callstack[curr]
    <3>1. CASE state[u] = "yielded"
      <4>1. UnwindTo(u, Depth(u) - 1)
        BY <1>8, <3>1 DEF ResumeValue
      <4>2. Depth(u) \in Nat /\ Depth(u) >= 2
        BY <1>0, <1>5, <3>1, RestingStack, Types
      <4>3. Depth(u) - 1 \in 0 .. Depth(u) /\ Depth(u) - 1 >= 1
        BY <4>2
      <4>4. /\ Len(callstack'[u]) >= 1 /\ callstack'[curr] = callstack[curr]
            /\ callstack'[u] \in Seq(Acts)
        BY <1>0, <1>2, <1>5, <1>6, <4>1, <4>3, UnwindCuts DEF TypeInv
      <4>5. QED
        BY <4>4, NotEmpty
    <3>2. CASE state[u] # "yielded"
      <4>1. callstack' = [callstack EXCEPT ![u] = Append(@, Activation("ecma"))]
        BY <1>8, <3>2 DEF ResumeValue, Push
      <4>2. /\ callstack'[u] = Append(callstack[u], Activation("ecma"))
            /\ callstack'[curr] = callstack[curr] /\ callstack[u] \in Seq(Acts)
        BY <1>0, <1>2, <1>5, <1>6, <4>1 DEF TypeInv
      <4>3. Activation("ecma") \in Acts
        BY DEF Activation, Acts
      <4>4. QED
        BY <4>2, <4>3, PushedNotEmpty
    <3>3. QED
      BY <3>1, <3>2
  <2>3. QED
    BY <1>1, <1>2, <1>3, <1>5, <2>1, <2>2, ResumeRow
<1>9. QED
  BY <1>7, <1>8

\* A yield, or the end of a thread with nothing left.
LEMMA RowBack ==
  ASSUME NEW rank \in Ranks, Inv(rank), InARow, TypeInv',
         YieldError \/ YieldValue \/ ThrowTerminates
  PROVE  Kept
<1>0. TypeInv /\ JumpInv
  BY DEF Inv
<1> SUFFICES ASSUME NEW r, r = resumer[curr]
             PROVE  Kept
  OBVIOUS
<1>1. Handling("yield") \/ Handling("throw")
  BY DEF YieldError, YieldValue, ThrowTerminates
<1>2. OnExecutor /\ curr \in Thread
  BY <1>1, HandlingFacts
<1>3. CASE YieldError \/ YieldValue
  <2>1. Handling("yield") /\ BackTo(r, curr, "yielded")
    BY <1>3 DEF YieldError, YieldValue
  <2>2. lj.type = "yield" /\ ~Falling
    BY <2>1, HandlingFacts
  <2>3. callstack[curr] # <<>> /\ Top(curr).kind = "yield"
    BY <1>0, <1>2, <2>2 DEF JumpInv
  <2>4. curr # Main
    <3>1. Depth(curr) \in 1 .. Depth(curr) /\ Top(curr) = callstack[curr][Depth(curr)]
      BY <1>0, <1>2, <2>3, Types DEF Top
    <3>2. QED
      BY <1>2, <2>2, <2>3, <3>1, CurrentStack
  <2>5. r \in Thread /\ callstack[r] # <<>> /\ Depth(r) \in Nat /\ Depth(r) >= 2
    BY <1>2, <2>4, ResumerKeeps
  <2>6. callstack'[r] # <<>>
    <3>1. CASE YieldError
      BY <2>5, <3>1 DEF YieldError, stacks
    <3>2. CASE YieldValue
      <4>1. UnwindTo(r, Depth(r) - 1)
        BY <3>2 DEF YieldValue
      <4>2. Depth(r) - 1 \in 0 .. Depth(r) /\ Depth(r) - 1 >= 1
        BY <2>5
      <4>3. Len(callstack'[r]) >= 1 /\ callstack'[r] \in Seq(Acts)
        BY <1>0, <2>5, <4>1, <4>2, UnwindCuts DEF TypeInv
      <4>4. QED
        BY <4>3, NotEmpty
    <3>3. QED
      BY <1>3, <3>1, <3>2
  <2>7. QED
    BY <1>2, <2>1, <2>3, <2>4, <2>6, BackRow
<1>4. CASE ThrowTerminates
  <2>1. BackTo(r, curr, "terminated") /\ callstack' = callstack /\ callstack[curr] = <<>>
    BY <1>4 DEF ThrowTerminates, stacks
  <2>2. curr # Main
    BY <1>2, <2>1, OnExecutorFacts
  <2>3. callstack'[r] # <<>>
    BY <1>2, <2>1, <2>2, ResumerKeeps
  <2>4. QED
    BY <1>2, <2>1, <2>2, <2>3, BackRow
<1>5. QED
  BY <1>3, <1>4

\* Try statements, errors and returns of native functions stay in the thread, unless an
\* error drops the last activation of a coroutine.
LEMMA RowInThread ==
  ASSUME NEW rank \in Ranks, Inv(rank), ValueInv, InARow, TypeInv',
         \/ NativeReturns \/ Raise \/ EndTry \/ LongjmpFromThread
         \/ \E cat \in Catching : Try(cat)
         \/ ThrowCaught \/ ThrowUnwinds
  PROVE  Kept
<1>0. TypeInv /\ RestInv
  BY DEF Inv, ValueInv
<1>1. ASSUME NEW cat, curr \in Thread, callstack[curr] # <<>>,
             SetCat(curr, cat), UNCHANGED <<state, resumer, curr>>
      PROVE  Kept
  <2>1. callstack'[curr] # <<>>
    BY <1>0, <1>1, CatCuts
  <2>2. QED
    BY <1>1, <2>1, StayStep
<1>2. CASE NativeReturns
  <2>1. InNative /\ UnwindTo(curr, Depth(curr) - 1) /\ UNCHANGED <<state, resumer, curr>>
    BY <1>2 DEF NativeReturns, threads
  <2>2. InCode /\ Top(curr).kind = "native"
    BY <2>1 DEF InNative
  <2>3. /\ curr \in Thread /\ callstack[curr] # <<>>
        /\ Depth(curr) \in Nat /\ Depth(curr) >= 1 /\ Top(curr) = callstack[curr][Depth(curr)]
    BY <2>2, InCodeFacts
  <2>4. callstack[curr][1].kind = "ecma"
    BY <1>0, <2>3 DEF RestInv
  <2>5. Depth(curr) # 1
    BY <2>2, <2>3, <2>4
  <2>6. Depth(curr) - 1 \in 0 .. Depth(curr) /\ Depth(curr) - 1 >= 1
    BY <2>3, <2>5
  <2>7. Len(callstack'[curr]) >= 1 /\ callstack'[curr] \in Seq(Acts)
    BY <1>0, <2>1, <2>3, <2>6, UnwindCuts DEF TypeInv
  <2>8. callstack'[curr] # <<>>
    BY <2>7, NotEmpty
  <2>9. QED
    BY <2>1, <2>3, <2>8, StayStep
<1>3. CASE Raise \/ LongjmpFromThread
  <2>1. UNCHANGED <<state, resumer, curr, callstack>>
    BY <1>3 DEF Raise, LongjmpFromThread, threads, stacks
  <2>2. QED
    BY <2>1, StayStep
<1>4. CASE EndTry
  <2>1. InEcma /\ SetCat(curr, "none") /\ UNCHANGED <<state, resumer, curr>>
    BY <1>4 DEF EndTry, threads
  <2>2. curr \in Thread /\ callstack[curr] # <<>>
    BY <2>1, InCodeFacts DEF InEcma
  <2>3. QED
    BY <1>1, <2>1, <2>2
<1>5. ASSUME NEW cat \in Catching, Try(cat)
      PROVE  Kept
  <2>1. InEcma /\ SetCat(curr, cat) /\ UNCHANGED <<state, resumer, curr>>
    BY <1>5 DEF Try, threads
  <2>2. curr \in Thread /\ callstack[curr] # <<>>
    BY <2>1, InCodeFacts DEF InEcma
  <2>3. QED
    BY <1>1, <2>1, <2>2
<1>6. CASE ThrowCaught
  <2>1. /\ Handling("throw") /\ callstack[curr] # <<>>
        /\ UNCHANGED <<state, resumer, curr>>
        /\ SetCat(curr, "none") \/ SetCat(curr, "throwing")
    BY <1>6 DEF ThrowCaught, threads
  <2>2. curr \in Thread
    BY <2>1, HandlingFacts
  <2>3. QED
    BY <1>1, <2>1, <2>2
<1>7. CASE ThrowUnwinds
  <2>1. Handling("throw") /\ callstack[curr] # <<>> /\ UNCHANGED <<state, resumer, curr>>
    BY <1>7 DEF ThrowUnwinds, threads
  <2>2. OnExecutor /\ curr \in Thread /\ Depth(curr) \in Nat /\ Depth(curr) >= 1
    BY <2>1, HandlingFacts
  <2>3. CASE IsEntry(curr)
    <3>1. callstack' = callstack
      BY <1>7, <2>3 DEF ThrowUnwinds
    <3>2. QED
      BY <2>1, <3>1, StayStep
  <2>4. CASE ~IsEntry(curr)
    <3>1. UnwindTo(curr, Depth(curr) - 1)
      BY <1>7, <2>4 DEF ThrowUnwinds
    <3>2. Depth(curr) - 1 \in 0 .. Depth(curr)
      BY <2>2
    <3>3. Len(callstack'[curr]) = Depth(curr) - 1 /\ callstack'[curr] \in Seq(Acts)
      BY <1>0, <2>2, <3>1, <3>2, UnwindCuts DEF TypeInv
    <3>4. CASE Depth(curr) = 1
      <4>1. callstack'[curr] = <<>>
        BY <3>3, <3>4, EmptySeq
      <4>2. curr # Main
        <5>1. \A d \in 1 .. Depth(curr) : d < Depth(curr) => ~callstack[curr][d].entry
          BY <3>4
        <5>2. QED
          BY <2>2, <2>4, <5>1, NothingBelow
      <4>3. QED
        BY <2>1, <2>2, <4>1, <4>2, DroppedRow
    <3>5. CASE Depth(curr) # 1
      <4>1. Len(callstack'[curr]) >= 1
        BY <2>2, <3>3, <3>5
      <4>2. callstack'[curr] # <<>>
        BY <3>3, <4>1, NotEmpty
      <4>3. QED
        BY <2>1, <4>2, StayStep
    <3>6. QED
      BY <3>4, <3>5
  <2>5. QED
    BY <2>3, <2>4
<1>8. QED
  BY <1>2, <1>3, <1>4, <1>5, <1>6, <1>7

\* A new thread is as fresh as one that was not there.
LEMMA RowNew ==
  ASSUME NEW rank \in Ranks, Inv(rank), InARow, NEW u \in Thread, NEW b, New(u, b)
  PROVE  Kept
<1>0. state \in [Thread -> State] /\ \A t \in Thread : state[t] = "running" => t = curr
  BY DEF Inv, TypeInv, ChainInv
<1>1. /\ state[u] = "none" /\ state' = [state EXCEPT ![u] = "inactive"]
      /\ UNCHANGED <<resumer, curr, callstack>>
  BY DEF New, stacks
<1>2. state'[u] = "inactive" /\ \A t \in Thread \ {u} : state'[t] = state[t]
  BY <1>0, <1>1
<1>3. \A t \in Thread : Ends(t)' <=> Ends(t)
  BY <1>1, <1>2 DEF Ends
<1>4. BeingRun' = BeingRun
  BY <1>1, <1>2, <1>3 DEF BeingRun
<1>5. Front' = Front
  <2>1. curr # None => curr \in Thread
    BY DEF Inv, TypeInv
  <2>2. QED
    BY <1>1, <1>3, <2>1 DEF Front
<1>6. \A t \in Thread : Status(t)' = Status(t)
  BY <1>1, <1>2, <1>3 DEF Status, StatusOf
<1>7. QED
  BY <1>1, <1>4, <1>5, <1>6, SameRow

\* Each step is one of ResumeChain, or none.
LEMMA RowStep == IInv /\ ValueInv /\ InARow /\ [Next]_vars => Kept
<1> SUFFICES ASSUME NEW rank \in Ranks, Inv(rank), ValueInv, InARow, [Next]_vars
             PROVE  Kept
  BY DEF IInv
<1>1. TypeInv'
  <2>1. IInv'
    BY StepInv DEF IInv
  <2>2. QED
    BY <2>1 DEF IInv, Inv
<1>2. CASE Return
  BY <1>1, <1>2, RowReturn DEF Return
<1>3. CASE EndFinally
  <2>1. CASE InEcma /\ ReturnTo(curr)
    BY <1>1, <2>1, RowReturn
  <2>2. CASE UNCHANGED <<threads, stacks>>
    BY <2>2, StayStep DEF threads, stacks
  <2>3. QED
    BY <1>3, <2>1, <2>2 DEF EndFinally
<1>4. CASE SafeReturns
  BY <1>4, RowLeaves DEF SafeReturns, InProtected, Quiet
<1>5. CASE SafeCatches
  <2>1. cstack # <<>>
    BY <1>5 DEF SafeCatches, Inv, JumpInv
  <2>2. QED
    BY <1>5, <2>1, RowLeaves DEF SafeCatches
<1>6. CASE UNCHANGED vars
  BY <1>6, StayStep DEF vars, threads, stacks
<1>7. ASSUME NEW t \in Thread, NEW b \in BOOLEAN, New(t, b)
      PROVE  Kept
  BY <1>7, RowNew
<1>8. CASE ProtectedCall \/ RunFinalizer
  BY <1>8, RowProtected
<1>9. CASE ResumeError \/ ResumeValue
  BY <1>1, <1>9, RowResumes
<1>10. CASE YieldError \/ YieldValue \/ ThrowTerminates
  BY <1>1, <1>10, RowBack
<1>11. QED
  BY <1>1, <1>2, <1>3, <1>4, <1>5, <1>6, <1>7, <1>8, <1>9, <1>10, RowCalls, RowInThread DEF Next

\* At first no thread is being run.
LEMMA RowInit == Init => InARow /\ Promise!Init
<1> SUFFICES ASSUME Init
             PROVE  InARow /\ Promise!Init
  OBVIOUS
<1>1. /\ \A t \in Thread : state[t] \in {"none", "inactive"}
      /\ \A t \in Thread : resumer[t] = None
  BY DEF Init
<1>2. BeingRun = {} /\ \A t \in Thread : ~Ends(t)
  BY <1>1 DEF BeingRun, Ends
<1>3. IsRow(BeingRun, resumer, Front, <<>>)
  BY <1>1, <1>2, RowsBegin, NoneIsNoThread
<1>4. Chain = <<>>
  BY <1>3, ChainIs
<1>5. \A t \in Thread : StatusOf[state[t]] = "fresh"
  BY <1>1 DEF StatusOf
<1>6. Promise!Init
  BY <1>2, <1>4, <1>5 DEF Promise!Init
<1>7. QED
  BY <1>3, <1>6 DEF InARow

\* Resumes and yields, with values or errors, through call stacks, protected calls,
\* finally blocks, error handlers and finalizers: the threads being run are a stack,
\* control goes back to the very thread that resumed, only a thread that has not begun
\* or waits in a yield is resumed, and one that is over never runs again
\* (duk__handle_longjmp, duk__handle_return, duk_bi_thread_resume).
THEOREM ImplementsResumeChain == Spec => ImplementsChain
<1>1. Init => InARow /\ ValueInv /\ Promise!Init
  BY RowInit, ValueInit
<1>2. IInv /\ ValueInv /\ InARow /\ [Next]_vars => ValueInv' /\ InARow' /\ [Promise!Next]_(Promise!vars)
  BY RowStep, ValueStep DEF Kept
<1>3. QED
  BY <1>1, <1>2, Invariance, PTL DEF Spec, ImplementsChain, Promise!Spec
=============================================================================
