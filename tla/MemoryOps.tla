------------------------------ MODULE MemoryOps ------------------------------
(***************************************************************************)
(* What the operations on global memory do to the words they touch, apart  *)
(* from where the words live and how the operation gets there.             *)
(*                                                                         *)
(* An operation is a record: the words it reads (src) and writes (dst),    *)
(* its operands (val) and, for compare-exchange, the expected value (exp). *)
(* A plain load or store moves an object of several words with memcpy, in  *)
(* no particular order; an atomic operation is one step on one word.       *)
(***************************************************************************)
EXTENDS Integers, Sequences

CONSTANTS
  Word,     \* the words of global memory
  Modulus,  \* integers wrap around at this value, 2^w in the code
  Object,   \* the objects the program uses: sequences of words
  Operand,  \* the integers it uses as operands
  Kinds     \* the kinds of operation it uses

Val == 0 .. Modulus - 1

PlainKind == {"load", "store", "copy"}
FetchKind == {"atomicLoad", "compareExchange", "fetchAdd", "fetchSub"}
AtomicKind == FetchKind \cup {"atomicStore", "increment", "decrement"}
Kind == PlainKind \cup AtomicKind

ASSUME ModulusAssumption == Modulus \in Nat \ {0}
ASSUME ObjectAssumption == \A b \in Object : b \in Seq(Word) /\ Len(b) > 0
ASSUME OperandAssumption == Operand \subseteq Val /\ Kinds \subseteq Kind

LoadOp(b) ==
  [kind |-> "load", src |-> b, dst |-> <<>>, val |-> <<>>, exp |-> 0]
StoreOp(b, v) ==
  [kind |-> "store", src |-> <<>>, dst |-> b, val |-> v, exp |-> 0]
CopyOp(s, d) ==
  [kind |-> "copy", src |-> s, dst |-> d, val |-> <<>>, exp |-> 0]
AtomicOp(kind, w, v, e) ==
  [kind |-> kind, src |-> <<>>, dst |-> <<w>>, val |-> <<v>>, exp |-> e]

\* The operations of a program.  memcpy is not called on overlapping objects.
Copies ==
  {p \in Object \X Object :
     Len(p[1]) = Len(p[2]) /\ \A i, j \in 1 .. Len(p[1]) : p[1][i] # p[2][j]}

LoadOps == {LoadOp(b) : b \in Object}
StoreOps == UNION {{StoreOp(b, v) : v \in [1 .. Len(b) -> Operand]} : b \in Object}
CopyOps == {CopyOp(p[1], p[2]) : p \in Copies}
AtomicOps ==
  {AtomicOp(k, w, v, 0) : k \in AtomicKind, w \in Word, v \in Operand \cup {0}}
    \cup {AtomicOp("compareExchange", w, v, e) :
            w \in Word, v \in Operand, e \in Operand}

Op == {o \in LoadOps \cup StoreOps \cup CopyOps \cup AtomicOps : o.kind \in Kinds}

\* The indices an operation has to read, and those it has to write.
ReadSet(o) == 1 .. Len(o.src)
WriteSet(o) == 1 .. Len(o.dst)

\* Mutant: the sum is not reduced to the width of the word.
MutantNoWrap(o, i, cur, b) ==
  CASE o.kind \in {"store", "atomicStore"} -> o.val[i]
    [] o.kind = "compareExchange" -> IF cur = o.exp THEN o.val[1] ELSE cur
    [] o.kind \in {"increment", "fetchAdd"} -> cur + o.val[1]
    [] OTHER -> cur

(***************************************************************************)
(* The value left in the i-th word written, if it held cur; b holds what   *)
(* the operation has read before.                                          *)
(***************************************************************************)
NewValue(o, i, cur, b) ==
  CASE o.kind \in {"store", "atomicStore"} -> o.val[i]
    [] o.kind = "copy" -> b[i]
    [] o.kind = "compareExchange" -> IF cur = o.exp THEN o.val[1] ELSE cur
    [] o.kind \in {"increment", "fetchAdd"} -> (cur + o.val[1]) % Modulus
    [] o.kind \in {"decrement", "fetchSub"} -> (cur - o.val[1]) % Modulus
    [] OTHER -> cur

(***************************************************************************)
(* A transfer is an operation under way: what it has still to read and to  *)
(* write, and what it has read.  compareExchange leaves in buf the value   *)
(* it found, as __atomic_compare_exchange leaves it in *expected.          *)
(***************************************************************************)
Begin(o) ==
  [op |-> o, rd |-> ReadSet(o), wr |-> WriteSet(o),
   buf |-> [i \in ReadSet(o) \cup WriteSet(o) |-> 0]]

NoOp == [kind |-> "none", src |-> <<>>, dst |-> <<>>, val |-> <<>>, exp |-> 0]
Idle == [op |-> NoOp, rd |-> {}, wr |-> {}, buf |-> <<>>]

Read(x, i, mem) ==
  [x EXCEPT !.rd = @ \ {i}, !.buf = [@ EXCEPT ![i] = mem[x.op.src[i]]]]

\* A copy forgets what it has written.
Wrote(x, i, mem) ==
  [x EXCEPT !.wr = @ \ {i},
            !.buf = [@ EXCEPT ![i] = IF x.op.kind \in FetchKind
                                     THEN mem[x.op.dst[i]] ELSE 0]]

Write(x, i, mem) ==
  [mem EXCEPT ![x.op.dst[i]] = NewValue(x.op, i, @, x.buf)]

\* What the operation returns: nothing, if it only writes.
HasResult(o) == o.kind \in FetchKind \cup {"load"}
Result(o, b) == IF HasResult(o) THEN b ELSE <<>>

Complete(x) == x.rd = {} /\ x.wr = {}
=============================================================================
