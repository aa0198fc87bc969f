-------------------------- MODULE GlobalMemoryProofs --------------------------
(***************************************************************************)
(* Proofs about global memory, for any number of nodes, harts, words and   *)
(* objects, any placement of them and any integer width.                   *)
(*                                                                         *)
(* The inductive invariant says of every transfer, with a hart or in a     *)
(* message, what is left of it, of every hart what it may do in place, and *)
(* of every message who waits for it.  Types, OwnerAccess and HandleLive   *)
(* are parts of it, and with it every step is one of AtomicMemory.         *)
(***************************************************************************)
EXTENDS GlobalMemory, TLAPS

-----------------------------------------------------------------------------
(***************************************************************************)
(* Operations and transfers.                                               *)
(***************************************************************************)
\* What the operations of a program have in common.
OpOK(o) ==
  /\ o.kind \in Kind
  /\ o.src \in Seq(Word) /\ o.dst \in Seq(Word)
  /\ o.kind = "load" => o.dst = <<>> /\ Len(o.src) > 0
  /\ o.kind = "copy" => Len(o.src) = Len(o.dst) /\ Len(o.src) > 0
  /\ o.kind \notin {"load", "copy"} => o.src = <<>> /\ Len(o.dst) > 0
  /\ o.kind = "store" => \A i \in 1 .. Len(o.dst) : o.val[i] \in Val
  /\ o.kind \in AtomicKind => Len(o.dst) = 1 /\ o.val[1] \in Val

\* Every operation is well formed.
LEMMA OpFacts ==
  ASSUME NEW o \in Op
  PROVE  OpOK(o)
<1>0. 0 \in Val /\ Operand \subseteq Val
  BY ModulusAssumption, OperandAssumption DEF Val
<1>1. CASE \E b \in Object : o = LoadOp(b)
  BY <1>1, ObjectAssumption DEF LoadOp, OpOK, Kind, PlainKind, AtomicKind, FetchKind
<1>2. CASE \E b \in Object : \E v \in [1 .. Len(b) -> Operand] : o = StoreOp(b, v)
  <2>0. PICK b \in Object : \E v \in [1 .. Len(b) -> Operand] : o = StoreOp(b, v)
    BY <1>2
  <2>1. PICK v \in [1 .. Len(b) -> Operand] : o = StoreOp(b, v)
    BY <2>0
  <2>2. b \in Seq(Word) /\ Len(b) > 0
    BY ObjectAssumption
  <2>3. o.kind = "store" /\ o.src = <<>> /\ o.dst = b /\ o.val = v
    BY <2>1 DEF StoreOp
  <2> QED BY <1>0, <2>2, <2>3 DEF OpOK, Kind, PlainKind, AtomicKind, FetchKind
<1>3. CASE \E p \in Copies : o = CopyOp(p[1], p[2])
  <2>1. PICK p \in Copies : o = CopyOp(p[1], p[2])
    BY <1>3
  <2>2. p[1] \in Object /\ p[2] \in Object /\ Len(p[1]) = Len(p[2])
    BY DEF Copies
  <2>3. o.kind = "copy" /\ o.src = p[1] /\ o.dst = p[2]
    BY <2>1 DEF CopyOp
  <2> QED BY <2>2, <2>3, ObjectAssumption DEF OpOK, Kind, PlainKind, AtomicKind, FetchKind
<1>4. ASSUME NEW k \in AtomicKind, NEW w \in Word, NEW v \in Operand \cup {0}, NEW e,
             o = AtomicOp(k, w, v, e)
      PROVE  OpOK(o)
  <2>1. o.kind = k /\ o.src = <<>> /\ o.dst = <<w>> /\ o.val = <<v>>
    BY <1>4 DEF AtomicOp
  <2>2. k \notin {"load", "copy", "store"} /\ k \in Kind
    BY DEF AtomicKind, FetchKind, Kind
  <2>3. v \in Val
    BY <1>0
  <2> QED BY <2>1, <2>2, <2>3 DEF OpOK
<1>5. "compareExchange" \in AtomicKind
  BY DEF AtomicKind, FetchKind
<1>6. o \in LoadOps => OpOK(o)
  BY <1>1 DEF LoadOps
<1>7. ASSUME o \in StoreOps PROVE OpOK(o)
  <2>1. PICK b \in Object : o \in {StoreOp(b, v) : v \in [1 .. Len(b) -> Operand]}
    BY <1>7 DEF StoreOps
  <2>2. PICK v \in [1 .. Len(b) -> Operand] : o = StoreOp(b, v)
    BY <2>1
  <2> QED BY <1>2, <2>2
<1>8. o \in CopyOps => OpOK(o)
  BY <1>3 DEF CopyOps
<1>9. ASSUME o \in AtomicOps PROVE OpOK(o)
  <2>1. CASE \E k \in AtomicKind, w \in Word, v \in Operand \cup {0} : o = AtomicOp(k, w, v, 0)
    BY <1>4, <2>1
  <2>2. CASE \E w \in Word, v \in Operand, e \in Operand :
               o = AtomicOp("compareExchange", w, v, e)
    BY <1>4, <1>5, <2>2
  <2> QED BY <1>9, <2>1, <2>2 DEF AtomicOps
<1>10. o \in LoadOps \/ o \in StoreOps \/ o \in CopyOps \/ o \in AtomicOps
  BY DEF Op
<1> QED BY <1>6, <1>7, <1>8, <1>9, <1>10

\* A transfer: what it has read is as wide as a word, a copy writes a word only
\* after it has read it, and an operation without result leaves nothing behind.
XferOK(x) ==
  /\ x = [op |-> x.op, rd |-> x.rd, wr |-> x.wr, buf |-> x.buf]
  /\ x.op \in Op
  /\ TransferOK(x)
  /\ x.buf = [i \in DOMAIN x.buf |-> x.buf[i]]
  /\ x.op.kind = "copy" => x.rd \subseteq x.wr
  /\ ~HasResult(x.op) => \A i \in DOMAIN x.buf \ x.wr : x.buf[i] = 0

\* It is the transfer of an operation.
LEMMA XferNotIdle ==
  ASSUME NEW x, XferOK(x)
  PROVE  x # Idle /\ x.op # NoOp
<1>1. x.op.kind \in Kind
  BY OpFacts DEF XferOK, OpOK
<1>2. x.op # NoOp
  BY <1>1 DEF NoOp, Kind, PlainKind, AtomicKind, FetchKind
<1> QED BY <1>2 DEF Idle

\* At its beginning,
LEMMA BeginOK ==
  ASSUME NEW o \in Op
  PROVE  /\ XferOK(Begin(o)) /\ Begin(o).op = o
         /\ Begin(o).rd = 1 .. Len(o.src) /\ Begin(o).wr = 1 .. Len(o.dst)
         /\ o.kind \notin {"load", "copy"} => Begin(o).rd = {}
         /\ o.kind = "load" => Begin(o).wr = {}
<1> DEFINE x == Begin(o)
<1>0. OpOK(o) /\ 0 \in Val
  BY OpFacts, ModulusAssumption DEF Val
<1>1. /\ x = [op |-> x.op, rd |-> x.rd, wr |-> x.wr, buf |-> x.buf]
      /\ x.op = o /\ x.rd = 1 .. Len(o.src) /\ x.wr = 1 .. Len(o.dst)
      /\ x.buf = [i \in ReadSet(o) \cup WriteSet(o) |-> 0]
  BY DEF Begin, ReadSet, WriteSet
<1>2. DOMAIN x.buf = ReadSet(o) \cup WriteSet(o) /\ \A i \in DOMAIN x.buf : x.buf[i] = 0
  BY <1>1
<1> HIDE DEF x
<1>3. TransferOK(x)
  BY <1>0, <1>1, <1>2 DEF TransferOK
<1>4. o.kind = "copy" => x.rd = x.wr
  BY <1>0, <1>1 DEF OpOK
<1>5. XferOK(x)
  BY <1>1, <1>2, <1>3, <1>4 DEF XferOK
<1>6. o.kind \notin {"load", "copy"} => Len(o.src) = 0
  BY <1>0 DEF OpOK
<1>7. o.kind = "load" => Len(o.dst) = 0
  BY <1>0 DEF OpOK
<1> QED BY <1>1, <1>5, <1>6, <1>7 DEF x

\* The record of a transfer after a read, and after a write.
LEMMA RecordUpdate ==
  ASSUME NEW x, x = [op |-> x.op, rd |-> x.rd, wr |-> x.wr, buf |-> x.buf],
         NEW s, NEW b
  PROVE  /\ [x EXCEPT !.rd = s, !.buf = b]
              = [op |-> x.op, rd |-> s, wr |-> x.wr, buf |-> b]
         /\ [x EXCEPT !.wr = s, !.buf = b]
              = [op |-> x.op, rd |-> x.rd, wr |-> s, buf |-> b]
<1>1. PICK op, rd, wr, buf : x = [op |-> op, rd |-> rd, wr |-> wr, buf |-> buf]
  OBVIOUS
<1>2. DOMAIN x = {"op", "rd", "wr", "buf"} /\ x.op = op /\ x.rd = rd /\ x.wr = wr
  BY <1>1
<1> DEFINE f == [k \in {"op", "rd", "wr", "buf"} |->
                   IF k = "buf" THEN b ELSE IF k = "rd" THEN s ELSE x[k]]
           g == [k \in {"op", "rd", "wr", "buf"} |->
                   IF k = "buf" THEN b ELSE IF k = "wr" THEN s ELSE x[k]]
<1>3. [x EXCEPT !.rd = s, !.buf = b] = f
  BY <1>1
<1>4. f = [op |-> op, rd |-> s, wr |-> wr, buf |-> b]
  BY <1>1
<1>5. [x EXCEPT !.wr = s, !.buf = b] = g
  BY <1>1
<1>6. g = [op |-> op, rd |-> rd, wr |-> s, buf |-> b]
  BY <1>1
<1> HIDE DEF f, g
<1> QED BY <1>2, <1>3, <1>4, <1>5, <1>6

\* when it has read a word,
LEMMA ReadXfer ==
  ASSUME NEW x, XferOK(x), NEW i \in x.rd, NEW mm \in [Word -> Val]
  PROVE  /\ XferOK(Read(x, i, mm)) /\ Read(x, i, mm).op = x.op
         /\ Read(x, i, mm).rd = x.rd \ {i} /\ Read(x, i, mm).wr = x.wr
<1> DEFINE y == Read(x, i, mm)
           val == mm[x.op.src[i]]
<1>0. OpOK(x.op) /\ TransferOK(x)
  BY OpFacts DEF XferOK
<1>1. i \in 1 .. Len(x.op.src) /\ x.op.src[i] \in Word /\ val \in Val
  BY <1>0 DEF OpOK, TransferOK
<1>2. y = [op |-> x.op, rd |-> x.rd \ {i}, wr |-> x.wr,
           buf |-> [x.buf EXCEPT ![i] = val]]
  <2>1. x = [op |-> x.op, rd |-> x.rd, wr |-> x.wr, buf |-> x.buf]
    BY DEF XferOK
  <2>2. y = [x EXCEPT !.rd = x.rd \ {i}, !.buf = [x.buf EXCEPT ![i] = val]]
    BY <2>1 DEF Read
  <2> HIDE DEF y, val
  <2> QED BY <2>1, <2>2, RecordUpdate
<1> HIDE DEF val
<1>3. /\ y = [op |-> y.op, rd |-> y.rd, wr |-> y.wr, buf |-> y.buf]
      /\ y.op = x.op /\ y.rd = x.rd \ {i} /\ y.wr = x.wr
      /\ y.buf = [x.buf EXCEPT ![i] = val]
  BY <1>2
<1> HIDE DEF y
<1>4. /\ DOMAIN y.buf = DOMAIN x.buf /\ y.buf = [j \in DOMAIN y.buf |-> y.buf[j]]
      /\ \A j \in DOMAIN x.buf : y.buf[j] = IF j = i THEN val ELSE x.buf[j]
  BY <1>3
<1>5. TransferOK(y)
  <2>1. \A j \in DOMAIN x.buf : y.buf[j] \in Val
    BY <1>0, <1>1, <1>4 DEF TransferOK
  <2> QED BY <1>0, <1>3, <1>4, <2>1 DEF TransferOK
<1>6. x.op.kind \in {"load", "copy"}
  BY <1>0, <1>1 DEF OpOK
<1>7. ~HasResult(x.op) => i \in x.wr
  BY <1>6 DEF HasResult, XferOK
<1>8. XferOK(y)
  BY <1>3, <1>4, <1>5, <1>7 DEF XferOK
<1> QED BY <1>3, <1>8 DEF y

\* The value of a word that is written is as wide as a word.
LEMMA NewValueOK ==
  ASSUME NEW x, XferOK(x), NEW i \in x.wr, NEW cur \in Val
  PROVE  NewValue(x.op, i, cur, x.buf) \in Val
<1> DEFINE o == x.op
<1>0. OpOK(o) /\ TransferOK(x)
  BY OpFacts DEF XferOK
<1>1. i \in 1 .. Len(o.dst) /\ i \in DOMAIN x.buf /\ x.buf[i] \in Val
  BY <1>0 DEF TransferOK, WriteSet
<1>2. Modulus \in Nat \ {0} /\ Val = 0 .. Modulus - 1 /\ cur \in Int
  BY ModulusAssumption DEF Val
<1>3. CASE o.kind = "store"
  BY <1>0, <1>1, <1>3 DEF OpOK, NewValue
<1>4. CASE o.kind = "copy"
  BY <1>1, <1>4 DEF NewValue
<1>5. CASE o.kind \in AtomicKind
  <2>0. Len(o.dst) = 1 /\ o.val[1] \in Val
    BY <1>0, <1>5 DEF OpOK
  <2>1. i = 1 /\ o.val[1] \in Val /\ o.val[1] \in Int
    BY <1>1, <1>2, <2>0
  <2>2. (cur + o.val[1]) % Modulus \in Val /\ (cur - o.val[1]) % Modulus \in Val
    <3>1. PICK y \in Int : y = o.val[1]
      BY <2>1
    <3>2. cur + y \in Int /\ cur - y \in Int
      BY <1>2
    <3>3. (cur + y) % Modulus \in 0 .. Modulus - 1 /\ (cur - y) % Modulus \in 0 .. Modulus - 1
      BY <1>2, <3>2
    <3> QED BY <1>2, <3>1, <3>3
  <2>3. CASE o.kind = "atomicStore"
    BY <2>1, <2>3 DEF NewValue
  <2>4. CASE o.kind = "compareExchange"
    BY <2>1, <2>4 DEF NewValue
  <2>5. CASE o.kind \in {"increment", "fetchAdd"}
    BY <2>2, <2>5 DEF NewValue
  <2>6. CASE o.kind \in {"decrement", "fetchSub"}
    BY <2>2, <2>6 DEF NewValue
  <2>7. CASE o.kind = "atomicLoad"
    BY <2>7 DEF NewValue
  <2> QED BY <1>5, <2>3, <2>4, <2>5, <2>6, <2>7 DEF AtomicKind, FetchKind
<1>6. CASE o.kind = "load"
  BY <1>6 DEF NewValue
<1> QED BY <1>0, <1>3, <1>4, <1>5, <1>6 DEF OpOK, Kind, PlainKind

\* and when it has written one.
LEMMA WroteXfer ==
  ASSUME NEW x, XferOK(x), NEW i \in x.wr, i \notin x.rd, NEW mm \in [Word -> Val]
  PROVE  /\ XferOK(Wrote(x, i, mm)) /\ Wrote(x, i, mm).op = x.op
         /\ Wrote(x, i, mm).rd = x.rd /\ Wrote(x, i, mm).wr = x.wr \ {i}
         /\ Write(x, i, mm) \in [Word -> Val]
<1> DEFINE y == Wrote(x, i, mm)
           val == IF x.op.kind \in FetchKind THEN mm[x.op.dst[i]] ELSE 0
<1>0. OpOK(x.op) /\ TransferOK(x) /\ 0 \in Val
  BY OpFacts, ModulusAssumption DEF XferOK, Val
<1>1. i \in 1 .. Len(x.op.dst) /\ x.op.dst[i] \in Word /\ mm[x.op.dst[i]] \in Val
  BY <1>0 DEF OpOK, TransferOK
<1>2. val \in Val /\ (~HasResult(x.op) => val = 0)
  BY <1>0, <1>1 DEF HasResult
<1>3. y = [op |-> x.op, rd |-> x.rd, wr |-> x.wr \ {i}, buf |-> [x.buf EXCEPT ![i] = val]]
  <2>1. x = [op |-> x.op, rd |-> x.rd, wr |-> x.wr, buf |-> x.buf]
    BY DEF XferOK
  <2> QED BY <2>1, RecordUpdate DEF Wrote
<1> HIDE DEF val
<1>4. /\ y = [op |-> y.op, rd |-> y.rd, wr |-> y.wr, buf |-> y.buf]
      /\ y.op = x.op /\ y.rd = x.rd /\ y.wr = x.wr \ {i}
      /\ y.buf = [x.buf EXCEPT ![i] = val]
  BY <1>3
<1> HIDE DEF y
<1>5. /\ DOMAIN y.buf = DOMAIN x.buf /\ y.buf = [j \in DOMAIN y.buf |-> y.buf[j]]
      /\ \A j \in DOMAIN x.buf : y.buf[j] = IF j = i THEN val ELSE x.buf[j]
  BY <1>4
<1>6. TransferOK(y)
  <2>1. \A j \in DOMAIN x.buf : y.buf[j] \in Val
    BY <1>0, <1>2, <1>5 DEF TransferOK
  <2> QED BY <1>0, <1>4, <1>5, <2>1 DEF TransferOK
<1>7. XferOK(y)
  BY <1>2, <1>4, <1>5, <1>6 DEF XferOK
<1>8. Write(x, i, mm) \in [Word -> Val]
  <2>1. NewValue(x.op, i, mm[x.op.dst[i]], x.buf) \in Val
    BY <1>1, NewValueOK
  <2> QED BY <1>1, <2>1 DEF Write
<1> QED BY <1>4, <1>7, <1>8 DEF y

-----------------------------------------------------------------------------
(***************************************************************************)
(* The inductive invariant.  s is what hart h is doing and d its handle.   *)
(***************************************************************************)
\* A hart works in place only on objects of its own node.
HartOK(h, s, d) ==
  /\ s = [state |-> s.state, x |-> s.x]
  /\ d = [data |-> d.data, done |-> d.done]
  /\ d.done \in BOOLEAN
  /\ s.state \in {"user", "local", "pack", "wait"}
  /\ s.state = "user" => s.x = Idle
  /\ s.state # "user" => XferOK(s.x)
  /\ s.state \in {"local", "pack"} => Here(h, s.x.op.src)
  /\ s.state = "local" => Here(h, s.x.op.dst)
  /\ s.state = "pack" => s.x.op.kind = "copy"

\* What a message of each type may carry, and where it is handled.
RouteOK(m) ==
  LET o == m.x.op
  IN  \/ /\ m.am = "load" /\ o.kind \in {"load", "copy"}
         /\ m.at = Owner(o.src)
         /\ o.kind = "copy" => Here(m.handle, o.dst)
      \/ /\ m.am = "store" /\ o.kind \in {"store", "copy"}
         /\ m.x.rd = {} /\ m.at = Owner(o.dst)
      \/ /\ m.am \in AtomicKind /\ o.kind = m.am
         /\ m.x.rd = {} /\ m.at = Owner(o.dst)
      \/ /\ m.am = "LoadAck" /\ o.kind \in {"load", "copy"}
         /\ m.x.rd = {} /\ m.at = HartNode[m.handle]
         /\ o.kind = "copy" => Owner(o.dst) = m.at
      \/ /\ m.am = "Ack" /\ ~HasResult(o)
         /\ m.x.rd = {} /\ m.x.wr = {} /\ m.at = HartNode[m.handle]
      \/ /\ m.am = "ValueAck" /\ o.kind \in FetchKind
         /\ m.x.rd = {} /\ m.x.wr = {} /\ m.at = HartNode[m.handle]

\* A message, with the hart that waits for it: its operation is the hart's, and
\* data is in the handle only once it is all there.
MsgOK(m, s, d) ==
  /\ m = Message(m.am, m.at, m.handle, m.x)
  /\ m.at \in Node /\ m.handle \in Hart
  /\ XferOK(m.x)
  /\ RouteOK(m)
  /\ s.state = "wait" /\ s.x.op = m.x.op
  /\ ~d.done
  /\ d.data # <<>> => /\ m.am \in {"LoadAck", "ValueAck"}
                      /\ m.x.wr = {} /\ d.data = m.x.buf

HartsOK == \A h \in Hart : HartOK(h, hart[h], handle[h])
MsgsOK == \A m \in net : MsgOK(m, hart[m.handle], handle[m.handle])
OneMessage == \A m, m1 \in net : m1.handle = m.handle => m1 = m

IInv ==
  /\ hart = [h \in Hart |-> hart[h]]
  /\ handle = [h \in Hart |-> handle[h]]
  /\ ret = [h \in Hart |-> ret[h]]
  /\ mem \in [Word -> Val]
  /\ aborted \in BOOLEAN
  /\ HartsOK
  /\ MsgsOK
  /\ OneMessage

-----------------------------------------------------------------------------
(***************************************************************************)
(* Where the transfer of a hart is.                                        *)
(***************************************************************************)
\* A transfer that is over, with its result in the handle.
Over(s, d) ==
  [op |-> s.x.op, rd |-> {}, wr |-> {},
   buf |-> IF HasResult(s.x.op) THEN d.data ELSE Begin(s.x.op).buf]

\* Transfer(h), of a hart that is doing s, with handle d and messages n.
TransferOf(h, s, d, n) ==
  IF s.state # "wait" THEN s.x
  ELSE IF \E m \in n : m.handle = h THEN (CHOOSE m \in n : m.handle = h).x
  ELSE Over(s, d)

\* With the hart, in its only message, or over.
LEMMA TransferPlace ==
  ASSUME NEW h, NEW s, NEW d, NEW n
  PROVE  /\ s.state # "wait" => TransferOf(h, s, d, n) = s.x
         /\ \A m \in n :
              /\ s.state = "wait" /\ m.handle = h
              /\ \A m1 \in n : m1.handle = h => m1 = m
              => TransferOf(h, s, d, n) = m.x
         /\ s.state = "wait" /\ (\A m \in n : m.handle # h)
              => TransferOf(h, s, d, n) = Over(s, d)
<1>1. ASSUME NEW m \in n, s.state = "wait", m.handle = h,
             \A m1 \in n : m1.handle = h => m1 = m
      PROVE  TransferOf(h, s, d, n) = m.x
  <2>1. (CHOOSE m1 \in n : m1.handle = h) = m
    BY <1>1
  <2> QED BY <1>1, <2>1 DEF TransferOf
<1> QED BY <1>1 DEF TransferOf

\* The same messages for a hart leave its transfer where it is.
LEMMA TransferSame ==
  ASSUME NEW h, NEW s, NEW d, NEW n1, NEW n2,
         \A m \in n1 : m.handle = h => m \in n2,
         \A m \in n2 : m.handle = h => m \in n1,
         \A m, m1 \in n1 : m1.handle = m.handle => m1 = m
  PROVE  TransferOf(h, s, d, n1) = TransferOf(h, s, d, n2)
<1>1. CASE s.state # "wait"
  BY <1>1, TransferPlace
<1>2. CASE s.state = "wait" /\ \E m \in n1 : m.handle = h
  <2>1. PICK m \in n1 : m.handle = h
    BY <1>2
  <2>2. /\ \A m1 \in n1 : m1.handle = h => m1 = m
        /\ m \in n2 /\ \A m1 \in n2 : m1.handle = h => m1 = m
    BY <2>1
  <2>3. TransferOf(h, s, d, n1) = m.x
    BY <1>2, <2>1, <2>2, TransferPlace
  <2>4. TransferOf(h, s, d, n2) = m.x
    BY <1>2, <2>1, <2>2, TransferPlace
  <2> QED BY <2>3, <2>4
<1>3. CASE s.state = "wait" /\ \A m \in n1 : m.handle # h
  <2>1. \A m \in n2 : m.handle # h
    BY <1>3
  <2> QED BY <1>3, <2>1, TransferPlace
<1> QED BY <1>1, <1>2, <1>3

\* Transfer is TransferOf.
LEMMA TransferIs ==
  \A h : /\ Transfer(h) = TransferOf(h, hart[h], handle[h], net)
         /\ Transfer(h)' = TransferOf(h, hart'[h], handle'[h], net')
  BY DEF Transfer, TransferOf, Over

-----------------------------------------------------------------------------
(***************************************************************************)
(* A step moves one hart, or replaces one message.                         *)
(***************************************************************************)
Shapes ==
  /\ hart = [h \in Hart |-> hart[h]]
  /\ handle = [h \in Hart |-> handle[h]]

\* A hart that no message is for goes on and may send one.
LEMMA HartMoves ==
  ASSUME IInv, NEW h \in Hart, NEW s, NEW d,
         \A m \in net : m.handle # h,
         hart' = [hart EXCEPT ![h] = s],
         handle' = [handle EXCEPT ![h] = d],
         HartOK(h, s, d),
         \A m \in net : m \in net',
         \A m \in net' : m \notin net => m.handle = h /\ MsgOK(m, s, d),
         \A m, m1 \in net' : m \notin net /\ m1 \notin net => m1 = m
  PROVE  /\ Shapes' /\ HartsOK' /\ MsgsOK' /\ OneMessage'
         /\ hart'[h] = s /\ handle'[h] = d
         /\ \A k \in Hart \ {h} : Transfer(k)' = Transfer(k)
<1>1. /\ hart'[h] = s /\ handle'[h] = d
      /\ \A k \in Hart \ {h} : hart'[k] = hart[k] /\ handle'[k] = handle[k]
  BY DEF IInv
<1>2. Shapes'
  BY DEF Shapes, IInv
<1>3. HartsOK'
  BY <1>1 DEF IInv, HartsOK
<1>4. \A m \in net : m.handle \in Hart \ {h}
  BY DEF IInv, MsgsOK, MsgOK
<1>5. MsgsOK'
  <2>1. \A m \in net : MsgOK(m, hart'[m.handle], handle'[m.handle])
    BY <1>1, <1>4 DEF IInv, MsgsOK
  <2>2. \A m \in net' \ net : MsgOK(m, hart'[m.handle], handle'[m.handle])
    BY <1>1
  <2> QED BY <2>1, <2>2 DEF MsgsOK
<1>6. OneMessage'
  BY <1>4 DEF OneMessage, IInv
<1>7. ASSUME NEW k \in Hart \ {h}
      PROVE  Transfer(k)' = Transfer(k)
  <2>1. /\ \A m \in net : m.handle = k => m \in net'
        /\ \A m \in net' : m.handle = k => m \in net
        /\ \A m, m1 \in net : m1.handle = m.handle => m1 = m
    BY DEF IInv, OneMessage
  <2>2. TransferOf(k, hart[k], handle[k], net) = TransferOf(k, hart[k], handle[k], net')
    BY <2>1, TransferSame
  <2> QED BY <1>1, <2>2, TransferIs
<1> QED BY <1>1, <1>2, <1>3, <1>5, <1>6, <1>7

\* A message is replaced by one for the same hart, or disappears.
LEMMA MessageMoves ==
  ASSUME IInv, NEW m \in net, NEW d,
         hart' = hart,
         handle' = [handle EXCEPT ![m.handle] = d],
         HartOK(m.handle, hart[m.handle], d),
         \A m1 \in net : m1 # m => m1 \in net',
         \A m1 \in net' : \/ m1 \in net /\ m1 # m
                          \/ m1.handle = m.handle /\ MsgOK(m1, hart[m.handle], d),
         \A m1, m2 \in net' : m1.handle = m.handle /\ m2.handle = m.handle => m2 = m1
  PROVE  /\ Shapes' /\ HartsOK' /\ MsgsOK' /\ OneMessage'
         /\ handle'[m.handle] = d
         /\ \A k \in Hart \ {m.handle} : Transfer(k)' = Transfer(k)
<1> DEFINE h == m.handle
<1>0. h \in Hart
  BY DEF IInv, MsgsOK, MsgOK
<1>1. /\ handle'[h] = d
      /\ \A k \in Hart \ {h} : handle'[k] = handle[k]
  BY <1>0 DEF IInv
<1>2. Shapes'
  BY DEF Shapes, IInv
<1>3. HartsOK'
  BY <1>0, <1>1 DEF IInv, HartsOK
<1>4. \A m1 \in net \ {m} : m1.handle \in Hart \ {h}
  BY DEF IInv, MsgsOK, MsgOK, OneMessage
<1>5. MsgsOK'
  <2>1. \A m1 \in net \ {m} : MsgOK(m1, hart'[m1.handle], handle'[m1.handle])
    BY <1>1, <1>4 DEF IInv, MsgsOK
  <2>2. \A m1 \in net' \ (net \ {m}) : MsgOK(m1, hart'[m1.handle], handle'[m1.handle])
    BY <1>1
  <2> QED BY <2>1, <2>2 DEF MsgsOK
<1>6. OneMessage'
  <2>1. \A m1, m2 \in net \ {m} : m2.handle = m1.handle => m2 = m1
    BY DEF IInv, OneMessage
  <2> QED BY <1>4, <2>1 DEF OneMessage
<1>7. ASSUME NEW k \in Hart \ {h}
      PROVE  Transfer(k)' = Transfer(k)
  <2>1. /\ \A m1 \in net : m1.handle = k => m1 \in net'
        /\ \A m1 \in net' : m1.handle = k => m1 \in net
        /\ \A m1, m2 \in net : m2.handle = m1.handle => m2 = m1
    BY DEF IInv, OneMessage
  <2>2. TransferOf(k, hart[k], handle[k], net) = TransferOf(k, hart[k], handle[k], net')
    BY <2>1, TransferSame
  <2> QED BY <1>1, <2>2, TransferIs
<1> QED BY <1>1, <1>2, <1>3, <1>5, <1>6, <1>7

\* No message is for a hart that does not wait or whose handle is done.
LEMMA NoMessage ==
  ASSUME IInv, NEW h, hart[h].state # "wait" \/ handle[h].done
  PROVE  \A m \in net : m.handle # h
  BY DEF IInv, MsgsOK, MsgOK

-----------------------------------------------------------------------------
(***************************************************************************)
(* What a step is to the abstract memory: Call, ReadWord, WriteWord or     *)
(* Return of one hart, or nothing, where its transfer is Transfer(h).      *)
(***************************************************************************)
Others(h) == \A k \in Hart \ {h} : Transfer(k)' = Transfer(k)

MapsToCall(h) ==
  /\ Transfer(h) = Idle
  /\ \E o \in Op : Transfer(h)' = Begin(o)
  /\ ret' = [ret EXCEPT ![h] = <<>>]
  /\ mem' = mem

MapsToRead(h) ==
  /\ \E i \in Transfer(h).rd : Transfer(h)' = Read(Transfer(h), i, mem)
  /\ mem' = mem /\ ret' = ret

MapsToWrite(h) ==
  /\ \E i \in Transfer(h).wr \ Transfer(h).rd :
       /\ Transfer(h)' = Wrote(Transfer(h), i, mem)
       /\ mem' = Write(Transfer(h), i, mem)
  /\ ret' = ret

MapsToReturn(h) ==
  /\ Transfer(h) # Idle
  /\ Complete(Transfer(h))
  /\ Transfer(h)' = Idle
  /\ ret' = [ret EXCEPT ![h] = Result(Transfer(h).op, Transfer(h).buf)]
  /\ mem' = mem

MapsToNothing(h) == Transfer(h)' = Transfer(h) /\ mem' = mem /\ ret' = ret

MapsTo ==
  \E h \in Hart :
    /\ Others(h)
    /\ \/ MapsToCall(h) \/ MapsToRead(h) \/ MapsToWrite(h) \/ MapsToReturn(h)
       \/ MapsToNothing(h)

\* An object of an operation is on a node.
LEMMA OwnerNode ==
  ASSUME NEW b \in Seq(Word), Len(b) > 0
  PROVE  Owner(b) \in Node
  BY PlacementAssumption DEF Owner

\* Abort changes nothing but aborted.
LEMMA AbortStep ==
  ASSUME IInv, NEW h \in Hart, abort
  PROVE  IInv' /\ MapsTo
<1>1. /\ hart' = hart /\ handle' = handle /\ net' = net /\ mem' = mem /\ ret' = ret
      /\ aborted' = TRUE
  BY DEF abort
<1>2. IInv'
  BY <1>1 DEF IInv, HartsOK, MsgsOK, OneMessage
<1>3. \A k : Transfer(k)' = Transfer(k)
  BY <1>1, TransferIs
<1> QED BY <1>1, <1>2, <1>3 DEF MapsTo, MapsToNothing, Others

\* A call that goes to work on this node.
LEMMA StartStep ==
  ASSUME IInv, NEW h \in Hart, NEW o, Calls(h, o), NEW state \in {"local", "pack"},
         start(h, state, o), called(h),
         Here(h, o.src), state = "local" => Here(h, o.dst),
         state = "pack" => o.kind = "copy"
  PROVE  IInv' /\ MapsTo
<1> DEFINE s == [state |-> state, x |-> Begin(o)]
<1>1. o \in Op /\ hart[h].state = "user" /\ hart[h].x = Idle
  BY DEF Calls, IInv, HartsOK, HartOK
<1>2. XferOK(Begin(o)) /\ Begin(o).op = o
  BY <1>1, BeginOK
<1>4. s.state = state /\ s.x = Begin(o) /\ s = [state |-> s.state, x |-> s.x]
  OBVIOUS
<1> HIDE DEF s
<1>5. HartOK(h, s, handle[h])
  BY <1>2, <1>4 DEF HartOK, IInv, HartsOK
<1>6. /\ hart' = [hart EXCEPT ![h] = s]
      /\ handle' = [handle EXCEPT ![h] = handle[h]]
      /\ net' = net /\ mem' = mem /\ aborted' = aborted
      /\ ret' = [ret EXCEPT ![h] = <<>>]
  BY DEF start, called, s, IInv
<1>7. \A m \in net : m.handle # h
  BY <1>1, NoMessage
<1>8. /\ Shapes' /\ HartsOK' /\ MsgsOK' /\ OneMessage' /\ hart'[h] = s
      /\ \A k \in Hart \ {h} : Transfer(k)' = Transfer(k)
  BY <1>5, <1>6, <1>7, HartMoves
<1>9. IInv'
  <2>1. (ret = [k \in Hart |-> ret[k]])'
    BY <1>6 DEF IInv
  <2> QED BY <1>6, <1>8, <2>1 DEF IInv, Shapes
<1>10. Transfer(h) = Idle /\ Transfer(h)' = Begin(o)
  <2>1. Transfer(h) = hart[h].x
    BY <1>1, TransferIs, TransferPlace
  <2>2. Transfer(h)' = s.x
    BY <1>4, <1>8, TransferIs, TransferPlace
  <2> QED BY <1>1, <1>4, <2>1, <2>2
<1> QED BY <1>1, <1>6, <1>8, <1>9, <1>10 DEF MapsTo, MapsToCall, Others

\* A call, or a hart that has packed its data, that sends a request.
LEMMA SendStep ==
  ASSUME IInv, NEW h \in Hart, NEW am, NEW b \in Seq(Word), Len(b) > 0, NEW x, XferOK(x),
         hart[h].state # "wait",
         send(h, am, b, x), RouteOK(Message(am, Owner(b), h, x)),
         mem' = mem, aborted' = aborted, ret' = [k \in Hart |-> ret'[k]]
  PROVE  /\ IInv'
         /\ Transfer(h) = hart[h].x
         /\ Transfer(h)' = x
         /\ Others(h)
<1> DEFINE s == [state |-> "wait", x |-> x]
           m == Message(am, Owner(b), h, x)
<1>1. /\ s.state = "wait" /\ s.x = x /\ s = [state |-> s.state, x |-> s.x]
      /\ m = Message(m.am, m.at, m.handle, m.x)
      /\ m.am = am /\ m.at = Owner(b) /\ m.handle = h /\ m.x = x
  BY DEF Message
<1>2. /\ NoHandle = [data |-> NoHandle.data, done |-> NoHandle.done]
      /\ NoHandle.data = <<>> /\ NoHandle.done = FALSE
  BY DEF NoHandle
<1>3. /\ hart' = [hart EXCEPT ![h] = s]
      /\ handle' = [handle EXCEPT ![h] = NoHandle]
      /\ net' = net \cup {m}
  BY DEF send
<1>4. RouteOK(m)
  OBVIOUS
<1> HIDE DEF s, m
<1>5. HartOK(h, s, NoHandle)
  BY <1>1, <1>2 DEF HartOK
<1>6. MsgOK(m, s, NoHandle)
  BY <1>1, <1>2, <1>4, OwnerNode DEF MsgOK
<1>7. \A m1 \in net : m1.handle # h
  BY NoMessage
<1>8. /\ Shapes' /\ HartsOK' /\ MsgsOK' /\ OneMessage' /\ hart'[h] = s
      /\ \A k \in Hart \ {h} : Transfer(k)' = Transfer(k)
  <2>1. /\ \A m1 \in net : m1 \in net'
        /\ \A m1 \in net' : m1 \notin net => m1.handle = h /\ MsgOK(m1, s, NoHandle)
        /\ \A m1, m2 \in net' : m1 \notin net /\ m2 \notin net => m2 = m1
    BY <1>1, <1>3, <1>6
  <2> QED BY <1>3, <1>5, <1>7, <2>1, HartMoves
<1>9. IInv'
  BY <1>8 DEF IInv, Shapes
<1>10. Transfer(h) = hart[h].x
  BY TransferIs, TransferPlace
<1>11. Transfer(h)' = x
  <2>1. m \in net' /\ \A m1 \in net' : m1.handle = h => m1 = m
    BY <1>3, <1>7
  <2> QED BY <1>1, <1>8, <2>1, TransferIs, TransferPlace
<1> QED BY <1>8, <1>9, <1>10, <1>11 DEF Others

\* A call that sends a request.
LEMMA CallSends ==
  ASSUME IInv, NEW h \in Hart, NEW o, Calls(h, o), NEW am, NEW b \in Seq(Word), Len(b) > 0,
         send(h, am, b, Begin(o)), called(h), RouteOK(Message(am, Owner(b), h, Begin(o)))
  PROVE  IInv' /\ MapsTo
<1>1. o \in Op /\ hart[h].state = "user" /\ hart[h].x = Idle
  BY DEF Calls, IInv, HartsOK, HartOK
<1>2. XferOK(Begin(o))
  BY <1>1, BeginOK
<1>3. /\ ret' = [ret EXCEPT ![h] = <<>>]
      /\ mem' = mem /\ aborted' = aborted
  BY DEF called
<1>4. ret' = [k \in Hart |-> ret'[k]]
  BY <1>3 DEF IInv
<1>5. IInv' /\ Transfer(h) = Idle /\ Transfer(h)' = Begin(o) /\ Others(h)
  BY <1>1, <1>2, <1>3, <1>4, SendStep
<1> QED BY <1>1, <1>3, <1>5 DEF MapsTo, MapsToCall

\* The route of a message, from its fields.
LEMMA MessageRoute ==
  ASSUME NEW am, NEW at, NEW h, NEW x
  PROVE  /\ Message(am, at, h, x).am = am
         /\ Message(am, at, h, x).at = at
         /\ Message(am, at, h, x).handle = h
         /\ Message(am, at, h, x).x = x
  BY DEF Message

\* Nodes::load
LEMMA LoadStep ==
  ASSUME IInv, NEW h \in Hart, NEW b \in Object, load(h, b)
  PROVE  IInv' /\ MapsTo
<1> DEFINE o == LoadOp(b)
<1>1. o.kind = "load" /\ o.src = b /\ o.dst = <<>>
  BY DEF LoadOp
<1>2. Calls(h, o) /\ IF Here(h, b) THEN local(h, o) ELSE remoteLoad(h, o)
  BY DEF load
<1> HIDE DEF o
<1>3. CASE Here(h, b)
  <2>1. Here(h, o.src) /\ Here(h, o.dst)
    BY <1>1, <1>3 DEF Here
  <2>2. start(h, "local", o) /\ called(h)
    BY <1>2, <1>3 DEF local
  <2> QED BY <1>2, <2>1, <2>2, StartStep
<1>4. CASE ~Here(h, b)
  <2>1. send(h, "load", b, Begin(o)) /\ called(h)
    BY <1>1, <1>2, <1>4 DEF remoteLoad
  <2>2. b \in Seq(Word) /\ Len(b) > 0
    BY ObjectAssumption
  <2>3. Begin(o).op = o
    BY DEF Begin
  <2>4. RouteOK(Message("load", Owner(b), h, Begin(o)))
    BY <1>1, <2>3, MessageRoute DEF RouteOK
  <2> QED BY <1>2, <2>1, <2>2, <2>4, CallSends
<1> QED BY <1>3, <1>4

\* Nodes::store
LEMMA StoreStep ==
  ASSUME IInv, NEW h \in Hart, NEW b \in Object, NEW v, store(h, b, v)
  PROVE  IInv' /\ MapsTo
<1> DEFINE o == StoreOp(b, v)
<1>1. o.kind = "store" /\ o.src = <<>> /\ o.dst = b
  BY DEF StoreOp
<1>2. Calls(h, o) /\ IF Here(h, b) THEN local(h, o) ELSE remoteStore(h, o)
  BY DEF store
<1> HIDE DEF o
<1>3. CASE Here(h, b)
  <2>1. Here(h, o.src) /\ Here(h, o.dst)
    BY <1>1, <1>3 DEF Here
  <2>2. start(h, "local", o) /\ called(h)
    BY <1>2, <1>3 DEF local
  <2> QED BY <1>2, <2>1, <2>2, StartStep
<1>4. CASE ~Here(h, b) /\ abort
  BY <1>4, AbortStep
<1>5. CASE ~Here(h, b) /\ send(h, "store", o.dst, Begin(o)) /\ called(h)
  <2>1. b \in Seq(Word) /\ Len(b) > 0
    BY ObjectAssumption
  <2>2. o \in Op
    BY <1>2 DEF Calls
  <2>3. Begin(o).op = o /\ Begin(o).rd = {}
    BY <1>1, <2>2, BeginOK
  <2>4. RouteOK(Message("store", Owner(b), h, Begin(o)))
    BY <1>1, <2>3, MessageRoute DEF RouteOK
  <2> QED BY <1>1, <1>2, <1>5, <2>1, <2>4, CallSends
<1> QED BY <1>2, <1>3, <1>4, <1>5 DEF remoteStore

\* bulkMemcpy
LEMMA CopyStep ==
  ASSUME IInv, NEW h \in Hart, NEW s \in Object, NEW d \in Object, bulkMemcpy(h, s, d)
  PROVE  IInv' /\ MapsTo
<1> DEFINE o == CopyOp(s, d)
<1>1. o.kind = "copy" /\ o.src = s /\ o.dst = d
  BY DEF CopyOp
<1>2. /\ Calls(h, o)
      /\ \/ Here(h, s) /\ Here(h, d) /\ local(h, o)
         \/ /\ Here(h, s) /\ ~Here(h, d)
            /\ abort \/ (start(h, "pack", o) /\ called(h))
         \/ ~Here(h, s) /\ Here(h, d) /\ remoteLoad(h, o)
         \/ ~Here(h, s) /\ ~Here(h, d) /\ abort
  BY DEF bulkMemcpy
<1> HIDE DEF o
<1>3. CASE Here(h, s) /\ Here(h, d) /\ local(h, o)
  <2>1. Here(h, o.src) /\ Here(h, o.dst)
    BY <1>1, <1>3
  <2>2. start(h, "local", o) /\ called(h)
    BY <1>3 DEF local
  <2> QED BY <1>2, <2>1, <2>2, StartStep
<1>4. CASE Here(h, s) /\ start(h, "pack", o) /\ called(h)
  BY <1>1, <1>2, <1>4, StartStep
<1>5. CASE abort
  BY <1>5, AbortStep
<1>6. CASE ~Here(h, s) /\ Here(h, d) /\ remoteLoad(h, o)
  <2>1. send(h, "load", s, Begin(o)) /\ called(h)
    BY <1>1, <1>6 DEF remoteLoad
  <2>2. s \in Seq(Word) /\ Len(s) > 0
    BY ObjectAssumption
  <2>3. Begin(o).op = o
    BY DEF Begin
  <2>4. RouteOK(Message("load", Owner(s), h, Begin(o)))
    BY <1>1, <1>6, <2>3, MessageRoute DEF RouteOK
  <2> QED BY <1>2, <2>1, <2>2, <2>4, CallSends
<1> QED BY <1>2, <1>3, <1>4, <1>5, <1>6

\* The atomic operations
LEMMA AtomicStep ==
  ASSUME IInv, NEW h \in Hart, NEW kind \in AtomicKind, NEW w \in Word, NEW v, NEW e,
         atomic(h, kind, w, v, e)
  PROVE  IInv' /\ MapsTo
<1> DEFINE o == AtomicOp(kind, w, v, e)
<1>1. o.kind = kind /\ o.src = <<>> /\ o.dst = <<w>>
  BY DEF AtomicOp
<1>2. /\ Calls(h, o)
      /\ IF Here(h, <<w>>) THEN local(h, o)
         ELSE send(h, kind, <<w>>, Begin(o)) /\ called(h)
  BY DEF atomic
<1> HIDE DEF o
<1>3. CASE Here(h, <<w>>)
  <2>1. Here(h, o.src) /\ Here(h, o.dst)
    BY <1>1, <1>3 DEF Here
  <2>2. start(h, "local", o) /\ called(h)
    BY <1>2, <1>3 DEF local
  <2> QED BY <1>2, <2>1, <2>2, StartStep
<1>4. CASE ~Here(h, <<w>>)
  <2>1. <<w>> \in Seq(Word) /\ Len(<<w>>) > 0
    OBVIOUS
  <2>2. o \in Op
    BY <1>2 DEF Calls
  <2>3. kind \notin {"load", "copy"}
    BY DEF AtomicKind, FetchKind
  <2>4. Begin(o).op = o /\ Begin(o).rd = {}
    BY <1>1, <2>2, <2>3, BeginOK
  <2>5. RouteOK(Message(kind, Owner(<<w>>), h, Begin(o)))
    BY <1>1, <2>4, MessageRoute DEF RouteOK
  <2> QED BY <1>2, <1>4, <2>1, <2>5, CallSends
<1> QED BY <1>3, <1>4

\* Every operation a hart can call.
LEMMA CallerStep ==
  ASSUME IInv, NEW h \in Hart, Caller(h)
  PROVE  IInv' /\ MapsTo
<1>1. CASE \E b \in Object : load(h, b)
  BY <1>1, LoadStep
<1>2. CASE \E b \in Object : \E v \in [1 .. Len(b) -> Operand] : store(h, b, v)
  BY <1>2, StoreStep
<1>3. CASE \E p \in Copies : bulkMemcpy(h, p[1], p[2])
  <2>1. PICK p \in Copies : bulkMemcpy(h, p[1], p[2])
    BY <1>3
  <2>2. p[1] \in Object /\ p[2] \in Object
    BY DEF Copies
  <2> QED BY <2>1, <2>2, CopyStep
<1>4. CASE \E kind \in AtomicKind, w \in Word : \E v, e : atomic(h, kind, w, v, e)
  BY <1>4, AtomicStep
<1>5. {"atomicLoad", "atomicStore", "compareExchange", "increment", "decrement",
       "fetchAdd", "fetchSub"} \subseteq AtomicKind
  BY DEF AtomicKind, FetchKind
<1>6. CASE \E w \in Word : atomicLoad(h, w)
  BY <1>4, <1>5, <1>6 DEF atomicLoad
<1>7. CASE \E w \in Word, v \in Operand :
             \/ atomicStore(h, w, v)
             \/ atomicIncrement(h, w, v)
             \/ atomicDecrement(h, w, v)
             \/ atomicFetchAdd(h, w, v)
             \/ atomicFetchSub(h, w, v)
             \/ \E e \in Operand \cup {0} : atomicCompareExchange(h, w, e, v)
  BY <1>4, <1>5, <1>7 DEF atomicStore, atomicIncrement, atomicDecrement, atomicFetchAdd,
                          atomicFetchSub, atomicCompareExchange
<1> QED BY <1>1, <1>2, <1>3, <1>6, <1>7, Zenon DEF Caller

-----------------------------------------------------------------------------
(***************************************************************************)
(* The steps of a hart at work on its own node.                            *)
(***************************************************************************)
\* A hart that changes only its own transfer.
LEMMA WorkStep ==
  ASSUME IInv, NEW h \in Hart, hart[h].state \in {"local", "pack"},
         NEW y, XferOK(y), y.op = hart[h].x.op,
         hart' = [hart EXCEPT ![h].x = y],
         UNCHANGED <<handle, net, ret, aborted>>,
         NEW mm \in [Word -> Val], mem' = mm
  PROVE  IInv' /\ Others(h) /\ Transfer(h) = hart[h].x /\ Transfer(h)' = y
<1> DEFINE s == [state |-> hart[h].state, x |-> y]
<1>1. /\ s.state = hart[h].state /\ s.x = y /\ s = [state |-> s.state, x |-> s.x]
  OBVIOUS
<1>2. HartOK(h, hart[h], handle[h]) /\ hart[h] = [state |-> hart[h].state, x |-> hart[h].x]
  BY DEF IInv, HartsOK, HartOK
<1>3. hart' = [hart EXCEPT ![h] = s]
  <2>1. [hart[h] EXCEPT !.x = y] = s
    BY <1>2
  <2> QED BY <2>1
<1> HIDE DEF s
<1>4. HartOK(h, s, handle[h])
  BY <1>1, <1>2 DEF HartOK
<1>5. handle' = [handle EXCEPT ![h] = handle[h]] /\ net' = net /\ ret' = ret /\ aborted' = aborted
  BY DEF IInv
<1>6. \A m \in net : m.handle # h
  BY NoMessage
<1>7. /\ Shapes' /\ HartsOK' /\ MsgsOK' /\ OneMessage' /\ hart'[h] = s
      /\ \A k \in Hart \ {h} : Transfer(k)' = Transfer(k)
  BY <1>3, <1>4, <1>5, <1>6, HartMoves
<1>8. IInv'
  BY <1>5, <1>7 DEF IInv, Shapes
<1>9. Transfer(h) = hart[h].x
  BY TransferIs, TransferPlace
<1>10. Transfer(h)' = y
  BY <1>1, <1>7, TransferIs, TransferPlace
<1> QED BY <1>7, <1>8, <1>9, <1>10 DEF Others

\* A hart reads, and writes, a word of its own node.
LEMMA ReadHereStep ==
  ASSUME IInv, NEW h \in Hart, NEW i, readHere(h, i)
  PROVE  IInv' /\ MapsTo
<1>1. /\ hart[h].state \in {"local", "pack"} /\ i \in hart[h].x.rd
      /\ hart' = [hart EXCEPT ![h].x = Read(hart[h].x, i, mem)]
      /\ UNCHANGED <<handle, net, ret, aborted>> /\ mem' = mem /\ mem \in [Word -> Val]
  BY DEF readHere, IInv
<1>2. XferOK(hart[h].x)
  BY <1>1 DEF IInv, HartsOK, HartOK
<1>3. XferOK(Read(hart[h].x, i, mem)) /\ Read(hart[h].x, i, mem).op = hart[h].x.op
  BY <1>1, <1>2, ReadXfer
<1>4. /\ IInv' /\ Others(h) /\ Transfer(h) = hart[h].x
      /\ Transfer(h)' = Read(hart[h].x, i, mem)
  BY <1>1, <1>3, WorkStep
<1>5. MapsToRead(h)
  BY <1>1, <1>4 DEF MapsToRead
<1> QED BY <1>4, <1>5 DEF MapsTo

\* The same for a write.
LEMMA WriteHereStep ==
  ASSUME IInv, NEW h \in Hart, NEW i, writeHere(h, i)
  PROVE  IInv' /\ MapsTo
<1>1. /\ hart[h].state \in {"local", "pack"} /\ i \in hart[h].x.wr \ hart[h].x.rd
      /\ hart' = [hart EXCEPT ![h].x = Wrote(hart[h].x, i, mem)]
      /\ UNCHANGED <<handle, net, ret, aborted>>
      /\ mem' = Write(hart[h].x, i, mem) /\ mem \in [Word -> Val]
  BY DEF writeHere, IInv
<1>2. XferOK(hart[h].x)
  BY <1>1 DEF IInv, HartsOK, HartOK
<1>3. /\ XferOK(Wrote(hart[h].x, i, mem)) /\ Wrote(hart[h].x, i, mem).op = hart[h].x.op
      /\ Write(hart[h].x, i, mem) \in [Word -> Val]
  BY <1>1, <1>2, WroteXfer
<1>4. /\ IInv' /\ Others(h) /\ Transfer(h) = hart[h].x
      /\ Transfer(h)' = Wrote(hart[h].x, i, mem)
  BY <1>1, <1>3, WorkStep
<1>5. MapsToWrite(h)
  BY <1>1, <1>4 DEF MapsToWrite
<1> QED BY <1>4, <1>5 DEF MapsTo

\* A hart has packed what it read into a store message.
LEMMA CommitStep ==
  ASSUME IInv, NEW h \in Hart, commitPacked(h)
  PROVE  IInv' /\ MapsTo
<1> DEFINE x == hart[h].x
<1>1. /\ hart[h].state = "pack" /\ x.rd = {} /\ send(h, "store", x.op.dst, x)
      /\ mem' = mem /\ ret' = ret /\ aborted' = aborted
  BY DEF commitPacked
<1>2. XferOK(x) /\ x.op.kind = "copy"
  BY <1>1 DEF IInv, HartsOK, HartOK
<1>3. x.op.dst \in Seq(Word) /\ Len(x.op.dst) > 0
  BY <1>2, OpFacts DEF XferOK, OpOK
<1>4. RouteOK(Message("store", Owner(x.op.dst), h, x))
  <2>1. PICK m : m = Message("store", Owner(x.op.dst), h, x)
    OBVIOUS
  <2>2. m.am = "store" /\ m.at = Owner(x.op.dst) /\ m.x = x
    BY <2>1 DEF Message
  <2>3. m.x.rd = {} /\ m.x.op.kind = "copy" /\ m.at = Owner(m.x.op.dst)
    BY <1>1, <1>2, <2>2
  <2>4. RouteOK(m)
    BY <2>2, <2>3 DEF RouteOK
  <2> QED BY <2>1, <2>4
<1>5. ret' = [k \in Hart |-> ret'[k]]
  BY <1>1 DEF IInv
<1> HIDE DEF x
<1>6. hart[h].state # "wait"
  BY <1>1
<1>7. IInv' /\ Transfer(h) = hart[h].x /\ Transfer(h)' = x /\ Others(h)
  BY <1>1, <1>2, <1>3, <1>4, <1>5, <1>6, SendStep
<1>8. MapsToNothing(h)
  BY <1>1, <1>7 DEF MapsToNothing, x
<1> QED BY <1>7, <1>8 DEF MapsTo

\* The return of a call, whose transfer is over with result data.
LEMMA FinishStep ==
  ASSUME IInv, NEW h \in Hart, NEW data, Finish(h, data),
         \A m \in net : m.handle # h,
         Transfer(h) # Idle, Complete(Transfer(h)), Transfer(h).op = hart[h].x.op,
         Result(hart[h].x.op, data) = Result(hart[h].x.op, Transfer(h).buf)
  PROVE  IInv' /\ MapsTo
<1> DEFINE s == [state |-> "user", x |-> Idle]
<1>1. s.state = "user" /\ s.x = Idle /\ s = [state |-> s.state, x |-> s.x]
  OBVIOUS
<1>2. /\ NoHandle = [data |-> NoHandle.data, done |-> NoHandle.done]
      /\ NoHandle.data = <<>> /\ NoHandle.done = FALSE
  BY DEF NoHandle
<1>3. /\ hart' = [hart EXCEPT ![h] = s] /\ handle' = [handle EXCEPT ![h] = NoHandle]
      /\ ret' = [ret EXCEPT ![h] = Result(hart[h].x.op, data)]
      /\ mem' = mem /\ net' = net /\ aborted' = aborted
  BY DEF Finish
<1> HIDE DEF s
<1>4. HartOK(h, s, NoHandle)
  BY <1>1, <1>2 DEF HartOK
<1>5. /\ Shapes' /\ HartsOK' /\ MsgsOK' /\ OneMessage' /\ hart'[h] = s
      /\ \A k \in Hart \ {h} : Transfer(k)' = Transfer(k)
  BY <1>3, <1>4, HartMoves
<1>6. IInv'
  <2>1. (ret = [k \in Hart |-> ret[k]])'
    BY <1>3 DEF IInv
  <2> QED BY <1>3, <1>5, <2>1 DEF IInv, Shapes
<1>7. Transfer(h)' = Idle
  BY <1>1, <1>5, TransferIs, TransferPlace
<1>8. MapsToReturn(h)
  BY <1>3, <1>7 DEF MapsToReturn
<1> QED BY <1>5, <1>6, <1>8 DEF MapsTo, Others

\* An operation on the own node is over,
LEMMA ReturnLocalStep ==
  ASSUME IInv, NEW h \in Hart, returnLocal(h)
  PROVE  IInv' /\ MapsTo
<1>1. hart[h].state = "local" /\ Complete(hart[h].x) /\ Finish(h, hart[h].x.buf)
  BY DEF returnLocal
<1>2. hart[h].x # Idle
  BY <1>1, XferNotIdle DEF IInv, HartsOK, HartOK
<1>3. Transfer(h) = hart[h].x
  BY <1>1, TransferIs, TransferPlace
<1>4. \A m \in net : m.handle # h
  BY <1>1, NoMessage
<1> QED BY <1>1, <1>2, <1>3, <1>4, FinishStep

\* and one on another node, whose answer has come.
LEMMA ReturnRemoteStep ==
  ASSUME IInv, NEW h \in Hart, returnRemote(h)
  PROVE  IInv' /\ MapsTo
<1>1. hart[h].state = "wait" /\ handle[h].done /\ Finish(h, handle[h].data)
  BY DEF returnRemote
<1>2. \A m \in net : m.handle # h
  BY <1>1, NoMessage
<1>3. Transfer(h) = Over(hart[h], handle[h])
  BY <1>1, <1>2, TransferIs, TransferPlace
<1>4. /\ Transfer(h).op = hart[h].x.op
      /\ Transfer(h).rd = {} /\ Transfer(h).wr = {}
      /\ HasResult(hart[h].x.op) => Transfer(h).buf = handle[h].data
  BY <1>3 DEF Over
<1>5. hart[h].x.op # NoOp
  BY <1>1, XferNotIdle DEF IInv, HartsOK, HartOK
<1>6. Transfer(h) # Idle
  BY <1>4, <1>5 DEF Idle
<1>7. Complete(Transfer(h))
  BY <1>4 DEF Complete
<1>8. Result(hart[h].x.op, handle[h].data) = Result(hart[h].x.op, Transfer(h).buf)
  BY <1>4 DEF Result
<1> QED BY <1>1, <1>2, <1>4, <1>6, <1>7, <1>8, FinishStep

\* The steps of a hart together.
LEMMA HartStepStep ==
  ASSUME IInv, NEW h \in Hart, HartStep(h)
  PROVE  IInv' /\ MapsTo
  BY ReadHereStep, WriteHereStep, CommitStep, ReturnLocalStep, ReturnRemoteStep DEF HartStep

-----------------------------------------------------------------------------
(***************************************************************************)
(* The steps of the handlers.                                              *)
(***************************************************************************)
\* A message carries the transfer of the hart that waits for it.
LEMMA MessageFacts ==
  ASSUME IInv, NEW m \in net
  PROVE  /\ m.handle \in Hart
         /\ HartOK(m.handle, hart[m.handle], handle[m.handle])
         /\ MsgOK(m, hart[m.handle], handle[m.handle])
         /\ Transfer(m.handle) = m.x
         /\ \A m1 \in net : m1.handle = m.handle => m1 = m
<1>1. /\ MsgOK(m, hart[m.handle], handle[m.handle])
      /\ m.handle \in Hart /\ hart[m.handle].state = "wait"
      /\ \A m1 \in net : m1.handle = m.handle => m1 = m
  BY DEF IInv, MsgsOK, MsgOK, OneMessage
<1>2. Transfer(m.handle) = m.x
  BY <1>1, TransferIs, TransferPlace
<1> QED BY <1>1, <1>2 DEF IInv, HartsOK

\* A message is replaced by message m1, for the same hart.
LEMMA ReplaceStep ==
  ASSUME IInv, NEW m \in net, NEW m1, Replace(m, {m1}),
         m1.handle = m.handle, MsgOK(m1, hart[m.handle], handle[m.handle]),
         UNCHANGED <<hart, handle, ret, aborted>>,
         NEW mm \in [Word -> Val], mem' = mm
  PROVE  IInv' /\ Others(m.handle) /\ Transfer(m.handle)' = m1.x
<1> DEFINE h == m.handle
<1>1. /\ h \in Hart /\ HartOK(h, hart[h], handle[h])
      /\ \A m2 \in net : m2.handle = h => m2 = m
  BY MessageFacts
<1>2. net' = (net \ {m}) \cup {m1} /\ hart' = hart /\ ret' = ret /\ aborted' = aborted
  BY DEF Replace
<1>3. handle' = [handle EXCEPT ![h] = handle[h]]
  BY DEF IInv
<1>4. /\ \A m2 \in net : m2 # m => m2 \in net'
      /\ \A m2 \in net' : \/ m2 \in net /\ m2 # m
                          \/ m2.handle = h /\ MsgOK(m2, hart[h], handle[h])
      /\ \A m2, m3 \in net' : m2.handle = h /\ m3.handle = h => m3 = m2
      /\ m1 \in net'
  BY <1>1, <1>2
<1>5. /\ Shapes' /\ HartsOK' /\ MsgsOK' /\ OneMessage'
      /\ handle'[h] = handle[h]
      /\ \A k \in Hart \ {h} : Transfer(k)' = Transfer(k)
  BY <1>1, <1>2, <1>3, <1>4, MessageMoves
<1>6. IInv'
  BY <1>2, <1>5 DEF IInv, Shapes
<1>7. Transfer(h)' = m1.x
  <2>1. hart'[h].state = "wait"
    BY <1>2 DEF MsgOK
  <2> QED BY <1>4, <2>1, TransferIs, TransferPlace
<1> QED BY <1>5, <1>6, <1>7 DEF Others

\* The message with another transfer.
LEMMA MessageExcept ==
  ASSUME NEW m, m = Message(m.am, m.at, m.handle, m.x), NEW y
  PROVE  LET m1 == [m EXCEPT !.x = y]
         IN  /\ m1 = Message(m1.am, m1.at, m1.handle, m1.x)
             /\ m1.am = m.am /\ m1.at = m.at /\ m1.handle = m.handle /\ m1.x = y
<1>1. PICK am, at, h, x : m = [am |-> am, at |-> at, handle |-> h, x |-> x]
  BY DEF Message
<1>2. [m EXCEPT !.x = y] = [am |-> am, at |-> at, handle |-> h, x |-> y]
  BY <1>1
<1>3. m.am = am /\ m.at = at /\ m.handle = h
  BY <1>1
<1> QED BY <1>2, <1>3 DEF Message

\* The handler of a message reads a word,
LEMMA ReadAtStep ==
  ASSUME IInv, NEW m \in net, m.am = "load", NEW i, readAt(m, i)
  PROVE  IInv' /\ MapsTo
<1> DEFINE h == m.handle
           y == Read(m.x, i, mem)
<1>1. /\ h \in Hart /\ MsgOK(m, hart[h], handle[h]) /\ Transfer(h) = m.x
  BY MessageFacts
<1>2. XferOK(m.x) /\ mem \in [Word -> Val] /\ i \in m.x.rd
  BY <1>1 DEF MsgOK, IInv, readAt
<1>3. XferOK(y) /\ y.op = m.x.op /\ y.wr = m.x.wr
  BY <1>2, ReadXfer
<1>4. PICK m1 : m1 = [m EXCEPT !.x = y]
  OBVIOUS
<1>5. /\ m1 = Message(m1.am, m1.at, m1.handle, m1.x)
      /\ m1.am = m.am /\ m1.at = m.at /\ m1.handle = h /\ m1.x = y
  <2>1. m = Message(m.am, m.at, m.handle, m.x) /\ m.handle = h
    BY <1>1 DEF MsgOK
  <2> HIDE DEF y
  <2> QED BY <1>4, <2>1, MessageExcept
<1>6. /\ Replace(m, {m1}) /\ UNCHANGED <<hart, handle, ret, aborted>>
      /\ mem' = mem /\ ret' = ret
  BY <1>4 DEF readAt
<1> HIDE DEF y
<1>7. RouteOK(m)
  BY <1>1 DEF MsgOK
<1>8. RouteOK(m1)
  BY <1>3, <1>5, <1>7 DEF RouteOK, AtomicKind, FetchKind
<1>9. handle[h].data = <<>>
  BY <1>1 DEF MsgOK
<1>10. MsgOK(m1, hart[h], handle[h])
  BY <1>1, <1>3, <1>5, <1>8, <1>9 DEF MsgOK
<1>11. IInv' /\ Others(h) /\ Transfer(h)' = y
  BY <1>2, <1>5, <1>6, <1>10, ReplaceStep
<1>12. MapsToRead(h)
  BY <1>1, <1>2, <1>6, <1>11 DEF MapsToRead, y
<1> QED BY <1>1, <1>11, <1>12 DEF MapsTo

\* or writes one.
LEMMA WriteAtStep ==
  ASSUME IInv, NEW m \in net, m.am # "load", NEW i, writeAt(m, i)
  PROVE  IInv' /\ MapsTo
<1> DEFINE h == m.handle
           y == Wrote(m.x, i, mem)
<1>1. /\ h \in Hart /\ MsgOK(m, hart[h], handle[h]) /\ Transfer(h) = m.x
  BY MessageFacts
<1>2. XferOK(m.x) /\ mem \in [Word -> Val] /\ i \in m.x.wr /\ RouteOK(m)
  BY <1>1 DEF MsgOK, IInv, writeAt
<1>3. m.x.rd = {}
  BY <1>2 DEF RouteOK
<1>4. /\ XferOK(y) /\ y.op = m.x.op /\ y.rd = {}
      /\ Write(m.x, i, mem) \in [Word -> Val]
  BY <1>2, <1>3, WroteXfer
<1>5. PICK m1 : m1 = [m EXCEPT !.x = y]
  OBVIOUS
<1>6. /\ m1 = Message(m1.am, m1.at, m1.handle, m1.x)
      /\ m1.am = m.am /\ m1.at = m.at /\ m1.handle = h /\ m1.x = y
  <2> HIDE DEF y
  <2>1. m = Message(m.am, m.at, m.handle, m.x)
    BY <1>1 DEF MsgOK
  <2> QED BY <1>5, <2>1, MessageExcept
<1>7. /\ Replace(m, {m1}) /\ UNCHANGED <<hart, handle, ret, aborted>>
      /\ mem' = Write(m.x, i, mem) /\ ret' = ret
  BY <1>5 DEF writeAt
<1> HIDE DEF y
<1>8. RouteOK(m1)
  BY <1>2, <1>4, <1>6 DEF RouteOK
<1>9. handle[h].data = <<>>
  BY <1>1, <1>2 DEF MsgOK
<1>10. MsgOK(m1, hart[h], handle[h])
  BY <1>1, <1>4, <1>6, <1>8, <1>9 DEF MsgOK
<1>11. IInv' /\ Others(h) /\ Transfer(h)' = y
  BY <1>4, <1>6, <1>7, <1>10, ReplaceStep
<1>12. MapsToWrite(h)
  BY <1>1, <1>2, <1>3, <1>7, <1>11 DEF MapsToWrite, y
<1> QED BY <1>1, <1>11, <1>12 DEF MapsTo

\* A reply carries the transfer on.
LEMMA ReplyStep ==
  ASSUME IInv, NEW m \in net, m.am \notin {"LoadAck", "ValueAck"}, NEW am, reply(m, am),
         RouteOK(Message(am, HartNode[m.handle], m.handle, m.x))
  PROVE  IInv' /\ MapsTo
<1> DEFINE h == m.handle
<1>1. /\ h \in Hart /\ MsgOK(m, hart[h], handle[h]) /\ Transfer(h) = m.x
  BY MessageFacts
<1>2. PICK m1 : m1 = Message(am, HartNode[h], h, m.x)
  OBVIOUS
<1>3. /\ m1 = Message(m1.am, m1.at, m1.handle, m1.x)
      /\ m1.am = am /\ m1.at = HartNode[h] /\ m1.handle = h /\ m1.x = m.x
  BY <1>2, MessageRoute
<1>4. /\ Replace(m, {m1}) /\ UNCHANGED <<hart, handle, ret, aborted>>
      /\ mem' = mem /\ ret' = ret /\ mem \in [Word -> Val]
  BY <1>2 DEF reply, IInv
<1>5. m1.at \in Node
  BY <1>1, <1>3, PlacementAssumption
<1>6. handle[h].data = <<>> /\ RouteOK(m1)
  BY <1>1, <1>2 DEF MsgOK
<1>7. MsgOK(m1, hart[h], handle[h])
  BY <1>1, <1>3, <1>5, <1>6 DEF MsgOK
<1>8. IInv' /\ Others(h) /\ Transfer(h)' = m.x
  BY <1>3, <1>4, <1>7, ReplaceStep
<1>9. MapsToNothing(h)
  BY <1>1, <1>4, <1>8 DEF MapsToNothing
<1> QED BY <1>1, <1>8, <1>9 DEF MapsTo

\* The data of a reply goes into the handle.
LEMMA WriteHandleStep ==
  ASSUME IInv, NEW m \in net, m.am \in {"LoadAck", "ValueAck"}, m.x.wr = {}, writeHandle(m)
  PROVE  IInv' /\ MapsTo
<1> DEFINE h == m.handle
           d == [data |-> m.x.buf, done |-> handle[h].done]
<1>1. /\ h \in Hart /\ MsgOK(m, hart[h], handle[h]) /\ Transfer(h) = m.x
      /\ HartOK(h, hart[h], handle[h])
      /\ \A m1 \in net : m1.handle = h => m1 = m
  BY MessageFacts
<1>2. /\ handle' = [handle EXCEPT ![h].data = m.x.buf]
      /\ hart' = hart /\ net' = net /\ mem' = mem /\ ret' = ret /\ aborted' = aborted
  BY DEF writeHandle
<1>3. handle' = [handle EXCEPT ![h] = d]
  <2>1. handle[h] = [data |-> handle[h].data, done |-> handle[h].done]
    BY <1>1 DEF HartOK
  <2>2. [handle[h] EXCEPT !.data = m.x.buf] = d
    BY <2>1
  <2> QED BY <1>2, <2>2
<1>4. d.data = m.x.buf /\ d.done = handle[h].done /\ d = [data |-> d.data, done |-> d.done]
  OBVIOUS
<1> HIDE DEF d
<1>5. HartOK(h, hart[h], d)
  BY <1>1, <1>4 DEF HartOK
<1>6. MsgOK(m, hart[h], d)
  BY <1>1, <1>4 DEF MsgOK
<1>7. /\ \A m1 \in net : m1 # m => m1 \in net'
      /\ \A m1 \in net' : \/ m1 \in net /\ m1 # m
                          \/ m1.handle = h /\ MsgOK(m1, hart[h], d)
      /\ \A m1, m2 \in net' : m1.handle = h /\ m2.handle = h => m2 = m1
  BY <1>1, <1>2, <1>6
<1>8. /\ Shapes' /\ HartsOK' /\ MsgsOK' /\ OneMessage'
      /\ \A k \in Hart \ {h} : Transfer(k)' = Transfer(k)
  BY <1>2, <1>3, <1>5, <1>7, MessageMoves
<1>9. IInv'
  BY <1>2, <1>8 DEF IInv, Shapes
<1>10. Transfer(h)' = m.x
  <2>1. hart'[h].state = "wait"
    BY <1>1, <1>2 DEF MsgOK
  <2>2. m \in net' /\ \A m1 \in net' : m1.handle = h => m1 = m
    BY <1>1, <1>2
  <2> QED BY <2>1, <2>2, TransferIs, TransferPlace
<1>11. MapsToNothing(h)
  BY <1>1, <1>2, <1>10 DEF MapsToNothing
<1> QED BY <1>1, <1>8, <1>9, <1>11 DEF MapsTo, Others

\* The hart is told; its transfer is complete and its result in the handle.
LEMMA SetReadyStep ==
  ASSUME IInv, NEW m \in net, m.am \in {"LoadAck", "Ack", "ValueAck"}, setReady(m),
         m.am # "Ack" => handle[m.handle].data # <<>>
  PROVE  IInv' /\ MapsTo
<1> DEFINE h == m.handle
           d == [data |-> handle[h].data, done |-> TRUE]
<1>1. /\ h \in Hart /\ MsgOK(m, hart[h], handle[h]) /\ Transfer(h) = m.x
      /\ HartOK(h, hart[h], handle[h])
      /\ \A m1 \in net : m1.handle = h => m1 = m
  BY MessageFacts
<1>2. /\ handle' = [handle EXCEPT ![h].done = TRUE]
      /\ hart' = hart /\ net' = net \ {m} /\ mem' = mem /\ ret' = ret /\ aborted' = aborted
  BY DEF setReady, Replace
<1>3. handle' = [handle EXCEPT ![h] = d]
  <2>1. handle[h] = [data |-> handle[h].data, done |-> handle[h].done]
    BY <1>1 DEF HartOK
  <2>2. [handle[h] EXCEPT !.done = TRUE] = d
    <3>1. PICK a, b : handle[h] = [data |-> a, done |-> b]
      BY <2>1
    <3>2. \A t : [[data |-> a, done |-> b] EXCEPT !.done = t] = [data |-> a, done |-> t]
      OBVIOUS
    <3>3. handle[h].data = a
      BY <3>1
    <3> QED BY <3>1, <3>2, <3>3, Zenon
  <2> QED BY <1>2, <2>2
<1>4. d.data = handle[h].data /\ d.done = TRUE /\ d = [data |-> d.data, done |-> d.done]
  OBVIOUS
<1> HIDE DEF d
<1>5. HartOK(h, hart[h], d)
  BY <1>1, <1>4 DEF HartOK
<1>6. /\ \A m1 \in net : m1 # m => m1 \in net'
      /\ \A m1 \in net' : \/ m1 \in net /\ m1 # m
                          \/ m1.handle = h /\ MsgOK(m1, hart[h], d)
      /\ \A m1 \in net' : m1.handle # h
  BY <1>1, <1>2
<1>7. /\ Shapes' /\ HartsOK' /\ MsgsOK' /\ OneMessage' /\ handle'[h] = d
      /\ \A k \in Hart \ {h} : Transfer(k)' = Transfer(k)
  BY <1>2, <1>3, <1>5, <1>6, MessageMoves
<1>8. IInv'
  BY <1>2, <1>7 DEF IInv, Shapes
<1>9. Transfer(h)' = Over(hart[h], d)
  <2>1. hart'[h].state = "wait"
    BY <1>1, <1>2 DEF MsgOK
  <2>2. TransferOf(h, hart'[h], handle'[h], net') = Over(hart'[h], handle'[h])
    BY <1>6, <2>1, TransferPlace
  <2>3. Transfer(h)' = TransferOf(h, hart'[h], handle'[h], net')
    BY TransferIs
  <2> QED BY <1>2, <1>7, <2>2, <2>3
<1>10. Over(hart[h], d) = m.x
  <2>1. /\ XferOK(m.x) /\ RouteOK(m) /\ hart[h].x.op = m.x.op
        /\ m.am # "Ack" => m.x.wr = {} /\ handle[h].data = m.x.buf
    BY <1>1 DEF MsgOK
  <2>2. m.x.rd = {} /\ m.x.wr = {}
    BY <2>1 DEF RouteOK, AtomicKind, FetchKind
  <2>3. HasResult(m.x.op) => m.x.buf = d.data
    BY <1>4, <2>1 DEF RouteOK, AtomicKind, FetchKind
  <2>4. ~HasResult(m.x.op) => m.x.buf = Begin(m.x.op).buf
    <3>1. SUFFICES ASSUME ~HasResult(m.x.op) PROVE m.x.buf = Begin(m.x.op).buf
      OBVIOUS
    <3>2. /\ DOMAIN m.x.buf = ReadSet(m.x.op) \cup WriteSet(m.x.op)
          /\ m.x.buf = [i \in DOMAIN m.x.buf |-> m.x.buf[i]]
          /\ \A i \in DOMAIN m.x.buf : m.x.buf[i] = 0
      BY <2>1, <2>2, <3>1 DEF XferOK, TransferOK
    <3>3. Begin(m.x.op).buf = [i \in ReadSet(m.x.op) \cup WriteSet(m.x.op) |-> 0]
      BY DEF Begin
    <3> QED BY <3>2, <3>3
  <2>5. m.x = [op |-> m.x.op, rd |-> m.x.rd, wr |-> m.x.wr, buf |-> m.x.buf]
    BY <2>1 DEF XferOK
  <2>6. m.x.buf = IF HasResult(m.x.op) THEN d.data ELSE Begin(m.x.op).buf
    BY <2>3, <2>4
  <2>7. m.x = [op |-> hart[h].x.op, rd |-> {}, wr |-> {},
               buf |-> IF HasResult(hart[h].x.op) THEN d.data ELSE Begin(hart[h].x.op).buf]
    BY <2>1, <2>2, <2>5, <2>6
  <2> QED BY <2>7, Zenon DEF Over
<1>11. MapsToNothing(h)
  BY <1>1, <1>2, <1>9, <1>10 DEF MapsToNothing
<1> QED BY <1>1, <1>7, <1>8, <1>11 DEF MapsTo, Others

\* The handler of a load request,
LEMMA LoadHandlerStep ==
  ASSUME IInv, NEW m \in net, handleLoad(m)
  PROVE  IInv' /\ MapsTo
<1> DEFINE o == m.x.op
<1>1. m.handle \in Hart /\ MsgOK(m, hart[m.handle], handle[m.handle])
  BY MessageFacts
<1>2. m.am = "load"
  BY DEF handleLoad, Handles
<1>3. CASE abort
  BY <1>1, <1>3, AbortStep
<1>4. CASE \E i \in m.x.rd : readAt(m, i)
  BY <1>2, <1>4, ReadAtStep
<1>5. CASE m.x.rd = {} /\ reply(m, "LoadAck")
  <2>1. /\ o.kind \in {"load", "copy"}
        /\ o.kind = "copy" => Here(m.handle, o.dst)
        /\ XferOK(m.x)
    BY <1>1, <1>2 DEF MsgOK, RouteOK, AtomicKind, FetchKind
  <2>2. o.kind = "copy" => o.dst # <<>>
    BY <2>1, OpFacts DEF XferOK, OpOK
  <2>3. o.kind = "copy" => Owner(o.dst) = HartNode[m.handle]
    BY <2>1, <2>2 DEF Here
  <2>4. RouteOK(Message("LoadAck", HartNode[m.handle], m.handle, m.x))
    BY <1>5, <2>1, <2>3, MessageRoute DEF RouteOK
  <2> QED BY <1>2, <1>5, <2>4, ReplyStep
<1> QED BY <1>3, <1>4, <1>5 DEF handleLoad

\* of a store request,
LEMMA StoreHandlerStep ==
  ASSUME IInv, NEW m \in net, handleStore(m)
  PROVE  IInv' /\ MapsTo
<1>1. MsgOK(m, hart[m.handle], handle[m.handle])
  BY MessageFacts
<1>2. m.am = "store"
  BY DEF handleStore, Handles
<1>3. CASE \E i \in m.x.wr : writeAt(m, i)
  BY <1>2, <1>3, WriteAtStep
<1>4. CASE m.x.wr = {} /\ reply(m, "Ack")
  <2>1. m.x.op.kind \in {"store", "copy"} /\ m.x.rd = {}
    BY <1>1, <1>2 DEF MsgOK, RouteOK, AtomicKind, FetchKind
  <2>2. RouteOK(Message("Ack", HartNode[m.handle], m.handle, m.x))
    BY <1>4, <2>1, MessageRoute DEF RouteOK, HasResult, FetchKind
  <2> QED BY <1>2, <1>4, <2>2, ReplyStep
<1> QED BY <1>3, <1>4 DEF handleStore, sendAck

\* of an atomic operation that returns a value,
LEMMA FetchHandlerStep ==
  ASSUME IInv, NEW m \in net, m.am \in FetchKind,
         writeAt(m, 1) \/ (m.x.wr = {} /\ sendValue(m))
  PROVE  IInv' /\ MapsTo
<1>1. MsgOK(m, hart[m.handle], handle[m.handle])
  BY MessageFacts
<1>2. m.am \notin {"load", "store", "LoadAck", "Ack", "ValueAck"}
  BY DEF FetchKind
<1>3. CASE writeAt(m, 1)
  BY <1>2, <1>3, WriteAtStep
<1>4. CASE m.x.wr = {} /\ reply(m, "ValueAck")
  <2>1. m.x.op.kind = m.am /\ m.x.rd = {}
    BY <1>1, <1>2 DEF MsgOK, RouteOK
  <2>2. RouteOK(Message("ValueAck", HartNode[m.handle], m.handle, m.x))
    BY <1>4, <2>1, MessageRoute DEF RouteOK
  <2> QED BY <1>2, <1>4, <2>2, ReplyStep
<1> QED BY <1>3, <1>4 DEF sendValue

\* and of one that does not.
LEMMA UpdateHandlerStep ==
  ASSUME IInv, NEW m \in net, m.am \in {"atomicStore", "increment", "decrement"},
         writeAt(m, 1) \/ (m.x.wr = {} /\ sendAck(m))
  PROVE  IInv' /\ MapsTo
<1>1. MsgOK(m, hart[m.handle], handle[m.handle])
  BY MessageFacts
<1>2. CASE writeAt(m, 1)
  BY <1>2, WriteAtStep
<1>3. CASE m.x.wr = {} /\ reply(m, "Ack")
  <2>1. m.x.op.kind = m.am /\ m.x.rd = {}
    BY <1>1 DEF MsgOK, RouteOK
  <2>2. RouteOK(Message("Ack", HartNode[m.handle], m.handle, m.x))
    BY <1>3, <2>1, MessageRoute DEF RouteOK, HasResult, FetchKind
  <2> QED BY <1>3, <2>2, ReplyStep
<1> QED BY <1>2, <1>3 DEF sendAck

\* The handlers of the replies,
LEMMA ReplyHandlerStep ==
  ASSUME IInv, NEW m \in net, handleLoadAck(m) \/ handleAck(m) \/ handleValueAck(m)
  PROVE  IInv' /\ MapsTo
<1>1. MsgOK(m, hart[m.handle], handle[m.handle])
  BY MessageFacts
<1>2. CASE handleLoadAck(m)
  <2>1. m.am = "LoadAck"
    BY <1>2 DEF handleLoadAck, Handles
  <2>2. CASE \E i \in m.x.wr : writeAt(m, i)
    BY <2>1, <2>2, WriteAtStep
  <2>3. CASE m.x.wr = {} /\ writeHandle(m)
    BY <2>1, <2>3, WriteHandleStep
  <2>4. CASE handle[m.handle].data # <<>> /\ setReady(m)
    BY <2>1, <2>4, SetReadyStep
  <2> QED BY <1>2, <2>2, <2>3, <2>4 DEF handleLoadAck
<1>3. CASE handleAck(m)
  BY <1>3, SetReadyStep DEF handleAck, Handles
<1>4. CASE handleValueAck(m)
  <2>1. m.am = "ValueAck"
    BY <1>4 DEF handleValueAck, Handles
  <2>2. m.x.wr = {}
    BY <1>1, <2>1 DEF MsgOK, RouteOK, AtomicKind, FetchKind
  <2>3. CASE writeHandle(m)
    BY <2>1, <2>2, <2>3, WriteHandleStep
  <2>4. CASE handle[m.handle].data # <<>> /\ setReady(m)
    BY <2>1, <2>4, SetReadyStep
  <2> QED BY <1>4, <2>3, <2>4 DEF handleValueAck
<1> QED BY <1>2, <1>3, <1>4

\* The steps of the handlers together.
LEMMA HandlerStep ==
  ASSUME IInv, NEW m \in net, Handler(m)
  PROVE  IInv' /\ MapsTo
<1>1. CASE handleLoad(m)
  BY <1>1, LoadHandlerStep
<1>2. CASE handleStore(m)
  BY <1>2, StoreHandlerStep
<1>3. CASE \/ handleAtomicLoad(m) \/ handleAtomicCompareExchange(m)
           \/ handleAtomicFetchAdd(m) \/ handleAtomicFetchSub(m)
  <2>1. m.am \in FetchKind /\ (writeAt(m, 1) \/ (m.x.wr = {} /\ sendValue(m)))
    BY <1>3 DEF handleAtomicLoad, handleAtomicCompareExchange, handleAtomicFetchAdd,
                handleAtomicFetchSub, Handles, FetchKind
  <2> QED BY <2>1, FetchHandlerStep
<1>4. CASE handleAtomicStore(m) \/ handleAtomicIncrement(m) \/ handleAtomicDecrement(m)
  <2>1. /\ m.am \in {"atomicStore", "increment", "decrement"}
        /\ writeAt(m, 1) \/ (m.x.wr = {} /\ sendAck(m))
    BY <1>4 DEF handleAtomicStore, handleAtomicIncrement, handleAtomicDecrement, Handles
  <2> QED BY <2>1, UpdateHandlerStep
<1>5. CASE handleLoadAck(m) \/ handleAck(m) \/ handleValueAck(m)
  BY <1>5, ReplyHandlerStep
<1> QED BY <1>1, <1>2, <1>3, <1>4, <1>5 DEF Handler

-----------------------------------------------------------------------------
\* Initially every hart is in its program, with nothing under way.
LEMMA InitInv == Init => IInv
<1> SUFFICES ASSUME Init PROVE IInv
  OBVIOUS
<1>1. 0 \in Val
  BY ModulusAssumption DEF Val
<1>2. \A h \in Hart : hart[h] = [state |-> "user", x |-> Idle] /\ handle[h] = NoHandle
  BY DEF Init
<1>3. HartsOK
  <2>1. ASSUME NEW h \in Hart
        PROVE  HartOK(h, [state |-> "user", x |-> Idle], [data |-> <<>>, done |-> FALSE])
    BY DEF HartOK
  <2> QED BY <1>2, <2>1 DEF HartsOK, NoHandle
<1>4. mem \in [Word -> Val]
  BY <1>1 DEF Init
<1> QED BY <1>3, <1>4 DEF Init, IInv, MsgsOK, OneMessage

\* Every step is a step of the abstract memory or changes nothing of it.
LEMMA NextStep ==
  ASSUME IInv, Next
  PROVE  IInv' /\ (MapsTo \/ UNCHANGED vars)
<1>1. ASSUME NEW h \in Hart, Caller(h) \/ HartStep(h)
      PROVE  IInv' /\ MapsTo
  BY <1>1, CallerStep, HartStepStep
<1>2. ASSUME NEW m \in net, Handler(m)
      PROVE  IInv' /\ MapsTo
  BY <1>2, HandlerStep
<1>3. CASE Aborted
  BY <1>3 DEF Aborted, vars, IInv, HartsOK, MsgsOK, OneMessage
<1> QED BY <1>1, <1>2, <1>3 DEF Next

\* Nothing happens.
LEMMA StutterInv ==
  ASSUME IInv, UNCHANGED vars
  PROVE  IInv'
  BY DEF vars, IInv, HartsOK, MsgsOK, OneMessage

\* The inductive invariant holds in every reachable state of the model of
\* global memory.
THEOREM Invariance == Spec => []IInv
<1>1. IInv /\ [Next]_vars => IInv'
  BY NextStep, StutterInv
<1> QED BY <1>1, InitInv, PTL DEF Spec

\* Words, buffers and replies hold integers of the machine's width, and what is
\* left of a transfer is part of its operation.
THEOREM TypeCorrect == Spec => []TypeOK
<1>1. IInv => TypeOK
  BY DEF IInv, HartsOK, HartOK, MsgsOK, MsgOK, XferOK, TypeOK
<1> QED BY <1>1, Invariance, PTL

\* A message that is in flight or being handled refers to the handle of a hart
\* that is still waiting, and no two messages refer to the same handle.
THEOREM HandlesLive == Spec => []HandleLive
<1>1. IInv => HandleLive
  BY DEF IInv, MsgsOK, MsgOK, OneMessage, HandleLive
<1> QED BY <1>1, Invariance, PTL

\* A native address is dereferenced only on the node that owns the word,
\* whatever the placement of words and harts is.
THEOREM AccessOnOwner == Spec => []OwnerAccess
<1>1. IInv => OwnerAccess
  <2> SUFFICES ASSUME IInv PROVE OwnerAccess
    OBVIOUS
  <2>1. ASSUME NEW h \in Hart
        PROVE  /\ hart[h].state \in {"local", "pack"} => Here(h, hart[h].x.op.src)
               /\ hart[h].state = "local" => Here(h, hart[h].x.op.dst)
    BY DEF IInv, HartsOK, HartOK
  <2>2. ASSUME NEW m \in net
        PROVE  IF m.am = "load" THEN Owner(m.x.op.src) = m.at
               ELSE m.x.wr # {} => Owner(m.x.op.dst) = m.at
    <3>1. RouteOK(m) /\ XferOK(m.x)
      BY DEF IInv, MsgsOK, MsgOK
    <3>2. m.x.op.kind = "load" => m.x.wr = {}
      BY <3>1, OpFacts DEF XferOK, OpOK, TransferOK
    <3> QED BY <3>1, <3>2 DEF RouteOK, AtomicKind, FetchKind
  <2> QED BY <2>1, <2>2 DEF OwnerAccess
<1> QED BY <1>1, Invariance, PTL

-----------------------------------------------------------------------------
(***************************************************************************)
(* Refinement.  AtomicMemory takes the operators of MemoryOps with the     *)
(* same constants.                                                         *)
(***************************************************************************)
LEMMA SameOps == Abstract!Op = Op
<1>1. Abstract!LoadOps = LoadOps
  BY DEF Abstract!LoadOps, LoadOps, Abstract!LoadOp, LoadOp
<1>2. Abstract!StoreOps = StoreOps
  BY DEF Abstract!StoreOps, StoreOps, Abstract!StoreOp, StoreOp
<1>3. Abstract!CopyOps = CopyOps
  BY DEF Abstract!CopyOps, CopyOps, Abstract!CopyOp, CopyOp, Abstract!Copies, Copies
<1>4. Abstract!AtomicOps = AtomicOps
  BY DEF Abstract!AtomicOps, AtomicOps, Abstract!AtomicOp, AtomicOp, Abstract!AtomicKind,
         AtomicKind, Abstract!FetchKind, FetchKind
<1> QED BY <1>1, <1>2, <1>3, <1>4 DEF Abstract!Op, Op

\* The operators of the abstract memory are those of the model.
LEMMA SameOperators ==
  /\ Abstract!Idle = Idle
  /\ \A o : Abstract!Begin(o) = Begin(o)
  /\ \A x, i, mm : /\ Abstract!Read(x, i, mm) = Read(x, i, mm)
                   /\ Abstract!Wrote(x, i, mm) = Wrote(x, i, mm)
                   /\ Abstract!Write(x, i, mm) = Write(x, i, mm)
  /\ \A o, b : Abstract!Result(o, b) = Result(o, b)
  /\ \A x : Abstract!Complete(x) <=> Complete(x)
<1>1. Abstract!Idle = Idle
  BY DEF Abstract!Idle, Idle, Abstract!NoOp, NoOp
<1>2. \A o : Abstract!Begin(o) = Begin(o)
  BY DEF Abstract!Begin, Begin, Abstract!ReadSet, ReadSet, Abstract!WriteSet, WriteSet
<1>3. \A x, i, mm : Abstract!Read(x, i, mm) = Read(x, i, mm)
  BY DEF Abstract!Read, Read
<1>4. \A x, i, mm : Abstract!Wrote(x, i, mm) = Wrote(x, i, mm)
  BY DEF Abstract!Wrote, Wrote, Abstract!FetchKind, FetchKind
<1>5. \A o, i, cur, b : Abstract!NewValue(o, i, cur, b) = NewValue(o, i, cur, b)
  BY DEF Abstract!NewValue, NewValue
<1>6. \A x, i, mm : Abstract!Write(x, i, mm) = Write(x, i, mm)
  BY <1>5 DEF Abstract!Write, Write
<1>7. \A o, b : Abstract!Result(o, b) = Result(o, b)
  BY DEF Abstract!Result, Result, Abstract!HasResult, HasResult, Abstract!FetchKind, FetchKind
<1>8. \A x : Abstract!Complete(x) <=> Complete(x)
  BY DEF Abstract!Complete, Complete
<1> QED BY <1>1, <1>2, <1>3, <1>4, <1>6, <1>7, <1>8

\* The transfers of all harts.
Transfers == [h \in Hart |-> Transfer(h)]

\* Nothing is under way at the beginning.
LEMMA AbstractInit == Init => Abstract!Init
<1> SUFFICES ASSUME Init PROVE Abstract!Init
  OBVIOUS
<1>1. \A h \in Hart : Transfer(h) = Idle
  <2> SUFFICES ASSUME NEW h \in Hart PROVE Transfer(h) = Idle
    OBVIOUS
  <2>1. hart[h].state = "user" /\ hart[h].x = Idle
    BY DEF Init
  <2> QED BY <2>1, TransferIs, TransferPlace
<1> QED BY <1>1, SameOperators DEF Init, Abstract!Init

\* Every step is one of the abstract memory.
LEMMA AbstractNext ==
  ASSUME MapsTo
  PROVE  Abstract!Next \/ UNCHANGED Abstract!vars
<1>1. PICK h \in Hart :
        /\ Others(h)
        /\ \/ MapsToCall(h) \/ MapsToRead(h) \/ MapsToWrite(h) \/ MapsToReturn(h)
           \/ MapsToNothing(h)
  BY DEF MapsTo
<1>2. PICK x : x = Transfers
  OBVIOUS
<1>3. PICK y : y = Transfers'
  OBVIOUS
<1>4. /\ x = [k \in Hart |-> x[k]] /\ x[h] = Transfer(h)
      /\ y = [x EXCEPT ![h] = y[h]] /\ y[h] = Transfer(h)'
  BY <1>1, <1>2, <1>3 DEF Transfers, Others
<1>5. CASE MapsToCall(h)
  <2>1. PICK o \in Op : Transfer(h)' = Begin(o)
    BY <1>5 DEF MapsToCall
  <2>2. /\ x[h] = Idle /\ y = [x EXCEPT ![h] = Begin(o)]
        /\ ret' = [ret EXCEPT ![h] = <<>>] /\ mem' = mem
    BY <1>4, <1>5, <2>1 DEF MapsToCall
  <2>3. Abstract!Call(h, o)
    BY <1>2, <1>3, <2>2, SameOperators DEF Abstract!Call, Transfers
  <2> QED BY <2>3, SameOps DEF Abstract!Next
<1>6. CASE MapsToRead(h)
  <2>1. PICK i \in Transfer(h).rd : Transfer(h)' = Read(Transfer(h), i, mem)
    BY <1>6 DEF MapsToRead
  <2>2. /\ i \in x[h].rd /\ y = [x EXCEPT ![h] = Read(x[h], i, mem)]
        /\ ret' = ret /\ mem' = mem
    BY <1>4, <1>6, <2>1 DEF MapsToRead
  <2>3. Abstract!ReadWord(h, i)
    BY <1>2, <1>3, <2>2, SameOperators DEF Abstract!ReadWord, Transfers
  <2> QED BY <1>2, <2>2, <2>3 DEF Abstract!Next, Transfers
<1>7. CASE MapsToWrite(h)
  <2>1. PICK i \in Transfer(h).wr \ Transfer(h).rd :
               /\ Transfer(h)' = Wrote(Transfer(h), i, mem)
               /\ mem' = Write(Transfer(h), i, mem)
    BY <1>7 DEF MapsToWrite
  <2>2. /\ i \in x[h].wr \ x[h].rd /\ y = [x EXCEPT ![h] = Wrote(x[h], i, mem)]
        /\ ret' = ret /\ mem' = Write(x[h], i, mem)
    BY <1>4, <1>7, <2>1 DEF MapsToWrite
  <2>3. Abstract!WriteWord(h, i)
    BY <1>2, <1>3, <2>2, SameOperators DEF Abstract!WriteWord, Transfers
  <2> QED BY <1>2, <2>2, <2>3 DEF Abstract!Next, Transfers
<1>8. CASE MapsToReturn(h)
  <2>1. /\ x[h] # Idle /\ Complete(x[h]) /\ y = [x EXCEPT ![h] = Idle]
        /\ ret' = [ret EXCEPT ![h] = Result(x[h].op, x[h].buf)] /\ mem' = mem
    BY <1>4, <1>8 DEF MapsToReturn
  <2>2. Abstract!Return(h)
    BY <1>2, <1>3, <2>1, SameOperators DEF Abstract!Return, Transfers
  <2> QED BY <2>2 DEF Abstract!Next
<1>9. CASE MapsToNothing(h)
  <2>1. y = x /\ mem' = mem /\ ret' = ret
    BY <1>4, <1>9 DEF MapsToNothing
  <2> QED BY <1>2, <1>3, <2>1 DEF Abstract!vars, Transfers
<1> QED BY <1>1, <1>5, <1>6, <1>7, <1>8, <1>9

\* A step that changes nothing changes nothing of the abstract memory.
LEMMA AbstractStutter ==
  ASSUME UNCHANGED vars
  PROVE  UNCHANGED Abstract!vars
<1>1. \A h : Transfer(h)' = Transfer(h)
  BY TransferIs DEF vars
<1>2. Transfers' = Transfers
  BY <1>1 DEF Transfers
<1> QED BY <1>2 DEF Abstract!vars, Transfers, vars

\* Loads, stores, copies and atomics, with their messages, handles and replies,
\* implement one memory on which every word access of an operation takes effect
\* at one instant between its call and its return, and a call returns what that
\* access found: for any number of nodes, harts and words.
THEOREM ImplementsAtomicMemory == Spec => AtomicGlobalMemory
<1>1. IInv /\ [Next]_vars => [Abstract!Next]_(Abstract!vars)
  BY NextStep, AbstractNext, AbstractStutter
<1> QED BY <1>1, AbstractInit, Invariance, PTL DEF Spec, Abstract!Spec, AtomicGlobalMemory
=============================================================================
