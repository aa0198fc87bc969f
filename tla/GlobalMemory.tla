----------------------------- MODULE GlobalMemory -----------------------------
(***************************************************************************)
(* Global memory in the PREP backend.  Every word lives on one node.  An   *)
(* access to a word of the caller's node is done in place; an access to    *)
(* another node is an active message that carries the address of a handle  *)
(* on the caller's stack.  The handler on the owner's node does the        *)
(* access and replies; the handler of the reply fills the handle in, and   *)
(* the caller, which has been yielding, goes on.                           *)
(*                                                                         *)
(* A message stays in net until its handler has returned: a handler copies *)
(* an object word by word, concurrently with harts and other handlers.     *)
(* Requests too large for GASNet end the job (PANDO_ABORT).                *)
(***************************************************************************)
EXTENDS MemoryOps

CONSTANTS
  Node,       \* the PXNs
  Hart,       \* the harts (and CPs) of all nodes
  HartNode,   \* the node each runs on
  WordNode,   \* the node each word lives on
  MaxMedium   \* words of payload in the largest active message

ASSUME PlacementAssumption ==
  /\ HartNode \in [Hart -> Node]
  /\ WordNode \in [Word -> Node]
\* An object lives on one node.
ASSUME NodeObjectAssumption ==
  \A b \in Object : \A i \in 1 .. Len(b) : WordNode[b[i]] = WordNode[b[1]]
ASSUME MaxMediumAssumption == MaxMedium \in Nat

VARIABLES
  mem,      \* the contents of the words
  hart,     \* what each hart is doing, and the transfer it does itself
  handle,   \* the Load-, Ack- or ValueHandle of each waiting hart
  net,      \* active messages in flight or being handled
  ret,      \* what the operation each hart last called returned
  aborted   \* the job has been aborted

vars == <<mem, hart, handle, net, ret, aborted>>

NoHandle == [data |-> <<>>, done |-> FALSE]

Init ==
  /\ mem = [w \in Word |-> 0]
  /\ hart = [h \in Hart |-> [state |-> "user", x |-> Idle]]
  /\ handle = [h \in Hart |-> NoHandle]
  /\ net = {}
  /\ ret = [h \in Hart |-> <<>>]
  /\ aborted = FALSE

-----------------------------------------------------------------------------
Owner(b) == WordNode[b[1]]

Here(h, b) == b = <<>> \/ Owner(b) = HartNode[h]

\* What a request carries besides the address and the operands.
Payload(o) == IF o.kind \in {"store", "copy"} THEN Len(o.dst) ELSE 0

Message(am, at, h, x) == [am |-> am, at |-> at, handle |-> h, x |-> x]

(***************************************************************************)
(* The tail of Nodes::load, store, atomicLoad, ...: the request, with the  *)
(* address of a fresh handle, is committed; the hart waits.                *)
(***************************************************************************)
send(h, am, b, x) ==
  /\ net' = net \cup {Message(am, Owner(b), h, x)}
  /\ handle' = [handle EXCEPT ![h] = NoHandle]
  /\ hart' = [hart EXCEPT ![h] = [state |-> "wait", x |-> x]]

start(h, state, o) ==
  /\ hart' = [hart EXCEPT ![h] = [state |-> state, x |-> Begin(o)]]
  /\ UNCHANGED <<net, handle>>

abort ==
  /\ aborted' = TRUE
  /\ UNCHANGED <<mem, hart, handle, net, ret>>

called(h) ==
  /\ ret' = [ret EXCEPT ![h] = <<>>]
  /\ UNCHANGED <<mem, aborted>>

\* Nodes::load sends the address and the size only, whatever the size is.
remoteLoad(h, o) == send(h, "load", o.src, Begin(o)) /\ called(h)

remoteStore(h, o) ==
  \/ Payload(o) > MaxMedium /\ abort
  \/ /\ Payload(o) <= MaxMedium
     /\ send(h, "store", o.dst, Begin(o))
     /\ called(h)

local(h, o) == start(h, "local", o) /\ called(h)

Calls(h, o) == o \in Op /\ hart[h].state = "user" /\ ~aborted

load(h, b) ==
  LET o == LoadOp(b)
  IN  /\ Calls(h, o)
      /\ IF Here(h, b) THEN local(h, o) ELSE remoteLoad(h, o)

store(h, b, v) ==
  LET o == StoreOp(b, v)
  IN  /\ Calls(h, o)
      /\ IF Here(h, b) THEN local(h, o) ELSE remoteStore(h, o)

\* Mutant: the source is taken to be on the caller's node.
MutantCopyDispatch(h, s, d) ==
  LET o == CopyOp(s, d)
  IN  Calls(h, o) /\ Here(h, d) /\ local(h, o)

\* To send an object of this node the hart first copies it into the message.
bulkMemcpy(h, s, d) ==
  LET o == CopyOp(s, d)
  IN  /\ Calls(h, o)
      /\ \/ Here(h, s) /\ Here(h, d) /\ local(h, o)
         \/ /\ Here(h, s) /\ ~Here(h, d)
            /\ IF Payload(o) > MaxMedium THEN abort
               ELSE start(h, "pack", o) /\ called(h)
         \/ ~Here(h, s) /\ Here(h, d) /\ remoteLoad(h, o)
         \/ ~Here(h, s) /\ ~Here(h, d) /\ abort

\* An atomic operation on word w; the message type is that of the operation.
atomic(h, kind, w, v, e) ==
  LET o == AtomicOp(kind, w, v, e)
  IN  /\ Calls(h, o)
      /\ IF Here(h, <<w>>) THEN local(h, o)
         ELSE send(h, kind, <<w>>, Begin(o)) /\ called(h)

atomicLoad(h, w) == atomic(h, "atomicLoad", w, 0, 0)
atomicStore(h, w, v) == atomic(h, "atomicStore", w, v, 0)
atomicCompareExchange(h, w, e, v) == atomic(h, "compareExchange", w, v, e)
atomicIncrement(h, w, v) == atomic(h, "increment", w, v, 0)
atomicDecrement(h, w, v) == atomic(h, "decrement", w, v, 0)
atomicFetchAdd(h, w, v) == atomic(h, "fetchAdd", w, v, 0)
atomicFetchSub(h, w, v) == atomic(h, "fetchSub", w, v, 0)

-----------------------------------------------------------------------------
(***************************************************************************)
(* A hart at work on its own node: an access in place, or the packing of a *)
(* message.                                                                *)
(***************************************************************************)
readHere(h, i) ==
  /\ hart[h].state \in {"local", "pack"} /\ ~aborted
  /\ i \in hart[h].x.rd
  /\ hart' = [hart EXCEPT ![h].x = Read(@, i, mem)]
  /\ UNCHANGED <<mem, handle, net, ret, aborted>>

writeHere(h, i) ==
  /\ hart[h].state = "local" /\ ~aborted
  /\ i \in hart[h].x.wr \ hart[h].x.rd
  /\ hart' = [hart EXCEPT ![h].x = Wrote(@, i, mem)]
  /\ mem' = Write(hart[h].x, i, mem)
  /\ UNCHANGED <<handle, net, ret, aborted>>

commitPacked(h) ==
  /\ hart[h].state = "pack" /\ ~aborted
  /\ hart[h].x.rd = {}
  /\ send(h, "store", hart[h].x.op.dst, hart[h].x)
  /\ UNCHANGED <<mem, ret, aborted>>

Finish(h, data) ==
  /\ ret' = [ret EXCEPT ![h] = Result(hart[h].x.op, data)]
  /\ hart' = [hart EXCEPT ![h] = [state |-> "user", x |-> Idle]]
  /\ handle' = [handle EXCEPT ![h] = NoHandle]
  /\ UNCHANGED <<mem, net, aborted>>

returnLocal(h) ==
  /\ hart[h].state = "local" /\ ~aborted
  /\ Complete(hart[h].x)
  /\ Finish(h, hart[h].x.buf)

\* Mutant: the hart does not wait for the reply of a store.
MutantNoWait(h) ==
  /\ hart[h].state = "wait" /\ ~aborted
  /\ handle[h].done \/ ~HasResult(hart[h].x.op)
  /\ Finish(h, handle[h].data)

\* hartYieldUntil(handle.ready()), and the value in the handle.
returnRemote(h) ==
  /\ hart[h].state = "wait" /\ ~aborted
  /\ handle[h].done
  /\ Finish(h, handle[h].data)

-----------------------------------------------------------------------------
\* Message m has become m1, or nothing.
Replace(m, new) == net' = (net \ {m}) \cup new

readAt(m, i) ==
  /\ i \in m.x.rd
  /\ Replace(m, {[m EXCEPT !.x = Read(@, i, mem)]})
  /\ UNCHANGED <<mem, hart, handle, ret, aborted>>

writeAt(m, i) ==
  /\ i \in m.x.wr
  /\ Replace(m, {[m EXCEPT !.x = Wrote(@, i, mem)]})
  /\ mem' = Write(m.x, i, mem)
  /\ UNCHANGED <<hart, handle, ret, aborted>>

reply(m, am) ==
  /\ Replace(m, {Message(am, HartNode[m.handle], m.handle, m.x)})
  /\ UNCHANGED <<mem, hart, handle, ret, aborted>>

sendAck(m) == reply(m, "Ack")
sendValue(m) == reply(m, "ValueAck")

Handles(m, am) == m \in net /\ m.am = am /\ ~aborted

\* The data goes into the reply; a reply too large ends the job.
handleLoad(m) ==
  /\ Handles(m, "load")
  /\ \/ Len(m.x.op.src) > MaxMedium /\ abort
     \/ /\ Len(m.x.op.src) <= MaxMedium
        /\ \/ \E i \in m.x.rd : readAt(m, i)
           \/ m.x.rd = {} /\ reply(m, "LoadAck")

handleStore(m) ==
  /\ Handles(m, "store")
  /\ \/ \E i \in m.x.wr : writeAt(m, i)
     \/ m.x.wr = {} /\ sendAck(m)

handleAtomicLoad(m) ==
  /\ Handles(m, "atomicLoad")
  /\ \/ writeAt(m, 1)
     \/ m.x.wr = {} /\ sendValue(m)

handleAtomicStore(m) ==
  /\ Handles(m, "atomicStore")
  /\ \/ writeAt(m, 1)
     \/ m.x.wr = {} /\ sendAck(m)

handleAtomicCompareExchange(m) ==
  /\ Handles(m, "compareExchange")
  /\ \/ writeAt(m, 1)
     \/ m.x.wr = {} /\ sendValue(m)

handleAtomicIncrement(m) ==
  /\ Handles(m, "increment")
  /\ \/ writeAt(m, 1)
     \/ m.x.wr = {} /\ sendAck(m)

handleAtomicDecrement(m) ==
  /\ Handles(m, "decrement")
  /\ \/ writeAt(m, 1)
     \/ m.x.wr = {} /\ sendAck(m)

handleAtomicFetchAdd(m) ==
  /\ Handles(m, "fetchAdd")
  /\ \/ writeAt(m, 1)
     \/ m.x.wr = {} /\ sendValue(m)

handleAtomicFetchSub(m) ==
  /\ Handles(m, "fetchSub")
  /\ \/ writeAt(m, 1)
     \/ m.x.wr = {} /\ sendValue(m)

-----------------------------------------------------------------------------
(***************************************************************************)
(* The handlers of the replies: the data is written before done is set.    *)
(***************************************************************************)
writeHandle(m) ==
  /\ handle[m.handle].data = <<>>
  /\ handle' = [handle EXCEPT ![m.handle].data = m.x.buf]
  /\ UNCHANGED <<mem, hart, net, ret, aborted>>

setReady(m) ==
  /\ handle' = [handle EXCEPT ![m.handle].done = TRUE]
  /\ Replace(m, {})
  /\ UNCHANGED <<mem, hart, ret, aborted>>

\* m_ptr is the caller's buffer, or memory of its node in bulkMemcpy.
handleLoadAck(m) ==
  /\ Handles(m, "LoadAck")
  /\ \/ \E i \in m.x.wr : writeAt(m, i)
     \/ m.x.wr = {} /\ writeHandle(m)
     \/ handle[m.handle].data # <<>> /\ setReady(m)

\* Mutant: the ack is dropped.
MutantDropAck(m) ==
  /\ Handles(m, "Ack")
  /\ Replace(m, {})
  /\ UNCHANGED <<mem, hart, handle, ret, aborted>>

handleAck(m) == Handles(m, "Ack") /\ setReady(m)

\* Mutant: done is set before the data is written.
MutantDoneFirst(m) ==
  /\ Handles(m, "ValueAck")
  /\ \/ writeHandle(m)
     \/ setReady(m)

handleValueAck(m) ==
  /\ Handles(m, "ValueAck")
  /\ \/ writeHandle(m)
     \/ handle[m.handle].data # <<>> /\ setReady(m)

Handler(m) ==
  \/ handleLoad(m)
  \/ handleStore(m)
  \/ handleAtomicLoad(m)
  \/ handleAtomicStore(m)
  \/ handleAtomicCompareExchange(m)
  \/ handleAtomicIncrement(m)
  \/ handleAtomicDecrement(m)
  \/ handleAtomicFetchAdd(m)
  \/ handleAtomicFetchSub(m)
  \/ handleLoadAck(m)
  \/ handleAck(m)
  \/ handleValueAck(m)

Caller(h) ==
  \/ \E b \in Object :
       \/ load(h, b)
       \/ \E v \in [1 .. Len(b) -> Operand] : store(h, b, v)
  \/ \E p \in Copies : bulkMemcpy(h, p[1], p[2])
  \/ \E w \in Word : atomicLoad(h, w)
  \/ \E w \in Word, v \in Operand :
       \/ atomicStore(h, w, v)
       \/ atomicIncrement(h, w, v)
       \/ atomicDecrement(h, w, v)
       \/ atomicFetchAdd(h, w, v)
       \/ atomicFetchSub(h, w, v)
       \/ \E e \in Operand \cup {0} : atomicCompareExchange(h, w, e, v)

HartStep(h) ==
  \/ \E i \in hart[h].x.rd : readHere(h, i)
  \/ \E i \in hart[h].x.wr : writeHere(h, i)
  \/ commitPacked(h)
  \/ returnLocal(h)
  \/ returnRemote(h)

Aborted == aborted /\ UNCHANGED vars

Next ==
  \/ \E h \in Hart : Caller(h) \/ HartStep(h)
  \/ \E m \in net : Handler(m)
  \/ Aborted

Spec == Init /\ [][Next]_vars

(***************************************************************************)
(* Every message is handled: the polling thread never stops polling before *)
(* finalize.  Every hart that is not waiting goes on.                      *)
(***************************************************************************)
HandlerFor(h) == \E m \in net : m.handle = h /\ Handler(m)

FairSpec ==
  Spec /\ \A h \in Hart : WF_vars(HartStep(h)) /\ WF_vars(HandlerFor(h))

-----------------------------------------------------------------------------
TransferOK(x) ==
  /\ x.rd \subseteq 1 .. Len(x.op.src)
  /\ x.wr \subseteq 1 .. Len(x.op.dst)
  /\ DOMAIN x.buf = ReadSet(x.op) \cup WriteSet(x.op)
  /\ \A i \in DOMAIN x.buf : x.buf[i] \in Val

\* Words, replies and buffers hold integers of the machine's width, and a
\* transfer never has more left to do than its operation asks for.
TypeOK ==
  /\ mem \in [Word -> Val]
  /\ \A h \in Hart :
       /\ hart[h].state \in {"user", "local", "pack", "wait"}
       /\ hart[h].state # "user" => TransferOK(hart[h].x)
       /\ handle[h].done \in BOOLEAN
  /\ \A m \in net : m.at \in Node /\ m.handle \in Hart /\ TransferOK(m.x)
  /\ aborted \in BOOLEAN

\* A message carries the address of a handle on a stack: while it is in
\* flight or being handled, the hart that owns the handle is still waiting,
\* the handle is not done, and no other message refers to it.
HandleLive ==
  \A m \in net :
    /\ hart[m.handle].state = "wait"
    /\ ~handle[m.handle].done
    /\ \A m1 \in net : m1.handle = m.handle => m1 = m

\* A native address is only dereferenced on the node that owns the word: by
\* a hart of that node or by the handler of a message sent to it.
OwnerAccess ==
  /\ \A h \in Hart :
       /\ hart[h].state \in {"local", "pack"} => Here(h, hart[h].x.op.src)
       /\ hart[h].state = "local" => Here(h, hart[h].x.op.dst)
  /\ \A m \in net :
       IF m.am = "load" THEN Owner(m.x.op.src) = m.at
       ELSE m.x.wr # {} => Owner(m.x.op.dst) = m.at

\* The transfer of a hart, wherever it is: with the hart, in a message, or
\* over, with its result in the handle.
Transfer(h) ==
  IF hart[h].state # "wait" THEN hart[h].x
  ELSE IF \E m \in net : m.handle = h THEN (CHOOSE m \in net : m.handle = h).x
  ELSE LET o == hart[h].x.op
       IN  [op |-> o, rd |-> {}, wr |-> {},
            buf |-> IF HasResult(o) THEN handle[h].data ELSE Begin(o).buf]

Abstract == INSTANCE AtomicMemory WITH xfer <- [h \in Hart |-> Transfer(h)]

\* Remote loads, stores and atomics, with their messages and handles, are
\* those of one memory: every word access happens once, between the call
\* and the return, and the call returns what that access found.
AtomicGlobalMemory == Abstract!Spec

\* Every call returns, unless the job is aborted.
CallsReturn ==
  \A h \in Hart : hart[h].state # "user" ~> hart[h].state = "user" \/ aborted
=============================================================================
