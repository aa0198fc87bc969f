----------------------------- MODULE AtomicMemory -----------------------------
(***************************************************************************)
(* The global memory a PANDO program is promised: one memory, on which     *)
(* every word access of an operation takes effect at one instant between   *)
(* the call and the return, whichever node the word lives on.  There are   *)
(* no nodes and no messages here.                                          *)
(***************************************************************************)
EXTENDS MemoryOps

CONSTANT Hart   \* the threads of the program

VARIABLES
  mem,    \* the contents of the words
  xfer,   \* the operation each hart has called, or Idle
  ret     \* what the operation it last called returned

vars == <<mem, xfer, ret>>

Init ==
  /\ mem = [w \in Word |-> 0]
  /\ xfer = [h \in Hart |-> Idle]
  /\ ret = [h \in Hart |-> <<>>]

Call(h, o) ==
  /\ xfer[h] = Idle
  /\ xfer' = [xfer EXCEPT ![h] = Begin(o)]
  /\ ret' = [ret EXCEPT ![h] = <<>>]
  /\ UNCHANGED mem

ReadWord(h, i) ==
  /\ i \in xfer[h].rd
  /\ xfer' = [xfer EXCEPT ![h] = Read(@, i, mem)]
  /\ UNCHANGED <<mem, ret>>

WriteWord(h, i) ==
  /\ i \in xfer[h].wr \ xfer[h].rd
  /\ xfer' = [xfer EXCEPT ![h] = Wrote(@, i, mem)]
  /\ mem' = Write(xfer[h], i, mem)
  /\ UNCHANGED ret

Return(h) ==
  /\ xfer[h] # Idle
  /\ Complete(xfer[h])
  /\ ret' = [ret EXCEPT ![h] = Result(xfer[h].op, xfer[h].buf)]
  /\ xfer' = [xfer EXCEPT ![h] = Idle]
  /\ UNCHANGED mem

Next ==
  \E h \in Hart :
    \/ \E o \in Op : Call(h, o)
    \/ \E i \in xfer[h].rd : ReadWord(h, i)
    \/ \E i \in xfer[h].wr : WriteWord(h, i)
    \/ Return(h)

Spec == Init /\ [][Next]_vars
=============================================================================
