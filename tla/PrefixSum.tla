----------------------------- MODULE PrefixSum -----------------------------
(***************************************************************************)
(* The parallel prefix sum of the Galois library and its WaterFallLock.    *)
(*                                                                         *)
(* nt workers cut the ns elements into nt + 1 chunks.  In phase 0 worker w *)
(* sums up chunk w for itself and leaves the total in paste[w].  In phase  *)
(* 1 worker 0 turns paste into prefix sums, each as soon as it can, while  *)
(* worker w > 0 waits for the sum of everything before its chunk.  In      *)
(* phase 2 it adds that to its chunk, and worker 0 sums up the last chunk. *)
(* The steps are ordered by the words of the lock only: 1 means that the   *)
(* total is in paste, 2 that it is a prefix sum.  The caller waits for all *)
(* workers (a blocking loop, module DoAll), resets the lock, and may call  *)
(* again.  The loop may create fewer workers than it should; the caller    *)
(* drops the status that says so.                                          *)
(*                                                                         *)
(* Elements are numbers, and the source elements are any numbers.          *)
(***************************************************************************)
EXTENDS Integers

CONSTANTS
  Instances,   \* pairs <<paste.size(), ns>>
  ThreadDims,  \* harts per core, getThreadDims().id
  Given(_),    \* the element at each position of the source
  Calls        \* number of calls of computePrefixSum on one object

\* What is in memory that nobody has written.
Junk == -1

\* computePrefixSum uses fewer workers when there is little work.
Workers(size, n) == IF n \div (size + 1) <= 10 THEN size \div ThreadDims ELSE size

AnyWorker == UNION {0 .. Workers(s[1], s[2]) - 1 : s \in Instances}

ASSUME InstanceAssumption ==
  /\ ThreadDims \in Nat \ {0} /\ Calls \in Nat
  /\ Instances \subseteq Nat \X Nat
ASSUME GivenAssumption ==
  \A s \in Instances : \A i \in 0 .. s[2] - 1 : Given(i) \in Int

VARIABLES
  size,     \* length of paste and lock
  ns,       \* number of elements
  inPlace,  \* src and dst are the same array
  src,      \* contents of the source, if it is another array
  dst,
  paste,
  lock,
  pc,       \* what each worker does
  pos,      \* position in the loop it is in
  val,      \* paste_val of each worker
  caller,   \* what the caller does
  calls,    \* calls made
  started,  \* workers the loop of the last call could create
  given,    \* history: the source when the call was made
  stray     \* history: positions outside of the arrays that were used

data == <<src, dst, paste, lock>>
vars == <<size, ns, inPlace, data, pc, pos, val, caller, calls, started, given, stray>>
\* What no worker changes.
params == <<size, ns, inPlace, started>>

nt == Workers(size, ns)
Elem == 0 .. ns - 1
Slot == 0 .. size - 1
Worker == 0 .. nt - 1
Started == 0 .. started - 1

(***************************************************************************)
(* The chunks.  The middle worker gets what is left over.                  *)
(***************************************************************************)
divSz == ns \div (nt + 1)
bigs == ns % (nt + 1)
mid == nt \div 2
Phase0Sz(w) == IF w = mid THEN divSz + bigs ELSE divSz
Phase0Ind(w) == IF w <= mid THEN divSz * w ELSE bigs + divSz * w
Phase2Sz(w) == Phase0Sz(w)
\* Mutant: the last chunk starts one element late.
MutantPhase2Ind(w) == IF w # 0 THEN Phase0Ind(w) ELSE ns - divSz + 1

Phase2Ind(w) == IF w # 0 THEN Phase0Ind(w) ELSE ns - divSz

\* No chunk is empty, and the last one, which is as long as that of worker 0, is
\* not the one that gets what is left over, as that of a single worker is.  The
\* code does not check this.
Divides == nt >= 1 /\ ns > nt /\ (nt = 1 => bigs = 0)

(***************************************************************************)
(* Element access.  A position outside of the array yields junk.           *)
(***************************************************************************)
Source == IF inPlace THEN dst ELSE src
Read(a, i) == IF i \in DOMAIN a THEN a[i] ELSE Junk
Write(a, i, v) == IF i \in DOMAIN a THEN [a EXCEPT ![i] = v] ELSE a
Uses(S) == stray' = stray \cup (S \ Elem)

transmute(x) == x
scanOp(x, y) == x + y
combiner(x, y) == x + y

Init ==
  \E s \in Instances :
    /\ size = s[1] /\ ns = s[2]
    /\ inPlace \in BOOLEAN
    /\ src = [i \in Elem |-> Given(i)]
    /\ dst = [i \in Elem |-> IF inPlace THEN Given(i) ELSE Junk]
    /\ paste = [i \in Slot |-> Junk]
    /\ lock = [i \in Slot |-> 0]
    /\ pc = [w \in Worker |-> "none"]
    /\ pos = [w \in Worker |-> 0]
    /\ val = [w \in Worker |-> Junk]
    /\ caller = "user" /\ calls = 0 /\ started = 0
    /\ given = src
    /\ stray = {}

(***************************************************************************)
(* The caller.                                                             *)
(***************************************************************************)
\* doAllEvenlyPartition creates the workers in order up to the first one that is
\* refused, or none if its wait group cannot be allocated.
computePrefixSum ==
  /\ caller = "user" /\ calls < Calls
  /\ started' \in 0 .. nt
  /\ pc' = [w \in Worker |-> "phase0"]
  /\ pos' = [w \in Worker |-> 0]
  /\ val' = [w \in Worker |-> Junk]
  /\ caller' = "wait"
  /\ calls' = calls + 1
  /\ given' = Source
  /\ UNCHANGED <<size, ns, inPlace, data, stray>>

\* Mutant: the lock is not reset.
MutantReset ==
  /\ caller = "wait"
  /\ \A w \in Started : pc[w] = "over"
  /\ caller' = "user"
  /\ UNCHANGED <<params, data, pc, pos, val, calls, given, stray>>

\* The loop over the workers is over: lock.reset(), and return.
reset ==
  /\ caller = "wait"
  /\ \A w \in Started : pc[w] = "over"
  /\ lock' = [i \in Slot |-> 0]
  /\ caller' = "user"
  /\ UNCHANGED <<params, src, dst, paste, pc, pos, val, calls, given, stray>>

\* The user has what it wants.
finished == caller = "user" /\ calls = Calls /\ UNCHANGED vars

\* Worker 0 and the caller wait for the workers that were refused.
hang == caller = "wait" /\ started \in 1 .. nt - 1 /\ UNCHANGED vars

(***************************************************************************)
(* Phase 0.  serial_pfxsum writes the first element even of an empty chunk.*)
(***************************************************************************)
Phase0Sum(w) ==
  LET i == Phase0Ind(w) + pos[w] IN
  /\ pc[w] = "phase0"
  /\ pos[w] = 0 \/ pos[w] < Phase0Sz(w)
  /\ dst' = Write(dst, i, IF pos[w] = 0 THEN transmute(Read(Source, i))
                                        ELSE scanOp(Read(Source, i), Read(dst, i - 1)))
  /\ Uses(IF pos[w] = 0 THEN {i} ELSE {i - 1, i})
  /\ pos' = [pos EXCEPT ![w] = @ + 1]
  /\ UNCHANGED <<params, src, paste, lock, pc, val, caller, calls, given>>

Phase0Paste(w) ==
  LET i == Phase0Ind(w) + Phase0Sz(w) - 1 IN
  /\ pc[w] = "phase0"
  /\ pos[w] > 0 /\ pos[w] >= Phase0Sz(w)
  /\ paste' = [paste EXCEPT ![w] = Read(dst, i)]
  /\ Uses({i})
  /\ pc' = [pc EXCEPT ![w] = "pasted"]
  /\ UNCHANGED <<params, src, dst, lock, pos, val, caller, calls, given>>

\* Mutant: done<3>.
MutantPhase0Done(w) ==
  /\ pc[w] = "pasted"
  /\ lock' = [lock EXCEPT ![w] = 3]
  /\ pc' = [pc EXCEPT ![w] = "phase1"]
  /\ pos' = [pos EXCEPT ![w] = 0]
  /\ UNCHANGED <<params, src, dst, paste, val, caller, calls, given, stray>>

\* lock.done<1>
Phase0Done(w) ==
  /\ pc[w] = "pasted"
  /\ lock' = [lock EXCEPT ![w] = 1]
  /\ pc' = [pc EXCEPT ![w] = "phase1"]
  /\ pos' = [pos EXCEPT ![w] = 0]
  /\ UNCHANGED <<params, src, dst, paste, val, caller, calls, given, stray>>

(***************************************************************************)
(* Phase 1.                                                                *)
(***************************************************************************)
\* Mutant: worker 0 forgets to release its own slot.
MutantPhase1First ==
  /\ pc[0] = "phase1" /\ pos[0] = 0
  /\ pos' = [pos EXCEPT ![0] = 1]
  /\ UNCHANGED <<params, src, dst, paste, lock, pc, val, caller, calls, given, stray>>

\* Worker 0 releases its own total, which is a prefix sum as it is.
Phase1First ==
  /\ pc[0] = "phase1" /\ pos[0] = 0
  /\ lock' = [lock EXCEPT ![0] = 2]
  /\ pos' = [pos EXCEPT ![0] = 1]
  /\ UNCHANGED <<params, src, dst, paste, pc, val, caller, calls, given, stray>>

\* before: wait<1>; the total of worker i becomes a prefix sum.
Phase1Scan ==
  LET i == pos[0] IN
  /\ pc[0] = "phase1"
  /\ i \in 1 .. nt - 1
  /\ lock[i] = 1
  /\ paste' = [paste EXCEPT ![i] = combiner(paste[i], paste[i - 1])]
  /\ pc' = [pc EXCEPT ![0] = "scanned"]
  /\ UNCHANGED <<params, src, dst, lock, pos, val, caller, calls, given, stray>>

\* after: done<2>.
Phase1Release ==
  /\ pc[0] = "scanned"
  /\ lock' = [lock EXCEPT ![pos[0]] = 2]
  /\ pos' = [pos EXCEPT ![0] = @ + 1]
  /\ pc' = [pc EXCEPT ![0] = "phase1"]
  /\ UNCHANGED <<params, src, dst, paste, val, caller, calls, given, stray>>

\* Worker 0 has scanned paste; the others wait<2> for the slot before theirs.
Phase1End(w) ==
  /\ pc[w] = "phase1"
  /\ IF w = 0 THEN pos[0] = nt ELSE lock[w - 1] = 2
  /\ val' = [val EXCEPT ![w] = paste[IF w # 0 THEN w - 1 ELSE nt - 1]]
  /\ pos' = [pos EXCEPT ![w] = 0]
  /\ pc' = [pc EXCEPT ![w] = "phase2"]
  /\ UNCHANGED <<params, data, caller, calls, given, stray>>

(***************************************************************************)
(* Phase 2.  Worker 0 sums up the last chunk from its source.              *)
(***************************************************************************)
Phase2Sum ==
  LET i == Phase2Ind(0) + pos[0] IN
  /\ pc[0] = "phase2"
  /\ pos[0] = 0 \/ pos[0] < Phase2Sz(0)
  /\ dst' = Write(dst, i, scanOp(Read(Source, i),
                                 IF pos[0] = 0 THEN val[0] ELSE Read(dst, i - 1)))
  /\ Uses(IF pos[0] = 0 THEN {i} ELSE {i - 1, i})
  /\ pos' = [pos EXCEPT ![0] = @ + 1]
  /\ UNCHANGED <<params, src, paste, lock, pc, val, caller, calls, given>>

Phase2Combine(w) ==
  LET i == Phase2Ind(w) + pos[w] IN
  /\ w # 0
  /\ pc[w] = "phase2"
  /\ pos[w] < Phase2Sz(w)
  /\ dst' = Write(dst, i, combiner(val[w], Read(dst, i)))
  /\ Uses({i})
  /\ pos' = [pos EXCEPT ![w] = @ + 1]
  /\ UNCHANGED <<params, src, paste, lock, pc, val, caller, calls, given>>

Phase2End(w) ==
  /\ pc[w] = "phase2"
  /\ pos[w] >= Phase2Sz(w) /\ (w = 0 => pos[w] > 0)
  /\ pc' = [pc EXCEPT ![w] = "over"]
  /\ UNCHANGED <<params, data, pos, val, caller, calls, given, stray>>

Work(w) ==
  \/ Phase0Sum(w) \/ Phase0Paste(w) \/ Phase0Done(w)
  \/ w = 0 /\ (Phase1First \/ Phase1Scan \/ Phase1Release \/ Phase2Sum)
  \/ Phase1End(w) \/ Phase2Combine(w) \/ Phase2End(w)

Next == computePrefixSum \/ reset \/ finished \/ hang \/ \E w \in Started : Work(w)

Spec == Init /\ [][Next]_vars

\* A worker that waits for the lock yields its core (atomicLoad), so all run.
FairSpec ==
  /\ Spec
  /\ WF_vars(reset)
  /\ \A w \in AnyWorker : WF_vars(w \in Started /\ Work(w))

(***************************************************************************)
(* Properties.                                                             *)
(***************************************************************************)
TypeOK ==
  /\ <<size, ns>> \in Instances /\ inPlace \in BOOLEAN
  /\ src \in [Elem -> Int] /\ dst \in [Elem -> Int] /\ given \in [Elem -> Int]
  /\ paste \in [Slot -> Int] /\ lock \in [Slot -> 0 .. 2]
  /\ pc \in [Worker -> {"none", "phase0", "pasted", "phase1", "scanned", "phase2", "over"}]
  /\ pos \in [Worker -> IF Divides THEN 0 .. ns ELSE Nat] /\ val \in [Worker -> Int]
  /\ caller \in {"user", "wait"} /\ calls \in 0 .. Calls /\ started \in 0 .. nt
  /\ stray \subseteq Int

\* The sum of the elements 0 .. i the caller gave, one after the other.
Reference[i \in Elem] == IF i = 0 THEN transmute(given[0])
                                  ELSE scanOp(given[i], Reference[i - 1])

\* When computePrefixSum returns (prefix_sum.hpp:245), on any call, every element
\* of dst is the sum of the elements up to it, provided that the elements can be
\* divided and any worker was created: the chunks cover the array once, no worker
\* took a total before it was a prefix sum, even though only the words of the
\* WaterFallLock, left over from the call before, order the workers, and a call
\* that lacks a worker never returns with a wrong result, although it drops the
\* status of its loop (prefix_sum.hpp:217).
PrefixSums == (caller = "user" /\ started > 0 /\ Divides) => \A i \in Elem : dst[i] = Reference[i]

\* If the elements can be divided, no worker uses an element outside of the ns the
\* caller named (prefix_sum.hpp:228 to 241), whichever workers were created: the
\* index arithmetic with the left-over elements in the middle chunk neither
\* underflows nor runs past the end.
InBounds == Divides => stray = {}

\* No worker uses an element outside of the ns the caller named, whatever the
\* number of workers and elements: the caller has to see to the length of the
\* arrays only (prefix_sum.hpp:209).
WithinLength == stray = {}

\* Every call returns (prefix_sum.hpp:211), unless a worker is refused after others
\* were created: no worker waits for ever for a word of the lock that is already
\* past the value it waits for (wait compares with equality) or that nobody will
\* set, also when the elements cannot be divided.
Returns == []<>(caller = "user" \/ started \in 1 .. nt - 1)

=============================================================================
