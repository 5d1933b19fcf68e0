----------------------------- MODULE DrHookHeap -----------------------------
(* The heap interposed by utilities/getcurheap.c in the builds with           *)
(* INTERCEPT_ALLOC (RS6K, NECSX) and what Dr.Hook charges to each routine     *)
(* (c_drhook_memcounter_ and memstat of support/drhook.c): every ALLOCATE is  *)
(* an EC_malloc that puts a header of three words before the block, every     *)
(* DEALLOCATE an EC_free that reads it back, on whatever thread.              *)
(*                                                                            *)
(* A word is WordLen bytes.  Of the data of a block only what the properties  *)
(* tell apart is kept: whether the program's bytes are there.                 *)
EXTENDS Integers, Sequences, FiniteSets, FiniteSetsExt, Functions

CONSTANTS Main,             \* the instrumented routine all threads are in
          Blocks,           \* names of the blocks alive at once
          WordLen,          \* WORDLEN
          Ranges,           \* NPROFILE
          Builds            \* how programs are built and started

VARIABLE build                      \* of this program:
HeapThreads == build.Threads        \* 1..get_max_threads(), at most NTHRDS
Routines    == build.Routines       \* the routines instrumented
Sizes       == build.Sizes          \* sizes asked for, in bytes
NecSx       == build.NecSx          \* compiled for the NEC SX (else for AIX)
NansFill    == build.NansFill       \* EC_FILL_NANS
MemTrace    == build.MemTrace       \* drhook_memtrace
MemProf     == build.MemProf        \* opt_memprof
Timeline    == build.Timeline       \* the calls are in the time line of the first thread
ProfileHeap == build.ProfileHeap    \* EC_PROFILE_HEAP
WillAbort   == build.WillAbort      \* EC_malloc_will_abort
MaxOps      == build.MaxOps         \* bound: operations of the program

ASSUME HeapAssumption ==
  /\ WordLen \in Nat \ {0} /\ Ranges \in Nat /\ IsFiniteSet(Blocks) /\ "none" \notin Blocks
  /\ \A b \in Builds :
       /\ IsFiniteSet(b.Threads) /\ 1 \in b.Threads /\ 0 \notin b.Threads
       /\ IsFiniteSet(b.Routines) /\ Main \in b.Routines
       /\ b.Sizes \subseteq Nat /\ b.MaxOps \in Nat
       /\ {b.NecSx, b.NansFill, b.MemTrace, b.MemProf, b.Timeline, b.ProfileHeap} \subseteq BOOLEAN
       /\ b.MemProf => b.MemTrace

VARIABLES block,     \* [Blocks -> what is at that address, or Nothing]
          curalloca, maxcurheapa,  \* clsz_opt[]: per thread
          lock,      \* owner of getcurheap_lock, or 0
          hits,      \* [malloc, free, amount -> [HeapThreads -> [range -> number]]]
          mem,       \* [HeapThreads -> [Routines -> what memprof keeps in the key]]
          stack,     \* [HeapThreads -> routines entered]
          job,       \* [HeapThreads -> call of the heap in progress]
          warned,    \* WARNING: NaNS at end of array overwritten
          ended,     \* the program was aborted
          overran,   \* history: the program has written past a block
          peak,      \* history: the largest amount ever allocated
          ops
heapVars == <<build, block, curalloca, maxcurheapa, lock, hits, mem, stack, job, warned, ended, overran, peak, ops>>

Nothing == [alive |-> FALSE]
NoJob == [at |-> "idle"]
RoundUp(i, n) == ((i + n - 1) \div n) * n
TrueBytes(size) == size + 4 * WordLen
Larger(a, b) == IF a > b THEN a ELSE b

Alive == {b \in Blocks : block[b].alive}
Outstanding == SumFunction([b \in Alive |-> block[b].bytes])
NoCall == \A t \in HeapThreads : job[t] = NoJob
Top(t) == stack[t][Len(stack[t])]

NoKey == [cur |-> 0, child |-> 0, maxself |-> 0, maxall |-> 0, allocs |-> 0, frees |-> 0, seen |-> 0]
HeapInit ==
  /\ build \in Builds
  /\ block = [b \in Blocks |-> Nothing] /\ lock = 0 /\ ended = FALSE /\ warned = FALSE /\ overran = FALSE
  /\ curalloca = [t \in HeapThreads |-> 0] /\ maxcurheapa = curalloca /\ peak = 0 /\ ops = 0
  /\ hits = [k \in {"malloc", "free", "amount"} |-> [t \in HeapThreads |-> [r \in 0..Ranges |-> 0]]]
  /\ mem = [t \in HeapThreads |-> [r \in Routines |-> NoKey]]
  /\ stack = [t \in HeapThreads |-> <<Main>>] /\ job = [t \in HeapThreads |-> NoJob]

(* --------------------------- c_drhook_memcounter_ ----------------------- *)
\* Bytes allocated are charged to the current routine, bytes freed to the
\* routine in the header of the block, if there is one.
ChargedTo(t, key) == IF key = 0 THEN <<t, Top(t)>> ELSE key

Charged(k, size) ==
  [k EXCEPT !.cur = @ + size,
            !.maxall = Larger(@, (IF size > 0 THEN k.cur + size ELSE k.cur) + k.child),
            !.maxself = IF size > 0 THEN Larger(@, k.cur + size) ELSE @,
            !.allocs = IF size > 0 THEN @ + 1 ELSE @, !.frees = IF size < 0 THEN @ + 1 ELSE @]

MemCounter(t, size, key) ==
  LET to == IF size > 0 THEN <<t, Top(t)>> ELSE ChargedTo(t, key) IN
  mem' = IF MemProf THEN [mem EXCEPT ![to[1]][to[2]] = Charged(@, size)] ELSE mem

\* The time line asks getcurheap() for the heap, which takes the lock.
InTimeline(t) == Timeline /\ MemTrace /\ t = 1

(* -------------------------- Profile_heap_put_thrd ------------------------ *)
RangeOf(size) == LET in == {j \in 0..Ranges - 1 : size < 10^(j + 1)} IN IF in = {} THEN Ranges ELSE Min(in)

HeapPut(t, size, kind) ==
  hits' = IF ~ProfileHeap THEN hits
          ELSE [hits EXCEPT ![kind][t][RangeOf(size)] = @ + 1,
                            !["amount"][t][RangeOf(size)] = @ + (IF kind = "malloc" THEN size ELSE -size)]

(* ------------------------------- EC_malloc ------------------------------- *)
Adjusted(size) == RoundUp(size, WordLen)
StoredSize(size) == IF NecSx THEN size ELSE Adjusted(size)

\* The block and its header; the key in the header is still 0 and stays so.
Header(size, by) == [alive |-> TRUE, size |-> size, stored |-> StoredSize(size), key |-> 0,
                     bytes |-> TrueBytes(Adjusted(size)), by |-> by, guard |-> NansFill,
                     data |-> "none", expected |-> "none"]
Begin(t, b, size, from) ==
  /\ ~block[b].alive
  /\ block' = [block EXCEPT ![b] = Header(size, <<t, Top(t)>>)]
  /\ job' = [job EXCEPT ![t] = [at |-> "malloc", b |-> b, from |-> from]]
  /\ UNCHANGED <<curalloca, maxcurheapa, lock, hits, mem, stack, warned, ended, overran, peak>>
Malloc(t, b, size) == Begin(t, b, size, "none")

LockForMalloc(t) ==
  /\ job[t].at = "malloc" /\ (MemTrace => lock = 0) /\ lock' = IF MemTrace THEN t ELSE lock
  /\ job' = [job EXCEPT ![t].at = "locked"]
  /\ UNCHANGED <<block, curalloca, maxcurheapa, hits, mem, stack, warned, ended, overran, peak, ops>>

CountedIn(t) ==
  LET bytes == block[job[t].b].bytes IN
  /\ job[t].at = "locked" /\ (InTimeline(t) => lock = 0)
  /\ curalloca' = [curalloca EXCEPT ![t] = @ + bytes]
  /\ maxcurheapa' = [maxcurheapa EXCEPT ![t] = Larger(@, curalloca[t] + bytes)]
  /\ peak' = Larger(peak, SumFunction(curalloca) + bytes)
  /\ IF MemTrace THEN MemCounter(t, bytes, 0) ELSE mem' = mem
  /\ job' = [job EXCEPT ![t].at = "counted"]
  /\ UNCHANGED <<block, lock, hits, stack, warned, ended, overran, ops>>

\* Unlock; the profile of the heap; the NaNs.  A reallocation then copies as
\* many bytes as the word before the old block says and frees that block.
OldSize(b) == 0              \* p[-1], the third word of the header
CopiedFrom(b) == IF OldSize(b) > 0 THEN block[b].data ELSE "none"

Allocated(t) ==
  LET from == job[t].from  b == job[t].b IN
  /\ job[t].at = "counted" /\ lock' = IF MemTrace THEN 0 ELSE lock
  /\ HeapPut(t, block[b].bytes, "malloc")
  /\ IF from = "none"
       THEN job' = [job EXCEPT ![t] = NoJob] /\ block' = block
       ELSE /\ block' = [block EXCEPT ![b].data = CopiedFrom(from), ![b].expected = block[from].expected]
            /\ job' = [job EXCEPT ![t] = [at |-> "free", b |-> from]]
  /\ UNCHANGED <<curalloca, maxcurheapa, mem, stack, warned, ended, overran, peak, ops>>

MallocFails(t) ==
  /\ lock = 0 /\ ended' = WillAbort
  /\ UNCHANGED <<block, curalloca, maxcurheapa, lock, hits, mem, stack, job, warned, overran, peak>>

\* A block that exists is enlarged by a new one.
Realloc(t, b, new, size) ==
  /\ block[b].alive
  /\ IF OldSize(b) < size THEN Begin(t, new, size, b)
     ELSE UNCHANGED <<block, curalloca, maxcurheapa, lock, hits, mem, stack, job, warned, ended, overran, peak>>

(* -------------------------------- EC_free -------------------------------- *)
\* Mutant: the word looked at is the last one of the data
GuardWordBefore(b) == block[b].stored \div WordLen - 1
\* The word after the data is looked at where the header says they end.
GuardWord(b) == block[b].stored \div WordLen
LastWord(b) == (block[b].size - 1) \div WordLen
GuardLost(b) ==
  NansFill /\ IF GuardWord(b) <= LastWord(b) THEN block[b].data = "written" ELSE ~block[b].guard
Free(t, b) ==
  /\ block[b].alive
  /\ job' = [job EXCEPT ![t] = [at |-> "free", b |-> b]]
  /\ UNCHANGED <<block, curalloca, maxcurheapa, lock, hits, mem, stack, warned, ended, overran, peak>>
\* Mutant: the header is not deducted
FreedPlain(t) ==
  LET b == job[t].b IN
  /\ job[t].at = "free" /\ block' = [block EXCEPT ![b] = Nothing]
  /\ warned' = (warned \/ GuardLost(b))
  /\ job' = [job EXCEPT ![t] = [at |-> "freed", key |-> block[b].key, bytes |-> -block[b].stored]]
  /\ UNCHANGED <<curalloca, maxcurheapa, lock, hits, mem, stack, ended, overran, peak, ops>>

Freed(t) ==
  LET b == job[t].b IN
  /\ job[t].at = "free" /\ block' = [block EXCEPT ![b] = Nothing]
  /\ warned' = (warned \/ GuardLost(b))
  /\ job' = [job EXCEPT ![t] = [at |-> "freed", key |-> block[b].key, bytes |-> -TrueBytes(block[b].stored)]]
  /\ UNCHANGED <<curalloca, maxcurheapa, lock, hits, mem, stack, ended, overran, peak, ops>>

\* The lock is taken for the counter alone, then Dr.Hook and the profile are told.
Deducted(t) ==
  /\ job[t].at = "freed" /\ (MemTrace => lock = 0)
  /\ curalloca' = [curalloca EXCEPT ![t] = @ + job[t].bytes]
  /\ IF MemTrace THEN MemCounter(t, job[t].bytes, job[t].key) ELSE mem' = mem
  /\ HeapPut(t, job[t].bytes, "free") /\ job' = [job EXCEPT ![t] = NoJob]
  /\ UNCHANGED <<block, maxcurheapa, lock, stack, warned, ended, overran, peak, ops>>

(* ------------------------------ the program ------------------------------ *)
InUse(b) == \E t \in HeapThreads : job[t] # NoJob /\ job[t].at # "freed" /\ (job[t].b = b \/ (job[t].at # "free" /\ job[t].from = b))
heap_and_jobs == <<curalloca, maxcurheapa, lock, hits, job, warned, ended, peak>>

Write(b) ==
  /\ block[b].alive /\ block[b].size > 0 /\ block[b].expected # "written"
  /\ block' = [block EXCEPT ![b].data = "written", ![b].expected = "written"]
  /\ UNCHANGED <<heap_and_jobs, overran, mem, stack>>
Overrun(b) ==
  /\ block[b].alive /\ block[b].guard /\ block' = [block EXCEPT ![b].guard = FALSE] /\ overran' = TRUE
  /\ UNCHANGED <<heap_and_jobs, mem, stack>>

\* memstat at the exit of a routine, and what remove_calltree leaves to its caller.
Enter(t, r) ==
  /\ Len(stack[t]) < 2 /\ r \notin Range(stack[t]) /\ stack' = [stack EXCEPT ![t] = Append(@, r)]
  /\ mem' = IF MemProf THEN [mem EXCEPT ![t][r].seen = maxcurheapa[t]] ELSE mem
  /\ UNCHANGED <<block, heap_and_jobs, overran>>

AtExit(k) == Larger(k.maxall, k.cur + k.child)
Leave(t) ==
  LET caller == stack[t][Len(stack[t]) - 1] IN
  /\ Len(stack[t]) > 1 /\ stack' = [stack EXCEPT ![t] = SubSeq(@, 1, Len(@) - 1)]
  /\ mem' = IF MemProf
            THEN [mem EXCEPT ![t][Top(t)].maxall = AtExit(mem[t][Top(t)]), ![t][Top(t)].seen = maxcurheapa[t],
                             ![t][caller].child = Larger(@, AtExit(mem[t][Top(t)]))]
            ELSE mem
  /\ UNCHANGED <<block, heap_and_jobs, overran>>

Program(t) ==
  /\ job[t] = NoJob /\ ops < MaxOps /\ ops' = ops + 1
  /\ \/ \E b \in Blocks, size \in Sizes : Malloc(t, b, size)
     \/ \E b, new \in Blocks, size \in Sizes : ~InUse(b) /\ Realloc(t, b, new, size)
     \/ \E b \in Blocks : ~InUse(b) /\ (Free(t, b) \/ Write(b) \/ Overrun(b))
     \/ \E r \in Routines : Enter(t, r)
     \/ Leave(t) \/ MallocFails(t)
Heap(t) == LockForMalloc(t) \/ CountedIn(t) \/ Allocated(t) \/ Freed(t) \/ Deducted(t)

HeapNext == ~ended /\ (\E t \in HeapThreads : Program(t) \/ Heap(t)) /\ UNCHANGED build
HeapSpec == HeapInit /\ [][HeapNext]_heapVars
-----------------------------------------------------------------------------
(* What the heap reports. *)
GetCurHeap(t) == IF t = 1 THEN SumFunction(curalloca) ELSE curalloca[t]
GetMaxCurHeap == SumFunction(maxcurheapa)
OutstandingHits(r) == SumFunction([t \in HeapThreads |-> hits["malloc"][t][r] - hits["free"][t][r]])
AmountLeft(r) == SumFunction([t \in HeapThreads |-> hits["amount"][t][r]])

HeapTypeOK ==
  /\ \A t \in HeapThreads : curalloca[t] \in Int /\ maxcurheapa[t] \in Nat
  /\ \A t \in HeapThreads : job[t].at \in {"idle", "malloc", "locked", "counted", "free", "freed"}
  /\ \A t \in HeapThreads : \A r \in Routines : mem[t][r].maxall \in Nat /\ mem[t][r].child \in Nat
  /\ lock \in HeapThreads \cup {0} /\ ops \in 0..MaxOps

\* The headers tell the sizes rounded to words; on the NEC SX they do so only
\* when the program asks for whole words (EC_free then finds the end of a block
\* and deducts what EC_malloc added).
HeadersTell == \A size \in Sizes : StoredSize(size) = Adjusted(size)

\* The heap reported is the sum of the blocks allocated, headers included,
\* also when a block is freed by another thread than the one that allocated it.
HeapIsOutstanding == HeadersTell /\ NoCall => GetCurHeap(1) = Outstanding

\* The maximum reported is never below what was really allocated at once.
PeakIsCovered == GetMaxCurHeap >= peak

\* What Dr.Hook charges to all routines of all threads together is what is
\* allocated, whichever routine and thread frees it.
LeaksAddUp ==
  HeadersTell /\ MemProf /\ NoCall =>
    Outstanding = SumFunction([t \in HeapThreads |-> SumFunction([r \in Routines |-> mem[t][r].cur])])

\* A routine never needs more for itself than with its callees.
SelfWithinAll == \A t \in HeapThreads : \A r \in Routines : mem[t][r].maxself <= mem[t][r].maxall

\* The hits of all ranges together balance with the blocks in use.
HitsBalance ==
  ProfileHeap /\ NoCall => SumFunction([r \in 0..Ranges |-> OutstandingHits(r)]) = Cardinality(Alive)

\* A program that stays within its blocks is never warned (and, after ten
\* warnings, aborted).
NoFalseWarning == HeadersTell /\ warned => overran

\* A block whose end was overwritten is found when it is freed.
OverrunReported ==
  \A b \in Blocks :
    HeadersTell /\ NansFill /\ block[b].alive /\ ~block[b].guard /\ ~block'[b].alive => warned'
OverrunFound == [][OverrunReported]_<<block, warned>>

\* What the heap and Dr.Hook keep of the memory is what is allocated (EC_malloc,
\* EC_free, c_drhook_memcounter_, memstat).
MemoryAccounts ==
  /\ HeapTypeOK /\ HeapIsOutstanding /\ PeakIsCovered /\ HitsBalance
  /\ LeaksAddUp /\ SelfWithinAll /\ NoFalseWarning

(* ----------------- what comments say and the code does not --------------- *)
\* "remember the previous value --> catches memory leaks": a routine is charged
\* with the blocks it allocated that are not freed.
RoutineLeak ==
  MemProf /\ NoCall =>
    \A t \in HeapThreads, r \in Routines :
      mem[t][r].cur = MapThenSumSet(LAMBDA b : block[b].bytes, {b \in Alive : block[b].by = <<t, r>>})

\* "timeline upon c_drhook_memcounter_ & (big) ALLOCATE": the ALLOCATE returns.
AllocateReturns == \A t \in HeapThreads : (job[t].at = "malloc") ~> (job[t].at # "malloc" /\ job[t].at # "locked")

\* "the old allocation size was already sufficient": a reallocation keeps the
\* data of the program.
ReallocKeeps == NoCall => \A b \in Alive : block[b].expected = "written" => block[b].data = "written"

\* "allocation amount left per range; in bytes".
AmountIsLeft ==
  ProfileHeap /\ NoCall => \A r \in 0..Ranges :
    AmountLeft(r) = MapThenSumSet(LAMBDA b : block[b].bytes, {b \in Alive : RangeOf(block[b].bytes) = r})

\* "Maximum (total) current (virtual mem) allocation encountered".
PeakIsExact == NoCall => GetMaxCurHeap = peak
=============================================================================
