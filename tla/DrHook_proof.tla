---------------------------- MODULE DrHook_proof ----------------------------
(***************************************************************************)
(* Theorems about Dr.Hook.  DrHookSignals: whatever signals arrive on       *)
(* whatever threads, one of them is the first, prints the tracebacks and    *)
(* gives the process its exit code, and until then the handlers are those   *)
(* the lists ask for.  DrHookHeap: whatever the threads allocate and free,  *)
(* in whatever order their steps interleave, the counters of the threads    *)
(* and of their routines add up to the blocks alive.  DrHookCalls: the      *)
(* tree, the stack of handles and the table of the routines follow the      *)
(* calls of DR_HOOK, a closing call that is accepted closes its own         *)
(* routine, and no correct program is aborted.                              *)
(***************************************************************************)
EXTENDS DrHookSignals, DrHookHeap, DrHookCalls, Sums_proof, SequenceTheorems

-----------------------------------------------------------------------------
(* ------------------------------- the signals ----------------------------- *)
(* The handlers while no signal was counted.                                  *)

Started == ~InitSignals => step \in {"timers", "done"}

\* What the lists read so far make of signal s.
Claim(s) ==
  IF step = "ignore" THEN 0
  ELSE IF s \in Asked(IgnoreList) THEN -1
  ELSE IF step = "restore" THEN 0
  ELSE IF s \in Asked(RestoreList) THEN -2
  ELSE IF step = "standard" THEN 0
  ELSE IF s \in Standard THEN 1
  ELSE IF step # "catch" /\ s \in Asked(CatchList) THEN 1
  ELSE 0

HandlerOf(s) ==
  IF step \in {"timers", "done"} /\ s = GenCore THEN "gencore"
  ELSE IF Claim(s) = 1 THEN "drhook"
  ELSE IF Claim(s) = -2 THEN "dfl"
  ELSE Before[s]

ListsRead ==
  InitSignals /\ called = 0 =>
    /\ \A s \in Signals : active[s] = Claim(s) /\ handler[s] = HandlerOf(s)
    /\ "FPE" \in Signals =>
         trap = IF Claim("FPE") \in {1, -2} THEN IF TrapFpe THEN "on" ELSE "off" ELSE "untouched"

-----------------------------------------------------------------------------
(* The handlers that run.                                                     *)

Counted1(f) == f.at # "read" /\ f.n = 1      \* taken for the first signal

\* A handler when n signals were counted, the first being sig, in a program
\* that is set up or not.
HeapFrameOK(f, openmp, set, n, sig) ==
  /\ f.at = "entered" => f.n = 0
  /\ f.at # "entered" => set
  /\ f.at = "read" => ~openmp /\ f.n >= 1
  /\ f.at \in {"first", "trace", "chain", "lib", "exit"} => f.n = 1
  /\ f.at \in {"later", "spins"} => f.n >= 2
  /\ Counted1(f) => n >= 1 /\ f.sig = sig

HeapFrames == [sig : Signals, at : Places, n : Nat]

HeapFramesOK ==
  \A t \in Threads :
    /\ frames[t] \in Seq(HeapFrames)
    /\ \A i \in 1 .. Len(frames[t]) : HeapFrameOK(frames[t][i], OpenMP, SignalsSet, called, first)

\* The thread whose handler has read the count without storing it is the only
\* one, and nothing was counted since.
ReadsAgree ==
  \A t \in Threads : frames[t] # <<>> /\ Last(frames[t]).at = "read" => Last(frames[t]).n = called + 1

OneFirst ==
  \A t, u \in Threads : \A i \in 1 .. Len(frames[t]), j \in 1 .. Len(frames[u]) :
    Counted1(frames[t][i]) /\ Counted1(frames[u][j]) => t = u /\ i = j

SignalsType ==
  /\ env \in Environments /\ called \in Nat
  /\ step \in {"ignore", "restore", "standard", "catch", "gencore", "timers", "done"}
  /\ DOMAIN active = Signals /\ DOMAIN handler = Signals
  /\ DOMAIN frames = Threads
  /\ first = "none" <=> called = 0
  /\ called > 0 => SignalsSet

Handlers == {"dfl", "ign", "lib", "drhook", "harakiri", "gencore"}

\* What signal_drhook_init and the Harakiri-alarm write.
TypeOfHandlers ==
  /\ active \in [Signals -> {0, 1, -1, -2}]
  /\ handler \in [Signals -> Handlers] /\ old \in [Signals -> Handlers]
  /\ quiet \subseteq Signals /\ trap \in {"untouched", "on", "off"}
TypeOfRest ==
  /\ timers \subseteq Threads \X Signals /\ ignore \in 0 .. called
  /\ alarm \in {"off", "armed", "due"} /\ owner \in Threads \cup {0}
TypeInv == TypeOfHandlers /\ TypeOfRest

SignalsInv ==
  /\ SignalsType /\ TypeInv /\ Started /\ ListsRead
  /\ HeapFramesOK /\ ReadsAgree /\ OneFirst
  /\ CodeOfTheFirst

-----------------------------------------------------------------------------
(* The options of the program never change.                                   *)

LEMMA Fixed ==
  ASSUME UNCHANGED env
  PROVE  /\ Threads' = Threads /\ Before' = Before /\ Signals' = Signals
         /\ InitSignals' = InitSignals /\ IgnoreList' = IgnoreList /\ RestoreList' = RestoreList
         /\ CatchList' = CatchList /\ GenCore' = GenCore /\ TrapFpe' = TrapFpe
         /\ OpenMP' = OpenMP /\ Standard' = Standard
         /\ \A list : (Asked(list))' = Asked(list)
<1>1. /\ Threads' = Threads /\ Before' = Before /\ Signals' = Signals
      /\ InitSignals' = InitSignals /\ IgnoreList' = IgnoreList /\ RestoreList' = RestoreList
      /\ CatchList' = CatchList /\ GenCore' = GenCore /\ TrapFpe' = TrapFpe
      /\ OpenMP' = OpenMP /\ Atp' = Atp /\ AtpIgnoresTerm' = AtpIgnoresTerm
  BY DEF Threads, Before, Signals, InitSignals, IgnoreList, RestoreList, CatchList, GenCore,
         TrapFpe, OpenMP, Atp, AtpIgnoresTerm
<1>2. Standard' = Standard
  BY <1>1 DEF Standard
<1>3. ASSUME NEW list PROVE (Asked(list))' = Asked(list)
  BY <1>1 DEF Asked
<1> QED
  BY <1>1, <1>2, <1>3

-----------------------------------------------------------------------------
(* The handlers that run: what a step may do to them.                         *)

FramesInv == HeapFramesOK /\ ReadsAgree /\ OneFirst

\* The counters and the flag of the set up do not change for the frames.
NoSignalCounted == called' = called /\ first' = first /\ (SignalsSet => SignalsSet')

LEMMA FrameKept ==
  ASSUME UNCHANGED env, NoSignalCounted, NEW f, HeapFrameOK(f, OpenMP, SignalsSet, called, first)
  PROVE  HeapFrameOK(f, OpenMP', SignalsSet', called', first')
<1>1. OpenMP' = OpenMP
  BY Fixed
<1> QED
  BY <1>1 DEF HeapFrameOK, NoSignalCounted

LEMMA FixedTypes ==
  ASSUME UNCHANGED env
  PROVE  HeapFrames' = HeapFrames /\ Threads' = Threads /\ OpenMP' = OpenMP
BY Fixed DEF HeapFrames, Places

LEMMA FramesKept ==
  ASSUME UNCHANGED env, NoSignalCounted, FramesInv, frames' = frames
  PROVE  FramesInv'
<1>1. HeapFramesOK'
  <2>1. ASSUME NEW t \in Threads
        PROVE  /\ frames[t] \in Seq(HeapFrames)
               /\ \A i \in 1 .. Len(frames[t]) : HeapFrameOK(frames[t][i], OpenMP', SignalsSet', called', first')
    BY <2>1, FrameKept DEF FramesInv, HeapFramesOK
  <2> QED
    BY <2>1, FixedTypes DEF HeapFramesOK
<1>2. ReadsAgree' /\ OneFirst'
  BY FixedTypes DEF FramesInv, ReadsAgree, OneFirst, NoSignalCounted
<1> QED
  BY <1>1, <1>2 DEF FramesInv

\* A handler is entered.
LEMMA FramesEntered ==
  ASSUME UNCHANGED env, NoSignalCounted, FramesInv, DOMAIN frames = Threads,
         NEW t \in Threads, NEW s \in Signals,
         frames' = [frames EXCEPT ![t] = Append(@, [sig |-> s, at |-> "entered", n |-> 0])]
  PROVE  FramesInv'
<1> DEFINE e == [sig |-> s, at |-> "entered", n |-> 0]
           n == Len(frames[t])
<1>1. frames[t] \in Seq(HeapFrames) /\ n \in Nat
  BY DEF FramesInv, HeapFramesOK
<1>2. e \in HeapFrames
  BY DEF HeapFrames, Places
<1>3. /\ frames'[t] \in Seq(HeapFrames) /\ Len(frames'[t]) = n + 1
      /\ frames'[t][n + 1] = e
      /\ \A i \in 1 .. n : frames'[t][i] = frames[t][i]
  <2>1. frames'[t] = Append(frames[t], e)
    OBVIOUS
  <2> HIDE DEF e
  <2> QED
    BY <1>1, <1>2, <2>1
<1>4. \A u \in Threads : u # t => frames'[u] = frames[u]
  OBVIOUS
<1>5. HeapFrameOK(e, OpenMP', SignalsSet', called', first')
  BY DEF HeapFrameOK, Counted1
<1>6. ~Counted1(e) /\ e.at # "read"
  BY DEF Counted1
<1>7. \A i \in 1 .. n + 1 : i \in 1 .. n \/ i = n + 1
  BY <1>1
<1> HIDE DEF e, n
<1>8. HeapFramesOK'
  <2>1. ASSUME NEW u \in Threads
        PROVE  /\ frames'[u] \in Seq(HeapFrames)
               /\ \A i \in 1 .. Len(frames'[u]) : HeapFrameOK(frames'[u][i], OpenMP', SignalsSet', called', first')
    <3>1. CASE u # t
      BY <3>1, <1>4, FrameKept DEF FramesInv, HeapFramesOK
    <3>2. CASE u = t
      <4>1. ASSUME NEW i \in 1 .. n PROVE HeapFrameOK(frames'[t][i], OpenMP', SignalsSet', called', first')
        BY <1>3, FrameKept DEF FramesInv, HeapFramesOK, n
      <4> QED
        BY <1>3, <1>5, <1>7, <3>2, <4>1
    <3> QED
      BY <3>1, <3>2
  <2> QED
    BY <2>1, FixedTypes DEF HeapFramesOK
<1>9. ReadsAgree'
  <2>1. ASSUME NEW u \in Threads, frames'[u] # <<>>, Last(frames'[u]).at = "read"
        PROVE  Last(frames'[u]).n = called + 1
    <3>1. u # t
      BY <1>3, <1>6, <2>1 DEF Last
    <3> QED
      BY <1>4, <2>1, <3>1 DEF FramesInv, ReadsAgree
  <2> QED
    BY <2>1, FixedTypes DEF ReadsAgree, NoSignalCounted, Last
<1>10. OneFirst'
  <2>1. ASSUME NEW u \in Threads, NEW i \in 1 .. Len(frames'[u]), Counted1(frames'[u][i])
        PROVE  i \in 1 .. Len(frames[u]) /\ Counted1(frames[u][i])
    BY <1>3, <1>4, <1>6, <1>7, <2>1 DEF n
  <2>2. ASSUME NEW u \in Threads, NEW w \in Threads,
               NEW i \in 1 .. Len(frames'[u]), NEW j \in 1 .. Len(frames'[w]),
               Counted1(frames'[u][i]), Counted1(frames'[w][j])
        PROVE  u = w /\ i = j
    <3>1. i \in 1 .. Len(frames[u]) /\ Counted1(frames[u][i])
      BY <2>1, <2>2
    <3>2. j \in 1 .. Len(frames[w]) /\ Counted1(frames[w][j])
      BY <2>1, <2>2
    <3> QED
      BY <3>1, <3>2 DEF FramesInv, OneFirst
  <2>3. Threads' = Threads
    BY FixedTypes
  <2> QED
    BY ONLY <2>2, <2>3 DEF OneFirst, Counted1
<1> QED
  BY <1>8, <1>9, <1>10 DEF FramesInv

\* The handler on top of a thread goes on: it becomes g.
LEMMA FramesMoved ==
  ASSUME UNCHANGED env, FramesInv, DOMAIN frames = Threads, ThreadsAssumption, env \in Environments,
         NEW t \in Threads, frames[t] # <<>>,
         NEW g \in HeapFrames, HeapFrameOK(g, OpenMP', SignalsSet', called', first'),
         frames' = [frames EXCEPT ![t] = [@ EXCEPT ![Len(frames[t])] = g]],
         \* nothing is counted under another handler, and g is the first only if
         \* no other is
         \A u \in Threads : \A i \in 1 .. Len(frames[u]) :
           u # t \/ i # Len(frames[t]) => HeapFrameOK(frames[u][i], OpenMP', SignalsSet', called', first'),
         \A u \in Threads : \A i \in 1 .. Len(frames[u]) :
           Counted1(g) /\ Counted1(frames[u][i]) => u = t /\ i = Len(frames[t]),
         g.at = "read" => g.n = called' + 1
  PROVE  FramesInv'
<1> DEFINE n == Len(frames[t])
<1>1. frames[t] \in Seq(HeapFrames) /\ n \in Nat /\ n >= 1
  <2>1. frames[t] \in Seq(HeapFrames)
    BY DEF FramesInv, HeapFramesOK
  <2> QED
    BY <2>1
<1>2. /\ frames'[t] \in Seq(HeapFrames) /\ Len(frames'[t]) = n
      /\ frames'[t][n] = g
      /\ \A i \in 1 .. n : i # n => frames'[t][i] = frames[t][i]
  <2>1. frames'[t] = [frames[t] EXCEPT ![n] = g]
    OBVIOUS
  <2>2. n \in 1 .. Len(frames[t])
    BY <1>1
  <2> HIDE DEF n
  <2> QED
    BY <1>1, <2>1, <2>2, ExceptSeq DEF n
<1>3. \A u \in Threads : u # t => frames'[u] = frames[u]
  OBVIOUS
<1> HIDE DEF n
<1>4. HeapFramesOK'
  <2>1. ASSUME NEW u \in Threads
        PROVE  /\ frames'[u] \in Seq(HeapFrames)
               /\ \A i \in 1 .. Len(frames'[u]) : HeapFrameOK(frames'[u][i], OpenMP', SignalsSet', called', first')
    <3>1. CASE u # t
      BY <3>1, <1>3 DEF FramesInv, HeapFramesOK
    <3>2. CASE u = t
      BY <1>2, <3>2 DEF n
    <3> QED
      BY <3>1, <3>2
  <2> QED
    BY <2>1, FixedTypes DEF HeapFramesOK
<1>5. ReadsAgree'
  <2>1. ASSUME NEW u \in Threads, frames'[u] # <<>>, Last(frames'[u]).at = "read"
        PROVE  Last(frames'[u]).n = called' + 1
    <3>1. CASE u = t
      BY <1>2, <2>1, <3>1 DEF Last
    <3>2. CASE u # t
      <4>1. frames[u] \in Seq(HeapFrames) /\ Last(frames[u]).at = "read" /\ frames[u] # <<>>
        BY <1>3, <2>1, <3>2 DEF FramesInv, HeapFramesOK
      <4>2. Len(frames[u]) \in 1 .. Len(frames[u])
        BY <4>1
      <4>3. ~OpenMP
        BY <4>1, <4>2 DEF FramesInv, HeapFramesOK, HeapFrameOK, Last
      <4>4. Threads = {1}
        BY <4>3 DEF ThreadsAssumption, Threads, OpenMP
      <4> QED
        BY <3>2, <4>4
    <3> QED
      BY <3>1, <3>2
  <2> QED
    BY <2>1, FixedTypes DEF ReadsAgree, Last
<1>6. OneFirst'
  <2>1. ASSUME NEW u \in Threads, NEW i \in 1 .. Len(frames'[u]), Counted1(frames'[u][i])
        PROVE  /\ i \in 1 .. Len(frames[u])
               /\ u = t /\ i = n => Counted1(g)
               /\ u # t \/ i # n => Counted1(frames[u][i])
    BY <1>2, <1>3, <2>1 DEF n
  <2>2. ASSUME NEW u \in Threads, NEW w \in Threads,
               NEW i \in 1 .. Len(frames'[u]), NEW j \in 1 .. Len(frames'[w]),
               Counted1(frames'[u][i]), Counted1(frames'[w][j])
        PROVE  u = w /\ i = j
    <3>1. /\ i \in 1 .. Len(frames[u])
          /\ u = t /\ i = n => Counted1(g)
          /\ u # t \/ i # n => Counted1(frames[u][i])
      BY <2>1, <2>2
    <3>2. /\ j \in 1 .. Len(frames[w])
          /\ w = t /\ j = n => Counted1(g)
          /\ w # t \/ j # n => Counted1(frames[w][j])
      BY <2>1, <2>2
    <3>3. CASE u = t /\ i = n
      BY <3>1, <3>2, <3>3 DEF n
    <3>4. CASE w = t /\ j = n
      BY <3>1, <3>2, <3>4 DEF n
    <3>5. CASE ~(u = t /\ i = n) /\ ~(w = t /\ j = n)
      BY <3>1, <3>2, <3>5 DEF FramesInv, OneFirst
    <3> QED
      BY <3>3, <3>4, <3>5
  <2>3. Threads' = Threads
    BY FixedTypes
  <2> QED
    BY ONLY <2>2, <2>3 DEF OneFirst, Counted1
<1> QED
  BY <1>4, <1>5, <1>6 DEF FramesInv

LEMMA TopOK ==
  ASSUME FramesInv, NEW t \in Threads, frames[t] # <<>>
  PROVE  /\ Len(frames[t]) \in 1 .. Len(frames[t])
         /\ Last(frames[t]) = frames[t][Len(frames[t])]
         /\ Last(frames[t]) \in HeapFrames
         /\ HeapFrameOK(Last(frames[t]), OpenMP, SignalsSet, called, first)
<1>1. frames[t] \in Seq(HeapFrames)
  BY DEF FramesInv, HeapFramesOK
<1>2. Len(frames[t]) \in 1 .. Len(frames[t])
  BY <1>1
<1>3. Last(frames[t]) = frames[t][Len(frames[t])]
  BY DEF Last
<1> QED
  BY <1>1, <1>2, <1>3 DEF FramesInv, HeapFramesOK

\* The places a handler goes through after it was counted.
Follows(a, b) ==
  \/ a = "first" /\ b = "trace"
  \/ a = "trace" /\ b = "chain"
  \/ a = "chain" /\ b \in {"lib", "exit"}
  \/ a = "lib" /\ b = "exit"
  \/ a = "later" /\ b = "spins"

LEMMA FramesGo ==
  ASSUME UNCHANGED env, NoSignalCounted, FramesInv, DOMAIN frames = Threads,
         ThreadsAssumption, env \in Environments,
         NEW t \in Threads, NEW a, NEW b, Follows(a, b), At(t, a), Goes(t, b)
  PROVE  FramesInv'
<1> DEFINE n == Len(frames[t])
           f == Last(frames[t])
           g == [f EXCEPT !.at = b]
<1>1. frames[t] # <<>> /\ f.at = a
  BY DEF At
<1>2. /\ n \in 1 .. n /\ f = frames[t][n] /\ f \in HeapFrames
      /\ HeapFrameOK(f, OpenMP, SignalsSet, called, first)
  BY <1>1, TopOK
<1>3. frames' = [frames EXCEPT ![t] = [@ EXCEPT ![n] = g]]
  BY <1>2 DEF Goes
<1>4. g \in HeapFrames /\ g.at = b /\ g.n = f.n /\ g.sig = f.sig
  BY <1>2 DEF HeapFrames, Follows, Places
<1> HIDE DEF f, g
<1>5. Counted1(g) <=> Counted1(f)
  BY <1>1, <1>4 DEF Counted1, Follows
<1>6. HeapFrameOK(g, OpenMP, SignalsSet, called, first)
  BY <1>1, <1>2, <1>4, <1>5 DEF HeapFrameOK, Follows, Counted1
<1>7. HeapFrameOK(g, OpenMP', SignalsSet', called', first')
  BY <1>6, FrameKept
<1>8. \A u \in Threads : \A i \in 1 .. Len(frames[u]) :
        HeapFrameOK(frames[u][i], OpenMP', SignalsSet', called', first')
  BY FrameKept DEF FramesInv, HeapFramesOK
<1>9. \A u \in Threads : \A i \in 1 .. Len(frames[u]) :
        Counted1(g) /\ Counted1(frames[u][i]) => u = t /\ i = n
  BY <1>2, <1>5 DEF FramesInv, OneFirst
<1>10. g.at # "read"
  BY <1>4 DEF Follows
<1> QED
  BY <1>1, <1>3, <1>4, <1>7, <1>8, <1>9, <1>10, FramesMoved

LEMMA FramesRead ==
  ASSUME UNCHANGED env, FramesInv, DOMAIN frames = Threads, called \in Nat,
         ThreadsAssumption, env \in Environments,
         NEW t \in Threads, ReadCount(t)
  PROVE  FramesInv' /\ NoSignalCounted
<1> DEFINE n == Len(frames[t])
           g == [sig |-> Sig(t), at |-> "read", n |-> called + 1]
<1>1. frames[t] # <<>> /\ SignalsSet /\ ~OpenMP /\ NoSignalCounted
  BY DEF ReadCount, At, NoSignalCounted, init_vars, SignalsSet
<1>2. frames' = [frames EXCEPT ![t] = [@ EXCEPT ![n] = g]]
  BY DEF ReadCount
<1>3. g \in HeapFrames
  <2>1. Sig(t) \in Signals
    BY <1>1, TopOK DEF HeapFrames, Sig
  <2> QED
    BY <2>1 DEF HeapFrames, Places
<1>4. HeapFrameOK(g, OpenMP, SignalsSet, called, first)
  BY <1>1 DEF HeapFrameOK, Counted1
<1>5. HeapFrameOK(g, OpenMP', SignalsSet', called', first')
  BY <1>1, <1>4, FrameKept
<1>6. \A u \in Threads : \A i \in 1 .. Len(frames[u]) :
        HeapFrameOK(frames[u][i], OpenMP', SignalsSet', called', first')
  BY <1>1, FrameKept DEF FramesInv, HeapFramesOK
<1>7. ~Counted1(g) /\ g.n = called' + 1
  BY <1>1 DEF Counted1, NoSignalCounted
<1> HIDE DEF g
<1> QED
  BY <1>1, <1>2, <1>3, <1>5, <1>6, <1>7, FramesMoved

LEMMA FramesCounted ==
  ASSUME UNCHANGED env, FramesInv, SignalsType,
         ThreadsAssumption, SignalsAssumption, env \in Environments,
         NEW t \in Threads, frames[t] # <<>>, SignalsSet, Counted(t, called + 1)
  PROVE  FramesInv' /\ SignalsType'
<1> DEFINE n == Len(frames[t])
           place == IF called + 1 = 1 THEN "first" ELSE "later"
           g == [sig |-> Sig(t), at |-> place, n |-> called + 1]
<1>1. called \in Nat /\ DOMAIN frames = Threads /\ (first = "none" <=> called = 0)
  BY DEF SignalsType
<1>2. /\ called' = called + 1 /\ first' = (IF first = "none" THEN Sig(t) ELSE first)
      /\ SignalsSet' = SignalsSet /\ init_vars' = init_vars
      /\ frames' = [frames EXCEPT ![t] = [@ EXCEPT ![n] = g]]
  BY DEF Counted, init_vars, SignalsSet
<1>3. Sig(t) \in Signals
  BY TopOK DEF HeapFrames, Sig
<1>4. "none" \notin Signals
  BY DEF SignalsAssumption, Signals, Before
<1>5. g \in HeapFrames
  BY <1>1, <1>3 DEF HeapFrames, Places
<1>6. Counted1(g) <=> called = 0
  BY <1>1 DEF Counted1
<1>7. HeapFrameOK(g, OpenMP', SignalsSet', called', first')
  BY <1>1, <1>2, <1>6 DEF HeapFrameOK
<1>8. ASSUME NEW u \in Threads, NEW i \in 1 .. Len(frames[u])
      PROVE  /\ HeapFrameOK(frames[u][i], OpenMP', SignalsSet', called', first')
             /\ Counted1(g) => ~Counted1(frames[u][i])
  <2>1. HeapFrameOK(frames[u][i], OpenMP, SignalsSet, called, first)
    BY DEF FramesInv, HeapFramesOK
  <2> QED
    BY <1>1, <1>2, <1>6, <2>1, FixedTypes DEF HeapFrameOK
<1>9. g.at # "read"
  OBVIOUS
<1> HIDE DEF g
<1>10. FramesInv'
  BY <1>1, <1>2, <1>5, <1>7, <1>8, <1>9, FramesMoved
<1>11. SignalsType'
  <2>1. called' \in Nat /\ (first' = "none" <=> called' = 0) /\ SignalsSet'
    BY <1>1, <1>2, <1>3, <1>4
  <2>2. DOMAIN frames' = Threads'
    BY <1>1, <1>2, Fixed
  <2>3. step' = step /\ active' = active /\ handler' = handler
    BY <1>2 DEF init_vars
  <2>4. DOMAIN active' = Signals' /\ DOMAIN handler' = Signals'
    BY <2>3, Fixed DEF SignalsType
  <2>5. /\ env' \in Environments
        /\ step' \in {"ignore", "restore", "standard", "catch", "gencore", "timers", "done"}
    BY <2>3 DEF SignalsType
  <2> QED
    BY <2>1, <2>2, <2>4, <2>5 DEF SignalsType
<1> QED
  BY <1>10, <1>11

-----------------------------------------------------------------------------
(* The steps.                                                                 *)

LEMMA TypesKept ==
  ASSUME SignalsType, UNCHANGED <<env, called, first, step>>,
         DOMAIN active' = Signals, DOMAIN handler' = Signals, DOMAIN frames' = Threads
  PROVE  SignalsType' /\ NoSignalCounted
<1>1. Signals' = Signals /\ Threads' = Threads
  BY Fixed
<1>2. SignalsSet' = SignalsSet
  BY DEF SignalsSet
<1> QED
  BY <1>1, <1>2 DEF SignalsType, NoSignalCounted

LEMMA Quiescent ==
  ASSUME SignalsType, FramesInv, UNCHANGED <<env, init_vars, called, first, frames>>
  PROVE  SignalsType' /\ FramesInv'
<1>1. SignalsType' /\ NoSignalCounted
  BY TypesKept DEF SignalsType, init_vars
<1> QED
  BY <1>1, FramesKept

LEMMA SetUpStep ==
  ASSUME SignalsType, FramesInv, UNCHANGED env, SetUp
  PROVE  SignalsType' /\ FramesInv'
<1>1. frames' = frames /\ called' = called /\ first' = first
  BY DEF SetUp, IgnoreSignals, RestoreDefaultSignals, SetSignals, CatchSignals, GenCoreAndFlag,
         SetTimedKill, after_init
<1>2. /\ step' \in {"ignore", "restore", "standard", "catch", "gencore", "timers", "done"}
      /\ SignalsSet => SignalsSet'
  BY DEF SetUp, IgnoreSignals, RestoreDefaultSignals, SetSignals, CatchSignals, GenCoreAndFlag,
         SetTimedKill, SignalsSet
<1>3. DOMAIN active' = Signals /\ DOMAIN handler' = Signals
  BY DEF SetUp, IgnoreSignals, RestoreDefaultSignals, SetSignals, CatchSignals, GenCoreAndFlag,
         SetTimedKill, Install, SignalsType
<1>4. FramesInv'
  BY <1>1, <1>2, FramesKept DEF NoSignalCounted
<1>5. Signals' = Signals /\ Threads' = Threads
  BY Fixed
<1> QED
  BY <1>1, <1>2, <1>3, <1>4, <1>5 DEF SignalsType

LEMMA DeliverStep ==
  ASSUME SignalsType, FramesInv, UNCHANGED env, NEW t \in Threads, NEW s \in Signals, Deliver(s, t)
  PROVE  /\ SignalsType' /\ FramesInv' /\ UNCHANGED <<init_vars, called, first>>
         /\ \/ status' = status
            \/ status'[1] \in {"killed", "core"}
            \/ status'[1] = "exit" /\ handler[status'[2]] = "gencore"
<1> DEFINE entered == [frames EXCEPT ![t] = Append(@, [sig |-> s, at |-> "entered", n |-> 0])]
<1>1. UNCHANGED <<init_vars, called, first>>
  BY DEF Deliver, Ends
<1>2. frames' = frames \/ frames' = entered
  BY DEF Deliver, Ends
<1>3. SignalsType' /\ NoSignalCounted
  <2>1. DOMAIN frames' = Threads
    BY <1>2 DEF SignalsType
  <2> QED
    BY <1>1, <2>1, TypesKept DEF SignalsType, init_vars
<1>4. FramesInv'
  BY <1>2, <1>3, FramesKept, FramesEntered DEF SignalsType
<1>5. \/ status' = status
      \/ status'[1] \in {"killed", "core"}
      \/ status'[1] = "exit" /\ handler[status'[2]] = "gencore"
  BY DEF Deliver, Ends
<1> QED
  BY <1>1, <1>3, <1>4, <1>5

\* A handler that was counted goes on, or ends the process.
LEMMA GoStep ==
  ASSUME SignalsType, FramesInv, ThreadsAssumption, UNCHANGED <<env, called, first, step>>,
         DOMAIN active' = Signals, DOMAIN handler' = Signals,
         NEW t \in Threads, NEW a, NEW b, Follows(a, b), At(t, a), Goes(t, b)
  PROVE  SignalsType' /\ FramesInv'
<1>1. DOMAIN frames = Threads /\ env \in Environments
  BY DEF SignalsType
<1>2. DOMAIN frames' = Threads
  BY <1>1 DEF Goes
<1>3. SignalsType' /\ NoSignalCounted
  BY <1>2, TypesKept
<1> QED
  BY <1>1, <1>3, FramesGo

LEMMA HandlerStep ==
  ASSUME SignalsType, FramesInv, ThreadsAssumption, SignalsAssumption, UNCHANGED env,
         NEW t \in Threads,
         SignalDrhook(t) \/ Traceback(t) \/ PreviousEnds(t) \/ PreviousReturns(t)
  PROVE  SignalsType' /\ FramesInv'
<1>1. /\ DOMAIN frames = Threads /\ env \in Environments /\ called \in Nat
      /\ DOMAIN active = Signals /\ DOMAIN handler = Signals
  BY DEF SignalsType
<1>2. CASE TooEarly(t) \/ Exit(t) \/ SpinEnds(t) \/ PreviousEnds(t)
  BY <1>2, Quiescent DEF TooEarly, Exit, SpinEnds, PreviousEnds, Ends
<1>3. CASE Count(t)
  <2>1. frames[t] # <<>> /\ SignalsSet /\ Counted(t, called + 1)
    BY <1>3 DEF Count, At
  <2> QED
    BY <1>1, <2>1, FramesCounted
<1>4. CASE StoreCount(t)
  <2>1. frames[t] # <<>> /\ Last(frames[t]).at = "read" /\ Counted(t, Last(frames[t]).n)
    BY <1>4 DEF StoreCount, At
  <2>2. Last(frames[t]).n = called + 1
    BY <2>1 DEF FramesInv, ReadsAgree
  <2>3. SignalsSet
    BY <2>1, TopOK DEF HeapFrameOK
  <2> QED
    BY <1>1, <2>1, <2>2, <2>3, FramesCounted
<1>5. CASE ReadCount(t)
  <2>1. FramesInv' /\ NoSignalCounted
    BY <1>1, <1>5, FramesRead
  <2>2. init_vars' = init_vars /\ DOMAIN frames' = Threads
    BY <1>1, <1>5 DEF ReadCount
  <2> QED
    BY <1>1, <2>1, <2>2, TypesKept DEF NoSignalCounted, init_vars
<1>6. CASE Harakiri(t)
  <2>1. At(t, "first") /\ Goes(t, "trace") /\ Follows("first", "trace")
    BY <1>6 DEF Harakiri, Follows
  <2>2. UNCHANGED <<called, first, step>> /\ DOMAIN active' = Signals /\ DOMAIN handler' = Signals
    BY <1>1, <1>6 DEF Harakiri
  <2> QED
    BY <2>1, <2>2, GoStep
<1>7. CASE Traceback(t)
  <2>1. At(t, "trace") /\ Goes(t, "chain") /\ Follows("trace", "chain")
    BY <1>7 DEF Traceback, Follows
  <2>2. UNCHANGED <<called, first, step>> /\ DOMAIN active' = Signals /\ DOMAIN handler' = Signals
    BY <1>1, <1>7 DEF Traceback, init_vars
  <2> QED
    BY <2>1, <2>2, GoStep
<1>8. CASE CallPrevious(t)
  <2>1. At(t, "chain") /\ Goes(t, "lib") /\ Follows("chain", "lib")
    BY <1>8 DEF CallPrevious, Follows
  <2>2. UNCHANGED <<called, first, step>> /\ DOMAIN active' = Signals /\ DOMAIN handler' = Signals
    BY <1>1, <1>8 DEF CallPrevious
  <2> QED
    BY <2>1, <2>2, GoStep
<1>9. CASE CannotChain(t)
  <2>1. At(t, "chain") /\ Goes(t, "exit") /\ Follows("chain", "exit")
    BY <1>9 DEF CannotChain, Follows
  <2>2. UNCHANGED <<called, first, step>> /\ DOMAIN active' = Signals /\ DOMAIN handler' = Signals
    BY <1>1, <1>9 DEF CannotChain, init_vars
  <2> QED
    BY <2>1, <2>2, GoStep
<1>10. CASE Spin(t)
  <2>1. At(t, "later") /\ Goes(t, "spins") /\ Follows("later", "spins")
    BY <1>10 DEF Spin, Follows
  <2>2. UNCHANGED <<called, first, step>> /\ DOMAIN active' = Signals /\ DOMAIN handler' = Signals
    BY <1>1, <1>10 DEF Spin, init_vars
  <2> QED
    BY <2>1, <2>2, GoStep
<1>11. CASE PreviousReturns(t)
  <2>1. CASE Atp /\ Sig(t) \notin {"ABRT", "TERM"}
    BY <1>11, <2>1, Quiescent DEF PreviousReturns, Ends
  <2>2. CASE ~(Atp /\ Sig(t) \notin {"ABRT", "TERM"})
    <3>1. At(t, "lib") /\ Goes(t, "exit") /\ Follows("lib", "exit")
      BY <1>11, <2>2 DEF PreviousReturns, Follows
    <3>2. UNCHANGED <<called, first, step>> /\ DOMAIN active' = Signals /\ DOMAIN handler' = Signals
      BY <1>1, <1>11, <2>2 DEF PreviousReturns, init_vars
    <3> QED
      BY <3>1, <3>2, GoStep
  <2> QED
    BY <2>1, <2>2
<1> QED
  BY <1>2, <1>3, <1>4, <1>5, <1>6, <1>7, <1>8, <1>9, <1>10, <1>11 DEF SignalDrhook

LEMMA FramesStep ==
  ASSUME SignalsType, FramesInv, ThreadsAssumption, SignalsAssumption, [Next]_vars
  PROVE  SignalsType' /\ FramesInv'
<1>1. CASE UNCHANGED vars
  BY <1>1, Quiescent DEF vars
<1>2. CASE Next
  <2> USE <1>2
  <2>1. UNCHANGED env /\ Events
    BY DEF Next
  <2>2. CASE SetUp
    BY <2>1, <2>2, SetUpStep
  <2>3. CASE Expire \/ DoProf \/ EndOfProgram
    BY <2>1, <2>3, Quiescent DEF Expire, DoProf, EndOfProgram
  <2>4. ASSUME NEW t \in Threads, EnterCritical(t) \/ LeaveCritical(t)
        PROVE  SignalsType' /\ FramesInv'
    BY <2>1, <2>4, Quiescent DEF EnterCritical, LeaveCritical, unless_critical
  <2>5. ASSUME NEW t \in Threads, SignalDrhook(t) \/ Traceback(t) \/ PreviousEnds(t) \/ PreviousReturns(t)
        PROVE  SignalsType' /\ FramesInv'
    BY <2>1, <2>5, HandlerStep
  <2>6. ASSUME NEW t \in Threads, NEW s \in Signals, Deliver(s, t)
        PROVE  SignalsType' /\ FramesInv'
    BY <2>1, <2>6, DeliverStep
  <2>7. "ALRM" \in Signals
    BY DEF SignalsAssumption, SignalsType, Signals, Before
  <2>8. ASSUME NEW t \in Threads,
               DeliverAlarm(t) \/ \E s \in Signals : Raise(s, t) \/ Timer(s, t)
        PROVE  SignalsType' /\ FramesInv'
    BY <2>6, <2>7, <2>8 DEF DeliverAlarm, Raise, Timer
  <2> QED
    BY <2>1, <2>2, <2>3, <2>4, <2>5, <2>8 DEF Events
<1> QED
  BY <1>1, <1>2

-----------------------------------------------------------------------------
(* The handlers before the first signal.                                      *)

LEMMA ListsKept ==
  ASSUME UNCHANGED <<env, step, active, handler, trap>>, called' = 0 => called = 0, Started, ListsRead
  PROVE  Started' /\ ListsRead'
BY Fixed DEF Started, ListsRead, Claim, HandlerOf, Asked

LEMMA ListsSetUp ==
  ASSUME SignalsType, Started, ListsRead, UNCHANGED env, SetUp
  PROVE  Started' /\ ListsRead'
<1> DEFINE I == Asked(IgnoreList)
           R == Asked(RestoreList)
           C == Asked(CatchList)
<1>1. /\ Asked(IgnoreList)' = I /\ Asked(RestoreList)' = R /\ Asked(CatchList)' = C
      /\ Signals' = Signals /\ Before' = Before /\ Standard' = Standard
      /\ InitSignals' = InitSignals /\ GenCore' = GenCore /\ TrapFpe' = TrapFpe
  BY Fixed DEF Asked
<1>2. called' = called
  BY DEF SetUp, IgnoreSignals, RestoreDefaultSignals, SetSignals, CatchSignals, GenCoreAndFlag,
         SetTimedKill, after_init
<1>3. I \subseteq Signals /\ R \subseteq Signals /\ C \subseteq Signals
  BY DEF Asked
<1>4. Started'
  BY <1>1 DEF Started, SetUp, IgnoreSignals, RestoreDefaultSignals, SetSignals, CatchSignals,
              GenCoreAndFlag, SetTimedKill
<1>5. ListsRead'
  <2> SUFFICES ASSUME InitSignals, called = 0 PROVE ListsRead'
    BY <1>1, <1>2 DEF ListsRead
  <2>1. /\ \A s \in Signals : active[s] = Claim(s) /\ handler[s] = HandlerOf(s)
        /\ "FPE" \in Signals =>
             trap = IF Claim("FPE") \in {1, -2} THEN IF TrapFpe THEN "on" ELSE "off" ELSE "untouched"
    BY DEF ListsRead
  <2> HIDE DEF I, R, C
  <2>2. CASE IgnoreSignals
    BY <1>1, <2>1, <2>2 DEF I, R, C, IgnoreSignals, ListsRead, Claim, HandlerOf
  <2>3. CASE RestoreDefaultSignals
    BY <1>1, <2>1, <2>3 DEF I, R, C, RestoreDefaultSignals, Untouched, Treatment, ListsRead, Claim, HandlerOf
  <2>4. CASE SetSignals
    BY <1>1, <2>1, <2>4 DEF I, R, C, SetSignals, Install, Untouched, Treatment, ListsRead, Claim, HandlerOf
  <2>5. CASE CatchSignals
    BY <1>1, <1>3, <2>1, <2>5 DEF I, R, C, CatchSignals, Install, Untouched, Treatment, ListsRead, Claim, HandlerOf
  <2>6. CASE GenCoreAndFlag
    BY <1>1, <2>1, <2>6 DEF I, R, C, GenCoreAndFlag, ListsRead, Claim, HandlerOf
  <2>7. CASE SetTimedKill
    BY <1>1, <2>1, <2>7 DEF I, R, C, SetTimedKill, ListsRead, Claim, HandlerOf
  <2> QED
    BY <2>2, <2>3, <2>4, <2>5, <2>6, <2>7 DEF SetUp
<1> QED
  BY <1>4, <1>5

\* A handler that was counted first is there only once a signal was counted.
LEMMA AtFirst ==
  ASSUME FramesInv, NEW t \in Threads, NEW a, At(t, a), a \in {"first", "trace", "chain", "lib", "exit"}
  PROVE  called >= 1 /\ Sig(t) = first
<1>1. frames[t] # <<>> /\ Last(frames[t]).at = a
  BY DEF At
<1>2. HeapFrameOK(Last(frames[t]), OpenMP, SignalsSet, called, first)
  BY <1>1, TopOK
<1> QED
  BY <1>1, <1>2 DEF HeapFrameOK, Counted1, Sig

LEMMA ListsHandler ==
  ASSUME SignalsType, FramesInv, Started, ListsRead, UNCHANGED env, NEW t \in Threads,
         SignalDrhook(t) \/ Traceback(t) \/ PreviousEnds(t) \/ PreviousReturns(t)
  PROVE  Started' /\ ListsRead'
<1>1. CASE Count(t) \/ StoreCount(t) \/ ReadCount(t)
  <2>1. called' # 0 \/ called' = called
    <3>1. CASE Count(t)
      BY <3>1 DEF Count, Counted, SignalsType
    <3>2. CASE ReadCount(t)
      BY <3>2 DEF ReadCount
    <3>3. CASE StoreCount(t)
      <4>1. frames[t] # <<>> /\ Last(frames[t]).at = "read" /\ called' = Last(frames[t]).n
        BY <3>3 DEF StoreCount, Counted, At
      <4> QED
        BY <4>1 DEF FramesInv, ReadsAgree, SignalsType
    <3> QED
      BY <1>1, <3>1, <3>2, <3>3
  <2>2. UNCHANGED <<step, active, handler, trap>>
    BY <1>1 DEF Count, StoreCount, ReadCount, Counted, init_vars
  <2> QED
    BY <2>1, <2>2, ListsKept
<1>2. CASE Harakiri(t) \/ CallPrevious(t)
  <2>1. called >= 1 /\ called' = called /\ step' = step
    BY <1>2, AtFirst DEF Harakiri, CallPrevious
  <2>2. called' # 0
    BY <2>1 DEF SignalsType
  <2>3. InitSignals' = InitSignals
    BY Fixed
  <2> QED
    BY <2>1, <2>2, <2>3 DEF Started, ListsRead
<1>3. CASE \/ TooEarly(t) \/ Traceback(t) \/ PreviousEnds(t) \/ PreviousReturns(t)
           \/ CannotChain(t) \/ Exit(t) \/ Spin(t) \/ SpinEnds(t)
  <2>1. UNCHANGED <<step, active, handler, trap, called>>
    BY <1>3 DEF TooEarly, Traceback, PreviousEnds, PreviousReturns, CannotChain, Exit, Spin,
                SpinEnds, Ends, init_vars
  <2> QED
    BY <2>1, ListsKept
<1> QED
  BY <1>1, <1>2, <1>3 DEF SignalDrhook

LEMMA ListsStep ==
  ASSUME SignalsType, FramesInv, SignalsAssumption, Started, ListsRead, [Next]_vars
  PROVE  Started' /\ ListsRead'
<1>1. CASE UNCHANGED vars
  BY <1>1, ListsKept DEF vars, init_vars
<1>2. CASE Next
  <2> USE <1>2
  <2>1. UNCHANGED env /\ Events
    BY DEF Next
  <2>2. CASE SetUp
    BY <2>1, <2>2, ListsSetUp
  <2>3. CASE Expire \/ DoProf \/ EndOfProgram
    BY <2>1, <2>3, ListsKept DEF Expire, DoProf, EndOfProgram, init_vars
  <2>4. ASSUME NEW t \in Threads, EnterCritical(t) \/ LeaveCritical(t)
        PROVE  Started' /\ ListsRead'
    BY <2>1, <2>4, ListsKept DEF EnterCritical, LeaveCritical, unless_critical, init_vars
  <2>5. ASSUME NEW t \in Threads, SignalDrhook(t) \/ Traceback(t) \/ PreviousEnds(t) \/ PreviousReturns(t)
        PROVE  Started' /\ ListsRead'
    BY <2>1, <2>5, ListsHandler
  <2>6. ASSUME NEW t \in Threads, NEW s \in Signals, Deliver(s, t)
        PROVE  Started' /\ ListsRead'
    BY <2>1, <2>6, DeliverStep, ListsKept DEF init_vars
  <2>7. "ALRM" \in Signals
    BY DEF SignalsAssumption, SignalsType, Signals, Before
  <2>8. ASSUME NEW t \in Threads,
               DeliverAlarm(t) \/ \E s \in Signals : Raise(s, t) \/ Timer(s, t)
        PROVE  Started' /\ ListsRead'
    BY <2>6, <2>7, <2>8 DEF DeliverAlarm, Raise, Timer
  <2> QED
    BY <2>1, <2>2, <2>3, <2>4, <2>5, <2>8 DEF Events
<1> QED
  BY <1>1, <1>2

-----------------------------------------------------------------------------
(* How the process ends.                                                      *)

\* The step that ends the process: with the signal counted first, or by a
\* signal whose core was asked for, or before the set up has come to its end.
EndsRightly ==
  \/ status' = status
  \/ status'[1] \notin {"exit", "lib"}
  \/ ~SignalsSet
  \/ handler[status'[2]] = "gencore"
  \/ status'[2] = first

LEMMA HandlerEnds ==
  ASSUME FramesInv, NEW t \in Threads,
         SignalDrhook(t) \/ Traceback(t) \/ PreviousEnds(t) \/ PreviousReturns(t)
  PROVE  status' = status \/ (UNCHANGED <<init_vars, first>> /\ EndsRightly)
<1>1. CASE TooEarly(t)
  BY <1>1 DEF TooEarly, Ends, EndsRightly
<1>2. CASE Exit(t)
  <2>1. Sig(t) = first /\ status' = <<"exit", Sig(t)>> /\ UNCHANGED <<init_vars, first>>
    BY <1>2, AtFirst DEF Exit, Ends
  <2> QED
    BY <2>1 DEF EndsRightly
<1>3. CASE PreviousEnds(t)
  <2>1. Sig(t) = first /\ status' = <<"lib", Sig(t)>> /\ UNCHANGED <<init_vars, first>>
    BY <1>3, AtFirst DEF PreviousEnds, Ends
  <2> QED
    BY <2>1 DEF EndsRightly
<1>4. CASE SpinEnds(t)
  BY <1>4 DEF SpinEnds, Ends, EndsRightly
<1>5. CASE PreviousReturns(t)
  BY <1>5 DEF PreviousReturns, Ends, EndsRightly
<1>6. CASE \/ Count(t) \/ StoreCount(t) \/ ReadCount(t) \/ Harakiri(t) \/ CallPrevious(t)
           \/ CannotChain(t) \/ Spin(t) \/ Traceback(t)
  BY <1>6 DEF Count, StoreCount, ReadCount, Harakiri, CallPrevious, CannotChain, Spin, Traceback,
              Counted, rest
<1> QED
  BY <1>1, <1>2, <1>3, <1>4, <1>5, <1>6 DEF SignalDrhook

\* Once it has ended, nothing happens.
LEMMA OnlyWhileRunning ==
  ASSUME Next
  PROVE  status = Running
BY DEF Next, Events, SetUp, IgnoreSignals, RestoreDefaultSignals, SetSignals, CatchSignals,
       GenCoreAndFlag, SetTimedKill, Expire, DoProf, EndOfProgram, Idle, SignalDrhook, Traceback,
       PreviousEnds, PreviousReturns, TooEarly, Count, ReadCount, StoreCount, Harakiri,
       CallPrevious, CannotChain, Exit, Spin, SpinEnds, At, DeliverAlarm, Deliver, Raise, Timer,
       EnterCritical, LeaveCritical

LEMMA EndsStep ==
  ASSUME SignalsType, FramesInv, SignalsAssumption, Next
  PROVE  status' = Running \/ (UNCHANGED <<init_vars, first>> /\ EndsRightly)
<1>1. status = Running /\ UNCHANGED env /\ Events
  BY OnlyWhileRunning DEF Next
<1>2. CASE SetUp \/ Expire \/ DoProf
  BY <1>1, <1>2 DEF SetUp, IgnoreSignals, RestoreDefaultSignals, SetSignals, CatchSignals,
                    GenCoreAndFlag, SetTimedKill, after_init, Expire, DoProf
<1>3. CASE EndOfProgram
  BY <1>3 DEF EndOfProgram, EndsRightly
<1>4. ASSUME NEW t \in Threads, EnterCritical(t) \/ LeaveCritical(t)
      PROVE  status' = Running
  BY <1>1, <1>4 DEF EnterCritical, LeaveCritical, unless_critical
<1>5. ASSUME NEW t \in Threads, SignalDrhook(t) \/ Traceback(t) \/ PreviousEnds(t) \/ PreviousReturns(t)
      PROVE  status' = Running \/ (UNCHANGED <<init_vars, first>> /\ EndsRightly)
  BY <1>1, <1>5, HandlerEnds
<1>6. ASSUME NEW t \in Threads, NEW s \in Signals, Deliver(s, t)
      PROVE  status' = Running \/ (UNCHANGED <<init_vars, first>> /\ EndsRightly)
  <2>1. /\ UNCHANGED <<init_vars, first>>
        /\ \/ status' = status
           \/ status'[1] \in {"killed", "core"}
           \/ status'[1] = "exit" /\ handler[status'[2]] = "gencore"
    BY <1>1, <1>6, DeliverStep
  <2> QED
    BY <2>1 DEF EndsRightly
<1>7. "ALRM" \in Signals
  BY DEF SignalsAssumption, SignalsType, Signals, Before
<1>8. ASSUME NEW t \in Threads,
             DeliverAlarm(t) \/ \E s \in Signals : Raise(s, t) \/ Timer(s, t)
      PROVE  status' = Running \/ (UNCHANGED <<init_vars, first>> /\ EndsRightly)
  BY <1>6, <1>7, <1>8 DEF DeliverAlarm, Raise, Timer
<1> QED
  BY <1>1, <1>2, <1>3, <1>4, <1>5, <1>8 DEF Events

LEMMA CodeStep ==
  ASSUME SignalsType, FramesInv, SignalsAssumption, CodeOfTheFirst, [Next]_vars
  PROVE  CodeOfTheFirst'
<1>1. CASE UNCHANGED vars
  BY <1>1 DEF vars, init_vars, CodeOfTheFirst, SignalsSet
<1>2. CASE Next
  <2>1. CASE status' = Running
    BY <2>1 DEF CodeOfTheFirst, Running
  <2>2. CASE UNCHANGED <<init_vars, first>> /\ EndsRightly
    <3>1. status' = status => CodeOfTheFirst'
      BY <2>2 DEF init_vars, CodeOfTheFirst, SignalsSet
    <3> QED
      BY <2>2, <3>1 DEF init_vars, EndsRightly, CodeOfTheFirst, SignalsSet
  <2> QED
    BY <1>2, <2>1, <2>2, EndsStep
<1> QED
  BY <1>1, <1>2

-----------------------------------------------------------------------------
(* The types of the other variables.                                          *)

LEMMA TypeKept ==
  ASSUME UNCHANGED <<env, active, handler, old, quiet, trap, called, ignore>>, TypeInv,
         timers' \subseteq timers, alarm' \in {"off", "armed", "due"}, owner' \in Threads \cup {0}
  PROVE  TypeInv'
BY Fixed DEF TypeInv, TypeOfHandlers, TypeOfRest

LEMMA TypeInstall ==
  ASSUME UNCHANGED env, TypeOfHandlers, NEW set, Install(set)
  PROVE  /\ active' \in [Signals -> {0, 1, -1, -2}]
         /\ handler' \in [Signals -> Handlers] /\ old' \in [Signals -> Handlers]
         /\ trap' \in {"untouched", "on", "off"}
BY DEF TypeOfHandlers, Install, Untouched, Treatment, Handlers

LEMMA TypeSetUp ==
  ASSUME UNCHANGED env, TypeInv, SetUp
  PROVE  TypeInv'
<1>1. Signals' = Signals /\ Threads' = Threads
  BY Fixed
<1>2. UNCHANGED <<called, ignore, alarm, owner>>
  BY DEF SetUp, IgnoreSignals, RestoreDefaultSignals, SetSignals, CatchSignals, GenCoreAndFlag,
         SetTimedKill, after_init
<1>3. timers' \subseteq Threads \X Signals
  BY DEF SetUp, IgnoreSignals, RestoreDefaultSignals, SetSignals, CatchSignals, GenCoreAndFlag,
         SetTimedKill, TypeInv, TypeOfRest
<1>4. TypeOfHandlers'
  <2>1. CASE IgnoreSignals
    BY <1>1, <2>1 DEF IgnoreSignals, TypeInv, TypeOfHandlers
  <2>2. CASE RestoreDefaultSignals
    BY <1>1, <2>2 DEF RestoreDefaultSignals, Treatment, Handlers, TypeInv, TypeOfHandlers
  <2>3. CASE SetSignals
    <3>1. quiet' \subseteq Signals
      BY <2>3 DEF SetSignals, Untouched
    <3> QED
      BY <1>1, <2>3, <3>1, TypeInstall DEF SetSignals, TypeInv, TypeOfHandlers
  <2>4. CASE CatchSignals
    BY <1>1, <2>4, TypeInstall DEF CatchSignals, TypeInv, TypeOfHandlers
  <2>5. CASE GenCoreAndFlag
    BY <1>1, <2>5 DEF GenCoreAndFlag, Handlers, TypeInv, TypeOfHandlers
  <2>6. CASE SetTimedKill
    BY <1>1, <2>6 DEF SetTimedKill, TypeInv, TypeOfHandlers
  <2> QED
    BY <2>1, <2>2, <2>3, <2>4, <2>5, <2>6 DEF SetUp
<1> QED
  BY <1>1, <1>2, <1>3, <1>4 DEF TypeInv, TypeOfRest

\* A signal is counted once: what is ignored at the exit is at most what was
\* counted.
LEMMA TypeCounted ==
  ASSUME UNCHANGED env, called \in Nat, TypeInv, NEW t \in Threads, Counted(t, called + 1)
  PROVE  TypeInv'
<1>1. UNCHANGED <<active, handler, old, quiet, trap, timers, alarm, owner>>
  BY DEF Counted, init_vars, rest
<1>2. called' = called + 1 /\ ignore' \in {ignore, ignore + 1}
  BY DEF Counted, TypeInv, TypeOfRest
<1>3. ignore' \in 0 .. called'
  BY <1>2 DEF TypeInv, TypeOfRest
<1> QED
  BY <1>1, <1>3, Fixed DEF TypeInv, TypeOfHandlers, TypeOfRest

LEMMA TypeHandler ==
  ASSUME SignalsType, FramesInv, TypeInv, UNCHANGED env, "ALRM" \in Signals, NEW t \in Threads,
         SignalDrhook(t) \/ Traceback(t) \/ PreviousEnds(t) \/ PreviousReturns(t)
  PROVE  TypeInv'
<1>1. alarm \in {"off", "armed", "due"} /\ owner \in Threads \cup {0} /\ called \in Nat
  BY DEF TypeInv, TypeOfRest, SignalsType
<1>2. CASE Count(t) \/ StoreCount(t)
  <2>1. Counted(t, called + 1)
    <3>1. CASE Count(t)
      BY <3>1 DEF Count
    <3>2. CASE StoreCount(t)
      BY <3>2 DEF StoreCount, At, FramesInv, ReadsAgree
    <3> QED
      BY <1>2, <3>1, <3>2
  <2> QED
    BY <1>1, <2>1, TypeCounted
<1>3. CASE Harakiri(t)
  <2>1. TypeOfHandlers'
    BY <1>3, Fixed DEF Harakiri, Handlers, TypeInv, TypeOfHandlers
  <2>2. TypeOfRest'
    BY <1>3, Fixed DEF Harakiri, TypeInv, TypeOfRest
  <2> QED
    BY <2>1, <2>2 DEF TypeInv
<1>4. CASE CallPrevious(t)
  <2>1. handler' \in [Signals -> Handlers]
    BY <1>4 DEF CallPrevious, Handlers, TypeInv, TypeOfHandlers
  <2> QED
    BY <1>4, <2>1, Fixed DEF CallPrevious, rest, TypeInv, TypeOfHandlers, TypeOfRest
<1>5. CASE \/ ReadCount(t) \/ TooEarly(t) \/ Traceback(t) \/ PreviousEnds(t) \/ PreviousReturns(t)
           \/ CannotChain(t) \/ Exit(t) \/ Spin(t) \/ SpinEnds(t)
  <2>1. UNCHANGED <<active, handler, old, quiet, trap, called, ignore, timers, alarm, owner>>
    BY <1>5 DEF ReadCount, TooEarly, Traceback, PreviousEnds, PreviousReturns, CannotChain, Exit,
                Spin, SpinEnds, Ends, init_vars, rest
  <2> QED
    BY <1>1, <2>1, TypeKept
<1> QED
  BY <1>2, <1>3, <1>4, <1>5 DEF SignalDrhook

LEMMA TypeStep ==
  ASSUME SignalsType, FramesInv, TypeInv, SignalsAssumption, [Next]_vars
  PROVE  TypeInv'
<1>1. alarm \in {"off", "armed", "due"} /\ owner \in Threads \cup {0}
  BY DEF TypeInv, TypeOfRest
<1>2. CASE UNCHANGED vars
  BY <1>1, <1>2, TypeKept DEF vars, init_vars
<1>3. CASE Next
  <2>1. UNCHANGED env /\ Events
    BY <1>3 DEF Next
  <2>2. "ALRM" \in Signals
    BY DEF SignalsAssumption, SignalsType, Signals, Before
  <2>3. CASE SetUp
    BY <2>1, <2>3, TypeSetUp
  <2>4. CASE Expire \/ DoProf \/ EndOfProgram
    BY <1>1, <2>1, <2>4, TypeKept DEF Expire, DoProf, EndOfProgram, init_vars
  <2>5. ASSUME NEW t \in Threads, EnterCritical(t) \/ LeaveCritical(t)
        PROVE  TypeInv'
    BY <1>1, <2>1, <2>5, TypeKept DEF EnterCritical, LeaveCritical, unless_critical, init_vars
  <2>6. ASSUME NEW t \in Threads, SignalDrhook(t) \/ Traceback(t) \/ PreviousEnds(t) \/ PreviousReturns(t)
        PROVE  TypeInv'
    BY <2>1, <2>2, <2>6, TypeHandler
  <2>7. ASSUME NEW t \in Threads, NEW s \in Signals, Deliver(s, t)
        PROVE  UNCHANGED <<active, handler, old, quiet, trap, called, ignore, owner>>
    BY <2>7 DEF Deliver, Ends, init_vars
  <2>8. ASSUME NEW t \in Threads,
               DeliverAlarm(t) \/ \E s \in Signals : Raise(s, t) \/ Timer(s, t)
        PROVE  TypeInv'
    <3>1. UNCHANGED <<active, handler, old, quiet, trap, called, ignore, owner>>
      BY <2>2, <2>7, <2>8 DEF DeliverAlarm, Raise, Timer
    <3>2. timers' \subseteq timers /\ alarm' \in {alarm, "off"}
      BY <2>8 DEF DeliverAlarm, Raise, Timer
    <3> QED
      BY <1>1, <2>1, <3>1, <3>2, TypeKept
  <2> QED
    BY <2>1, <2>3, <2>4, <2>5, <2>6, <2>8 DEF Events
<1> QED
  BY <1>2, <1>3

LEMMA TypesFollow ==
  ASSUME SignalsType, FramesInv, TypeInv
  PROVE  TypeOK
<1>1. ASSUME NEW t \in Threads, NEW i \in DOMAIN frames[t]
      PROVE  frames[t][i].sig \in Signals /\ frames[t][i].at \in Places /\ frames[t][i].n \in Nat
  <2>1. frames[t] \in Seq(HeapFrames)
    BY DEF FramesInv, HeapFramesOK
  <2>2. frames[t][i] \in HeapFrames
    BY <2>1
  <2> QED
    BY <2>2 DEF HeapFrames
<1> QED
  BY <1>1 DEF TypeOK, TypeInv, TypeOfHandlers, TypeOfRest, SignalsType, Handlers

-----------------------------------------------------------------------------
(* The theorem.                                                               *)

LEMMA SignalsInvInit ==
  ASSUME SignalsAssumption, Init
  PROVE  SignalsInv
<1>1. SignalsType
  BY DEF Init, SignalsType, SignalsAssumption, Signals, Before
<1>5. TypeInv
  BY DEF Init, TypeInv, TypeOfHandlers, TypeOfRest, Handlers, SignalsAssumption, Signals, Before
<1>2. Started /\ CodeOfTheFirst
  BY DEF Init, Started, CodeOfTheFirst, Running
<1>3. ListsRead
  BY DEF Init, ListsRead, Claim, HandlerOf
<1>4. HeapFramesOK /\ ReadsAgree /\ OneFirst
  BY DEF Init, HeapFramesOK, ReadsAgree, OneFirst
<1> QED
  BY <1>1, <1>2, <1>3, <1>4, <1>5 DEF SignalsInv

LEMMA OneTracebackHolds ==
  ASSUME SignalsType, FramesInv
  PROVE  OneTraceback
<1> DEFINE Firsts(t) == {i \in DOMAIN frames[t] : frames[t][i].at # "read" /\ frames[t][i].n = 1}
           S == UNION {{t} \X Firsts(t) : t \in Threads}
<1>1. ASSUME NEW t \in Threads, NEW i \in Firsts(t)
      PROVE  i \in 1 .. Len(frames[t]) /\ Counted1(frames[t][i])
  <2>1. frames[t] \in Seq(HeapFrames)
    BY DEF FramesInv, HeapFramesOK
  <2> QED
    BY <2>1 DEF Counted1
<1>2. ASSUME NEW x \in S, NEW y \in S PROVE x = y
  <2>1. PICK t \in Threads : x \in {t} \X Firsts(t)
    OBVIOUS
  <2>2. PICK i \in Firsts(t) : x = <<t, i>>
    BY <2>1
  <2>3. PICK u \in Threads : y \in {u} \X Firsts(u)
    OBVIOUS
  <2>4. PICK j \in Firsts(u) : y = <<u, j>>
    BY <2>3
  <2>5. /\ i \in 1 .. Len(frames[t]) /\ Counted1(frames[t][i])
        /\ j \in 1 .. Len(frames[u]) /\ Counted1(frames[u][j])
    BY <1>1
  <2>6. t = u /\ i = j
    BY <2>5 DEF FramesInv, OneFirst
  <2> QED
    BY <2>2, <2>4, <2>6
<1> HIDE DEF S
<1>3. Cardinality(S) <= 1
  <2>1. CASE S = {}
    BY <2>1, FS_EmptySet
  <2>2. CASE S # {}
    <3>1. PICK x : x \in S
      BY <2>2
    <3>2. S = {x}
      BY <1>2, <3>1
    <3> QED
      BY <3>2, FS_Singleton
  <2> QED
    BY <2>1, <2>2
<1> QED
  BY <1>3 DEF S, OneTraceback

LEMMA HandlersFollow ==
  ASSUME ListsRead
  PROVE  HandlersAsAsked
BY DEF ListsRead, HandlersAsAsked, Claim, HandlerOf, Standard

\* Whatever signals arrive, on any number of threads, at any moment of the set
\* up or within each other's handlers: until one is counted the handlers are
\* those the lists of the environment ask for; one signal at most is taken for
\* the first; and the exit code, or the handler of a library that ends the
\* process, is that of the signal counted first (signal_drhook_init,
\* signal_drhook).
THEOREM FirstSignalHolds ==
  ASSUME SignalsAssumption, ThreadsAssumption
  PROVE  Spec => []FirstSignalDecides
<1>1. Init => SignalsInv
  BY SignalsInvInit
<1>2. SignalsInv /\ [Next]_vars => SignalsInv'
  BY FramesStep, TypeStep, ListsStep, CodeStep DEF SignalsInv, FramesInv
<1>3. SignalsInv => FirstSignalDecides
  BY TypesFollow, OneTracebackHolds, HandlersFollow DEF SignalsInv, FramesInv, FirstSignalDecides
<1> QED
  BY <1>1, <1>2, <1>3, PTL DEF Spec

-----------------------------------------------------------------------------
(* -------------------------------- the heap ------------------------------- *)
(* ------------------------- the inductive invariant ----------------------- *)
Words     == {"none", "written"}
HeapBlock == [alive : {TRUE}, size : Nat, stored : Nat, key : {0}, bytes : Int,
              by : HeapThreads \X Routines, guard : BOOLEAN, data : Words, expected : Words]
HeapKeys      == [cur : Int, child : Nat, maxself : Nat, maxall : Nat, allocs : Int, frees : Int, seen : Int]
MakingJobs == [at : {"malloc", "locked", "counted"}, b : Blocks, from : Blocks \cup {"none"}]
FreeJobs   == [at : {"free"}, b : Blocks]
Losses     == {n \in Int : n <= 0}
FreedJobs  == [at : {"freed"}, key : {0}, bytes : Losses]
Kinds      == {"malloc", "free", "amount"}

HeapTypes ==
  /\ build \in Builds
  /\ block \in [Blocks -> {Nothing} \cup HeapBlock]
  /\ curalloca \in [HeapThreads -> Int] /\ maxcurheapa \in [HeapThreads -> Nat]
  /\ lock \in HeapThreads \cup {0}
  /\ hits \in [Kinds -> [HeapThreads -> [0..Ranges -> Int]]]
  /\ mem \in [HeapThreads -> [Routines -> HeapKeys]]
  /\ stack \in [HeapThreads -> Seq(Routines)]
  /\ job \in [HeapThreads -> {NoJob} \cup MakingJobs \cup FreeJobs \cup FreedJobs]
  /\ warned \in BOOLEAN /\ overran \in BOOLEAN /\ peak \in Int /\ ops \in 0..MaxOps

\* A thread is in some routine.
SomeRoutine == \A t \in HeapThreads : stack[t] # <<>>

\* What a block takes, by the size asked for.
SizesInv ==
  \A b \in Blocks : block[b].alive =>
    /\ block[b].size \in Sizes
    /\ block[b].stored = StoredSize(block[b].size)
    /\ block[b].bytes = TrueBytes(Adjusted(block[b].size))

\* The word after the data is a NaN until the program writes there.
GuardsInv == \A b \in Blocks : block[b].alive /\ NansFill /\ ~block[b].guard => overran

\* The blocks a call is at work on; no other call has them.
Making(t) == job[t].at \in {"malloc", "locked", "counted"}
Held(t) ==
  IF Making(t) THEN {job[t].b} \cup ({job[t].from} \ {"none"})
  ELSE IF job[t].at = "free" THEN {job[t].b} ELSE {}
JobsInv ==
  /\ \A t \in HeapThreads : \A b \in Held(t) : block[b].alive
  /\ \A t \in HeapThreads : Making(t) => job[t].from # job[t].b
  /\ \A t, u \in HeapThreads : t # u => Held(t) \cap Held(u) = {}

\* What is allocated and not counted yet, or counted and freed already.
Uncounted(t) ==
  IF job[t].at \in {"malloc", "locked"} THEN block[job[t].b].bytes
  ELSE IF job[t].at = "freed" THEN job[t].bytes ELSE 0
UncountedOf == [t \in HeapThreads |-> Uncounted(t)]
BytesOf     == [b \in Blocks |-> IF block[b].alive THEN block[b].bytes ELSE 0]
BytesInv == HeadersTell => SumFunction(curalloca) + SumFunction(UncountedOf) = SumFunction(BytesOf)

\* The keys of all threads together have the same total.
CurOf(t) == [r \in Routines |-> mem[t][r].cur]
CursOf   == [t \in HeapThreads |-> SumFunction(CurOf(t))]
CursInv  == MemProf => SumFunction(CursOf) = SumFunction(curalloca)

SelfInv == \A t \in HeapThreads : \A r \in Routines : mem[t][r].maxself <= mem[t][r].maxall

PeakInv ==
  /\ \A t \in HeapThreads : curalloca[t] <= maxcurheapa[t]
  /\ peak <= SumFunction(maxcurheapa)

\* The same for the hits.
NotHit(t) == IF Making(t) THEN 1 ELSE IF job[t].at = "freed" THEN -1 ELSE 0
NotHitOf  == [t \in HeapThreads |-> NotHit(t)]
HitOf(r)  == [t \in HeapThreads |-> hits["malloc"][t][r] - hits["free"][t][r]]
HitsOf    == [r \in 0..Ranges |-> SumFunction(HitOf(r))]
HitsInv   == ProfileHeap => SumFunction(HitsOf) + SumFunction(NotHitOf) = Cardinality(Alive)

HeapInv ==
  /\ HeapTypes /\ SomeRoutine /\ SizesInv /\ GuardsInv /\ JobsInv
  /\ BytesInv /\ CursInv /\ SelfInv /\ PeakInv /\ HitsInv
  /\ NoFalseWarning
(* ------------------------------ one step --------------------------------- *)
\* What a thread does in one step, with what the program and the heap check
\* before: a block is enlarged only when no call has it.
Starts(t, b, size, from) ==
  /\ job[t] = NoJob /\ (from # "none" => block[from].alive /\ ~InUse(from))
  /\ Begin(t, b, size, from)
Rests ==
  UNCHANGED <<block, curalloca, maxcurheapa, lock, hits, mem, stack, job, warned, overran, peak>>
HeapStep(t) ==
  \/ \E b \in Blocks, size \in Sizes, from \in Blocks \cup {"none"} : Starts(t, b, size, from)
  \/ LockForMalloc(t) \/ CountedIn(t) \/ Allocated(t) \/ Freed(t) \/ Deducted(t)
  \/ \E b \in Blocks : job[t] = NoJob /\ ~InUse(b) /\ (Free(t, b) \/ Write(b) \/ Overrun(b))
  \/ \E r \in Routines : job[t] = NoJob /\ Enter(t, r)
  \/ job[t] = NoJob /\ Leave(t)
  \/ Rests

\* A step of the program is a step of some thread.
LEMMA StepOfThread ==
  ASSUME HeapTypes, HeapNext
  PROVE  /\ build' = build /\ ops' \in 0..MaxOps
         /\ \E t \in HeapThreads : HeapStep(t)
<1>0. build' = build
  BY DEF HeapNext
<1>m. MaxOps \in Nat /\ ops \in 0..MaxOps
  BY HeapAssumption DEF HeapTypes, MaxOps
<1>1. PICK t \in HeapThreads : Program(t) \/ Heap(t)
  BY DEF HeapNext
<1>2. CASE Heap(t)
  <2>1. ops' = ops
    BY <1>2 DEF Heap, LockForMalloc, CountedIn, Allocated, Freed, Deducted
  <2>2. HeapStep(t)
    BY <1>2 DEF Heap, HeapStep
  <2> QED
    BY <1>0, <1>m, <2>1, <2>2
<1>3. CASE Program(t)
  <2>1. ops' \in 0..MaxOps
    BY <1>3, <1>m DEF Program
  <2>2. ASSUME NEW b \in Blocks, NEW size \in Sizes, Malloc(t, b, size)
        PROVE  HeapStep(t)
    BY <2>2, <1>3 DEF Malloc, Starts, HeapStep, Program
  <2>3. ASSUME NEW b \in Blocks, NEW new \in Blocks, NEW size \in Sizes,
               ~InUse(b), Realloc(t, b, new, size)
        PROVE  HeapStep(t)
    <3>1. CASE OldSize(b) < size
      BY <2>3, <3>1, <1>3 DEF Realloc, Starts, HeapStep, Program
    <3>2. CASE ~(OldSize(b) < size)
      BY <2>3, <3>2 DEF Realloc, Rests, HeapStep
    <3> QED
      BY <3>1, <3>2
  <2>4. ASSUME NEW b \in Blocks, ~InUse(b), Free(t, b) \/ Write(b) \/ Overrun(b)
        PROVE  HeapStep(t)
    BY <2>4, <1>3 DEF HeapStep, Program
  <2>5. ASSUME NEW r \in Routines, Enter(t, r)
        PROVE  HeapStep(t)
    BY <2>5, <1>3 DEF HeapStep, Program
  <2>6. ASSUME Leave(t) \/ MallocFails(t)
        PROVE  HeapStep(t)
    BY <2>6, <1>3 DEF HeapStep, Program, MallocFails, Rests
  <2> QED
    BY <1>0, <1>3, <2>1, <2>2, <2>3, <2>4, <2>5, <2>6 DEF Program
<1> QED
  BY <1>1, <1>2, <1>3

(* -------------------------------- types ---------------------------------- *)
\* What a program is built with.
LEMMA BuildTypes ==
  ASSUME build \in Builds
  PROVE  /\ IsFiniteSet(HeapThreads) /\ 1 \in HeapThreads /\ 0 \notin HeapThreads
         /\ IsFiniteSet(Routines) /\ Main \in Routines /\ Sizes \subseteq Nat /\ MaxOps \in Nat
         /\ NecSx \in BOOLEAN /\ NansFill \in BOOLEAN /\ MemTrace \in BOOLEAN
         /\ MemProf \in BOOLEAN /\ ProfileHeap \in BOOLEAN
         /\ MemProf => MemTrace
BY HeapAssumption
   DEF HeapThreads, Routines, Sizes, MaxOps, NecSx, NansFill, MemTrace, MemProf, ProfileHeap

\* The three kinds of calls in progress.
LEMMA JobShapes ==
  ASSUME HeapTypes, NEW t \in HeapThreads
  PROVE  /\ job[t] \in {NoJob} \cup MakingJobs \cup FreeJobs \cup FreedJobs
         /\ Making(t) => /\ job[t] \in MakingJobs /\ job[t].b \in Blocks
                         /\ job[t].from \in Blocks \cup {"none"}
         /\ job[t].at = "free" => job[t] \in FreeJobs /\ job[t].b \in Blocks
         /\ job[t].at = "freed" =>
              job[t] \in FreedJobs /\ job[t].key = 0 /\ job[t].bytes \in Int /\ job[t].bytes <= 0
<1>1. job[t] \in {NoJob} \cup MakingJobs \cup FreeJobs \cup FreedJobs
  BY DEF HeapTypes
<1>2. CASE job[t] = NoJob
  BY <1>2 DEF NoJob, Making
<1>3. CASE job[t] \in MakingJobs
  BY <1>3 DEF MakingJobs, Making
<1>4. CASE job[t] \in FreeJobs
  BY <1>4 DEF FreeJobs, Making
<1>5. CASE job[t] \in FreedJobs
  BY <1>5 DEF FreedJobs, Making, Losses
<1> QED
  BY <1>1, <1>2, <1>3, <1>4, <1>5

LEMMA BlockShapes ==
  ASSUME HeapTypes, NEW b \in Blocks
  PROVE  /\ block[b].alive \in BOOLEAN
         /\ block[b].alive => block[b] \in HeapBlock
         /\ ~block[b].alive => block[b] = Nothing
<1>1. block[b] \in {Nothing} \cup HeapBlock
  BY DEF HeapTypes
<1>2. Nothing.alive = FALSE
  BY DEF Nothing
<1>3. \A r \in HeapBlock : r.alive = TRUE
  BY Zenon DEF HeapBlock
<1> QED
  BY <1>1, <1>2, <1>3, Zenon

LEMMA TopIsRoutine ==
  ASSUME HeapTypes, SomeRoutine, NEW t \in HeapThreads
  PROVE  /\ stack[t] \in Seq(Routines) /\ Len(stack[t]) \in Nat \ {0} /\ Top(t) \in Routines
         /\ \A i \in 1..Len(stack[t]) : stack[t][i] \in Routines
<1>1. stack[t] \in Seq(Routines) /\ stack[t] # <<>>
  BY DEF HeapTypes, SomeRoutine
<1>2. Len(stack[t]) \in Nat \ {0}
  BY <1>1, EmptySeq
<1>3. \A i \in 1..Len(stack[t]) : stack[t][i] \in Routines
  BY <1>1, ElementOfSeq
<1> QED
  BY <1>1, <1>2, <1>3 DEF Top

\* What is charged to a key.
LEMMA ChargedTypes ==
  ASSUME NEW k \in HeapKeys, NEW n \in Int
  PROVE  /\ Charged(k, n) \in HeapKeys /\ Charged(k, n).cur = k.cur + n
         /\ k.maxself <= k.maxall => Charged(k, n).maxself <= Charged(k, n).maxall
<1>1. PICK c, x \in Int : c = k.cur + n /\ x = IF n > 0 THEN c ELSE k.cur
  BY DEF HeapKeys
<1>2. PICK ms, ma \in Nat : /\ ms = IF n > 0 THEN Larger(k.maxself, c) ELSE k.maxself
                            /\ ma = Larger(k.maxall, x + k.child)
  BY <1>1 DEF HeapKeys, Larger
<1>3. PICK a, f \in Int : /\ a = IF n > 0 THEN k.allocs + 1 ELSE k.allocs
                          /\ f = IF n < 0 THEN k.frees + 1 ELSE k.frees
  BY DEF HeapKeys
<1>4. Charged(k, n) = [k EXCEPT !.cur = c, !.maxall = ma, !.maxself = ms, !.allocs = a, !.frees = f]
  BY <1>1, <1>2, <1>3 DEF Charged
<1>5. Charged(k, n) = [cur |-> c, child |-> k.child, maxself |-> ms, maxall |-> ma,
                       allocs |-> a, frees |-> f, seen |-> k.seen]
  BY <1>4 DEF HeapKeys
<1>6. k.child \in Nat /\ k.seen \in Int /\ k.cur \in Int /\ k.maxself \in Nat /\ k.maxall \in Nat
  BY DEF HeapKeys
<1>7. Charged(k, n) \in HeapKeys /\ Charged(k, n).cur = k.cur + n
  BY <1>5, <1>6, <1>1 DEF HeapKeys
<1>8. ASSUME k.maxself <= k.maxall
      PROVE  ms <= ma
  BY <1>1, <1>2, <1>6, <1>8 DEF Larger
<1> QED
  BY <1>5, <1>7, <1>8

\* Dr.Hook is told of n bytes: they go to the routine the thread is in.
CountedAt(t, r, n) ==
  IF MemProf THEN mem' = [mem EXCEPT ![t] = [mem[t] EXCEPT ![r] = Charged(mem[t][r], n)]] ELSE mem' = mem
LEMMA CounterCharges ==
  ASSUME HeapTypes, SomeRoutine, NEW t \in HeapThreads, NEW n, MemCounter(t, n, 0)
  PROVE  Top(t) \in Routines /\ CountedAt(t, Top(t), n)
<1>1. Top(t) \in Routines
  BY TopIsRoutine
<1> DEFINE to == IF n > 0 THEN <<t, Top(t)>> ELSE ChargedTo(t, 0)
<1>2. to = <<t, Top(t)>>
  BY DEF ChargedTo
<1>3. mem' = IF MemProf THEN [mem EXCEPT ![to[1]][to[2]] = Charged(@, n)] ELSE mem
  BY DEF MemCounter
<1> HIDE DEF to
<1>4. to[1] = t /\ to[2] = Top(t)
  BY <1>2
<1>5. mem' = IF MemProf THEN [mem EXCEPT ![t][Top(t)] = Charged(@, n)] ELSE mem
  BY <1>3, <1>4, Zenon
<1>6. mem \in [HeapThreads -> [Routines -> HeapKeys]]
  BY DEF HeapTypes
<1> QED
  BY <1>1, <1>5, <1>6 DEF CountedAt

\* The range of a size is one of those there are.
LEMMA RangeExists ==
  ASSUME NEW n
  PROVE  RangeOf(n) \in 0..Ranges
<1> DEFINE in == {j \in 0..Ranges - 1 : n < 10^(j + 1)}
<1>1. Ranges \in Nat
  BY HeapAssumption
<1>2. CASE in = {}
  BY <1>1, <1>2 DEF RangeOf
<1>3. CASE in # {}
  <2>1. in \in SUBSET Nat
    BY <1>1
  <2>2. \E x \in in : \A y \in in : x <= y
    BY <2>1, <1>3, LeastNumber
  <2>3. Min(in) \in in
    BY <2>2 DEF Min
  <2>4. Min(in) \in 0..Ranges
    BY <2>3, <1>1
  <2> QED
    BY <2>4, <1>3 DEF RangeOf
<1> QED
  BY <1>2, <1>3

LEMMA AddedAtOne ==
  ASSUME NEW D, NEW f \in [D -> Int], NEW r \in D, NEW m \in Int
  PROVE  [f EXCEPT ![r] = @ + m] \in [D -> Int]
OBVIOUS

\* A call is counted in one range of its thread.
HitAt(t, r, kind) ==
  /\ hits' \in [Kinds -> [HeapThreads -> [0..Ranges -> Int]]]
  /\ \A k \in {"malloc", "free"}, u \in HeapThreads, q \in 0..Ranges :
       hits'[k][u][q] = IF k = kind /\ u = t /\ q = r THEN hits[k][u][q] + 1 ELSE hits[k][u][q]
LEMMA PutHits ==
  ASSUME HeapTypes, NEW t \in HeapThreads, NEW n \in Int, NEW kind \in {"malloc", "free"},
         HeapPut(t, n, kind)
  PROVE  /\ ~ProfileHeap => hits' = hits
         /\ ProfileHeap => HitAt(t, RangeOf(n), kind)
<1>1. PICK r \in 0..Ranges : r = RangeOf(n)
  BY RangeExists
<1>2. PICK m \in Int : m = IF kind = "malloc" THEN n ELSE -n
  OBVIOUS
<1>3. CASE ~ProfileHeap
  BY <1>3 DEF HeapPut
<1>4. CASE ProfileHeap
  <2>1. hits' = [hits EXCEPT ![kind][t][r] = @ + 1, !["amount"][t][r] = @ + m]
    BY <1>1, <1>2, <1>4 DEF HeapPut
  <2>2. hits \in [Kinds -> [HeapThreads -> [0..Ranges -> Int]]]
    BY DEF HeapTypes
  <2>a. hits[kind][t] \in [0..Ranges -> Int] /\ hits["amount"][t] \in [0..Ranges -> Int]
    BY <2>2 DEF Kinds
  <2>b. 1 \in Int
    OBVIOUS
  <2>3. PICK g \in [0..Ranges -> Int] : g = [hits[kind][t] EXCEPT ![r] = @ + 1]
    BY <2>a, <2>b, AddedAtOne, Zenon
  <2>4. PICK a \in [0..Ranges -> Int] : a = [hits["amount"][t] EXCEPT ![r] = @ + m]
    BY <2>a, <1>2, AddedAtOne, Zenon
  <2>5. PICK f \in [HeapThreads -> [0..Ranges -> Int]] : f = [hits[kind] EXCEPT ![t] = g]
    BY <2>2 DEF Kinds
  <2>6. PICK e \in [HeapThreads -> [0..Ranges -> Int]] : e = [hits["amount"] EXCEPT ![t] = a]
    BY <2>2 DEF Kinds
  <2>7. hits' = [hits EXCEPT ![kind] = f, !["amount"] = e]
    BY <2>1, <2>2, <2>3, <2>4, <2>5, <2>6 DEF Kinds
  <2>8. hits' \in [Kinds -> [HeapThreads -> [0..Ranges -> Int]]]
    BY <2>7, <2>2 DEF Kinds
  <2>9. /\ hits'[kind] = f
        /\ \A k \in {"malloc", "free"} : k # kind => hits'[k] = hits[k]
    BY <2>7, <2>2 DEF Kinds
  <2>10. ASSUME NEW k \in {"malloc", "free"}, NEW u \in HeapThreads, NEW q \in 0..Ranges
         PROVE  hits'[k][u][q] = IF k = kind /\ u = t /\ q = r THEN hits[k][u][q] + 1 ELSE hits[k][u][q]
    <3>1. CASE k # kind
      BY <3>1, <2>9
    <3>2. CASE k = kind
      <4>1. hits'[k][u] = IF u = t THEN g ELSE hits[k][u]
        BY <3>2, <2>9, <2>5, <2>2 DEF Kinds
      <4>2. g[q] = IF q = r THEN hits[k][t][q] + 1 ELSE hits[k][t][q]
        BY <3>2, <2>3, <2>2 DEF Kinds
      <4> QED
        BY <3>2, <4>1, <4>2
    <3> QED
      BY <3>1, <3>2
  <2> QED
    BY <1>1, <1>4, <2>8, <2>10 DEF HitAt
<1> QED
  BY <1>3, <1>4

\* The size of a block, in words and in bytes.
LEMMA Quotient ==
  ASSUME NEW a \in Nat, NEW n \in Nat \ {0}
  PROVE  /\ a \div n \in Nat /\ (a \div n) * n \in Nat
         /\ (a + n) \div n = (a \div n) + 1 /\ ((a \div n) * n) \div n = a \div n
OBVIOUS

LEMMA AdjustedIsNat ==
  ASSUME NEW size \in Nat
  PROVE  Adjusted(size) \in Nat
<1>1. PICK w \in Nat \ {0} : w = WordLen
  BY HeapAssumption
<1>2. PICK a \in Nat : a = size + w - 1
  OBVIOUS
<1>3. (a \div w) * w \in Nat
  BY Quotient
<1> QED
  BY <1>1, <1>2, <1>3 DEF Adjusted, RoundUp

LEMMA HeaderIsBlock ==
  ASSUME build \in Builds, NEW by \in HeapThreads \X Routines, NEW size \in Sizes
  PROVE  Header(size, by) \in HeapBlock
<1>1. size \in Nat /\ NansFill \in BOOLEAN
  BY BuildTypes
<1>2. Adjusted(size) \in Nat
  BY <1>1, AdjustedIsNat
<1>3. StoredSize(size) \in Nat
  BY <1>1, <1>2 DEF StoredSize
<1>4. TrueBytes(Adjusted(size)) \in Int
  BY <1>2, HeapAssumption DEF TrueBytes
<1>5. "none" \in Words
  BY DEF Words
<1> QED
  BY <1>1, <1>2, <1>3, <1>4, <1>5 DEF HeapBlock, Header

\* The types of the next state, named by what this one is built with.
NextTypes ==
  /\ block' \in [Blocks -> {Nothing} \cup HeapBlock]
  /\ curalloca' \in [HeapThreads -> Int] /\ maxcurheapa' \in [HeapThreads -> Nat]
  /\ lock' \in HeapThreads \cup {0}
  /\ hits' \in [Kinds -> [HeapThreads -> [0..Ranges -> Int]]]
  /\ mem' \in [HeapThreads -> [Routines -> HeapKeys]]
  /\ stack' \in [HeapThreads -> Seq(Routines)]
  /\ job' \in [HeapThreads -> {NoJob} \cup MakingJobs \cup FreeJobs \cup FreedJobs]
  /\ warned' \in BOOLEAN /\ overran' \in BOOLEAN /\ peak' \in Int
  /\ \A t \in HeapThreads : stack'[t] # <<>>

LEMMA TypesNext ==
  ASSUME HeapTypes, build' = build, ops' \in 0..MaxOps, NextTypes
  PROVE  HeapTypes' /\ SomeRoutine'
<1>1. HeapThreads' = HeapThreads /\ Routines' = Routines /\ MaxOps' = MaxOps
  BY DEF HeapThreads, Routines, MaxOps
<1>2. HeapBlock' = HeapBlock
  BY <1>1 DEF HeapBlock
<1>3. build' \in Builds
  BY DEF HeapTypes
<1>4. ops' \in 0..MaxOps'
  BY <1>1
<1>5. SomeRoutine'
  BY <1>1 DEF NextTypes, SomeRoutine
<1> QED
  BY <1>1, <1>2, <1>3, <1>4, <1>5 DEF NextTypes, HeapTypes

LEMMA StartTypes ==
  ASSUME HeapTypes, SomeRoutine, NEW t \in HeapThreads, NEW b \in Blocks, NEW size \in Sizes,
         NEW from \in Blocks \cup {"none"}, Starts(t, b, size, from)
  PROVE  NextTypes
<1>1. Top(t) \in Routines
  BY TopIsRoutine
<1>2. PICK h \in HeapBlock : h = Header(size, <<t, Top(t)>>)
  BY <1>1, HeaderIsBlock DEF HeapTypes
<1>3. block' = [block EXCEPT ![b] = h]
  BY <1>2 DEF Starts, Begin
<1>4. block' \in [Blocks -> {Nothing} \cup HeapBlock]
  BY <1>3 DEF HeapTypes
<1>5. PICK j \in MakingJobs : j = [at |-> "malloc", b |-> b, from |-> from]
  BY DEF MakingJobs
<1>6. job' = [job EXCEPT ![t] = j]
  BY <1>5 DEF Starts, Begin
<1>7. job' \in [HeapThreads -> {NoJob} \cup MakingJobs \cup FreeJobs \cup FreedJobs]
  BY <1>6 DEF HeapTypes
<1>8. UNCHANGED <<curalloca, maxcurheapa, lock, hits, mem, stack, warned, overran, peak>>
  BY DEF Starts, Begin
<1> QED
  BY <1>4, <1>7, <1>8 DEF NextTypes, HeapTypes, SomeRoutine

LEMMA LockTypes ==
  ASSUME HeapTypes, SomeRoutine, NEW t \in HeapThreads, LockForMalloc(t)
  PROVE  NextTypes
<1>1. job[t] \in MakingJobs
  BY JobShapes DEF LockForMalloc, Making
<1>2. [job[t] EXCEPT !.at = "locked"] \in MakingJobs
  BY <1>1 DEF MakingJobs
<1>3. job' = [job EXCEPT ![t] = [job[t] EXCEPT !.at = "locked"]]
  BY DEF LockForMalloc
<1>4. job' \in [HeapThreads -> {NoJob} \cup MakingJobs \cup FreeJobs \cup FreedJobs]
  BY <1>2, <1>3 DEF HeapTypes
<1>5. lock' \in HeapThreads \cup {0}
  BY DEF LockForMalloc, HeapTypes
<1>6. UNCHANGED <<block, curalloca, maxcurheapa, hits, mem, stack, warned, overran, peak>>
  BY DEF LockForMalloc
<1> QED
  BY <1>4, <1>5, <1>6 DEF NextTypes, HeapTypes, SomeRoutine

\* The keys after a call of the counter.
LEMMA CountedTypes ==
  ASSUME HeapTypes, NEW t \in HeapThreads, NEW r \in Routines, NEW n \in Int, CountedAt(t, r, n)
  PROVE  mem' \in [HeapThreads -> [Routines -> HeapKeys]]
<1>1. mem \in [HeapThreads -> [Routines -> HeapKeys]] /\ mem[t][r] \in HeapKeys
  BY DEF HeapTypes
<1>2. PICK k \in HeapKeys : k = Charged(mem[t][r], n)
  BY <1>1, ChargedTypes
<1>3. mem' = mem \/ mem' = [mem EXCEPT ![t] = [mem[t] EXCEPT ![r] = k]]
  BY <1>2 DEF CountedAt
<1> QED
  BY <1>1, <1>3

\* The counters of the threads add up to a number.
LEMMA SumOfThreads ==
  ASSUME build \in Builds, NEW f \in [HeapThreads -> Int]
  PROVE  Summable(f) /\ SumFunction(f) \in Int
<1>1. IsFiniteSet(DOMAIN f) /\ DOMAIN f = HeapThreads
  BY BuildTypes
<1>2. Summable(f)
  BY <1>1 DEF Summable
<1> QED
  BY <1>2, SumInt

\* The bytes of the block a call is making.
LEMMA MadeBlock ==
  ASSUME HeapTypes, SizesInv, JobsInv, NEW t \in HeapThreads, Making(t)
  PROVE  /\ job[t].b \in Blocks /\ block[job[t].b].alive /\ block[job[t].b] \in HeapBlock
         /\ block[job[t].b].bytes \in Int
<1>1. job[t].b \in Blocks /\ job[t].b \in Held(t)
  BY JobShapes DEF Held
<1>2. block[job[t].b].alive
  BY <1>1 DEF JobsInv
<1>3. block[job[t].b] \in HeapBlock
  BY <1>1, <1>2, BlockShapes
<1> QED
  BY <1>1, <1>2, <1>3 DEF HeapBlock

LEMMA CountTypes ==
  ASSUME HeapTypes, SomeRoutine, SizesInv, JobsInv, NEW t \in HeapThreads, CountedIn(t)
  PROVE  NextTypes
<1>1. job[t] \in MakingJobs /\ Making(t)
  BY JobShapes DEF CountedIn, Making
<1>2. PICK n \in Int : n = block[job[t].b].bytes
  BY <1>1, MadeBlock
<1>3. /\ curalloca' = [curalloca EXCEPT ![t] = @ + n]
      /\ maxcurheapa' = [maxcurheapa EXCEPT ![t] = Larger(@, curalloca[t] + n)]
      /\ peak' = Larger(peak, SumFunction(curalloca) + n)
      /\ IF MemTrace THEN MemCounter(t, n, 0) ELSE mem' = mem
      /\ job' = [job EXCEPT ![t] = [job[t] EXCEPT !.at = "counted"]]
      /\ UNCHANGED <<block, lock, hits, stack, warned, overran>>
  BY <1>2 DEF CountedIn
<1>4. curalloca' \in [HeapThreads -> Int]
  BY <1>3 DEF HeapTypes
<1>5. maxcurheapa[t] \in Nat /\ curalloca[t] \in Int
  BY DEF HeapTypes
<1>6. Larger(maxcurheapa[t], curalloca[t] + n) \in Nat
  BY <1>5 DEF Larger
<1>7. maxcurheapa' \in [HeapThreads -> Nat]
  BY <1>3, <1>6 DEF HeapTypes
<1>8. SumFunction(curalloca) \in Int
  BY SumOfThreads DEF HeapTypes
<1>9. peak' \in Int
  BY <1>3, <1>8 DEF HeapTypes, Larger
<1>10. mem' \in [HeapThreads -> [Routines -> HeapKeys]]
  BY <1>3, CounterCharges, CountedTypes DEF HeapTypes
<1>11. [job[t] EXCEPT !.at = "counted"] \in MakingJobs
  BY <1>1 DEF MakingJobs
<1>12. job' \in [HeapThreads -> {NoJob} \cup MakingJobs \cup FreeJobs \cup FreedJobs]
  BY <1>3, <1>11 DEF HeapTypes
<1> QED
  BY <1>3, <1>4, <1>7, <1>9, <1>10, <1>12 DEF NextTypes, HeapTypes, SomeRoutine

\* A block filled or overwritten is still a block; it keeps its size.
SameSizeAs(f, r) ==
  /\ f.alive = r.alive /\ f.size = r.size /\ f.stored = r.stored
  /\ f.bytes = r.bytes /\ f.guard = r.guard
LEMMA FilledOne ==
  ASSUME NEW r \in HeapBlock, NEW d \in Words
  PROVE  /\ [r EXCEPT !.data = d] \in HeapBlock /\ [r EXCEPT !.expected = d] \in HeapBlock
         /\ SameSizeAs([r EXCEPT !.data = d], r) /\ SameSizeAs([r EXCEPT !.expected = d], r)
<1>1. [r EXCEPT !.data = d] \in HeapBlock
  BY DEF HeapBlock
<1>2. [r EXCEPT !.expected = d] \in HeapBlock
  BY DEF HeapBlock
<1>3. ASSUME NEW f, f = [r EXCEPT !.data = d] \/ f = [r EXCEPT !.expected = d]
      PROVE  SameSizeAs(f, r)
  <2>1. f.size = r.size /\ f.stored = r.stored /\ f.bytes = r.bytes
    BY <1>3 DEF HeapBlock
  <2>2. f.alive = r.alive
    BY <1>3 DEF HeapBlock
  <2>3. f.guard = r.guard
    BY <1>3 DEF HeapBlock
  <2> QED
    BY <2>1, <2>2, <2>3 DEF SameSizeAs
<1> QED
  BY <1>1, <1>2, <1>3

LEMMA FilledTypes ==
  ASSUME NEW r \in HeapBlock, NEW d \in Words, NEW e \in Words
  PROVE  /\ [r EXCEPT !.data = d, !.expected = e] \in HeapBlock
         /\ SameSizeAs([r EXCEPT !.data = d, !.expected = e], r)
<1>1. PICK f : f = [r EXCEPT !.data = d]
  OBVIOUS
<1>2. f \in HeapBlock /\ SameSizeAs(f, r)
  BY <1>1, FilledOne
<1>3. PICK g : g = [f EXCEPT !.expected = e]
  OBVIOUS
<1>4. g \in HeapBlock /\ SameSizeAs(g, f)
  BY <1>2, <1>3, FilledOne
<1>5. g = [r EXCEPT !.data = d, !.expected = e]
  BY <1>1, <1>3
<1>6. SameSizeAs(g, r)
  BY <1>2, <1>4, Zenon DEF SameSizeAs
<1> QED
  BY <1>4, <1>5, <1>6

\* What a step leaves of a block that exists before and after it.
SameSize(b) ==
  /\ block'[b].alive = block[b].alive
  /\ block[b].alive => /\ block'[b].size = block[b].size /\ block'[b].stored = block[b].stored
                       /\ block'[b].bytes = block[b].bytes
Refilled(b, d, e) ==
  block' = [block EXCEPT ![b] = [block[b] EXCEPT !.data = d, !.expected = e]]

LEMMA RefilledTypes ==
  ASSUME HeapTypes, NEW b \in Blocks, block[b].alive, NEW d \in Words, NEW e \in Words,
         Refilled(b, d, e)
  PROVE  /\ block' \in [Blocks -> {Nothing} \cup HeapBlock]
         /\ \A c \in Blocks : SameSize(c) /\ (block[c].alive => block'[c].guard = block[c].guard)
<1>1. block[b] \in HeapBlock
  BY BlockShapes
<1>2. PICK f : f = [block[b] EXCEPT !.data = d, !.expected = e]
  OBVIOUS
<1>3. f \in HeapBlock
  BY <1>1, <1>2, FilledTypes
<1>5. SameSizeAs(f, block[b])
  BY <1>1, <1>2, FilledTypes
<1>6. block' = [block EXCEPT ![b] = f]
  BY <1>2 DEF Refilled
<1>7. block' \in [Blocks -> {Nothing} \cup HeapBlock]
  BY <1>3, <1>6 DEF HeapTypes
<1>8. \A c \in Blocks : block'[c] = IF c = b THEN f ELSE block[c]
  BY <1>6 DEF HeapTypes
<1>9. ASSUME NEW c \in Blocks
      PROVE  SameSize(c) /\ (block[c].alive => block'[c].guard = block[c].guard)
  BY <1>5, <1>8, Zenon DEF SameSize, SameSizeAs
<1> QED
  BY <1>7, <1>9

\* The end of a reallocation: the new block is filled from the old one.
EndsRealloc(t, b, from) ==
  /\ Refilled(b, CopiedFrom(from), block[from].expected)
  /\ job' = [job EXCEPT ![t] = [at |-> "free", b |-> from]]
EndsMalloc(t) == block' = block /\ job' = [job EXCEPT ![t] = NoJob]

LEMMA AllocatedDoes ==
  ASSUME HeapTypes, SizesInv, JobsInv, NEW t \in HeapThreads, Allocated(t)
  PROVE  /\ Making(t) /\ job[t].at = "counted" /\ job[t].b \in Blocks /\ block[job[t].b].alive
         /\ HeapPut(t, block[job[t].b].bytes, "malloc") /\ block[job[t].b].bytes \in Int
         /\ \/ job[t].from = "none" /\ EndsMalloc(t)
            \/ /\ job[t].from \in Blocks /\ job[t].from # "none" /\ block[job[t].from].alive
               /\ EndsRealloc(t, job[t].b, job[t].from)
               /\ CopiedFrom(job[t].from) \in Words /\ block[job[t].from].expected \in Words
         /\ lock' = (IF MemTrace THEN 0 ELSE lock)
         /\ UNCHANGED <<curalloca, maxcurheapa, mem, stack, warned, overran, peak>>
<1>1. Making(t) /\ job[t].at = "counted"
  BY DEF Allocated, Making
<1>2. /\ job[t].b \in Blocks /\ block[job[t].b].alive /\ job[t].from \in Blocks \cup {"none"}
      /\ block[job[t].b].bytes \in Int
  BY <1>1, MadeBlock, JobShapes
<1>3. /\ HeapPut(t, block[job[t].b].bytes, "malloc") /\ lock' = (IF MemTrace THEN 0 ELSE lock)
      /\ UNCHANGED <<curalloca, maxcurheapa, mem, stack, warned, overran, peak>>
  BY DEF Allocated
<1>4. CASE job[t].from = "none"
  BY <1>1, <1>2, <1>3, <1>4 DEF Allocated, EndsMalloc
<1>5. CASE job[t].from # "none"
  <2>1. job[t].from \in Blocks /\ job[t].from \in Held(t)
    BY <1>1, <1>2, <1>5 DEF Held
  <2>2. block[job[t].from].alive
    BY <2>1 DEF JobsInv
  <2>3. block[job[t].from].expected \in Words /\ CopiedFrom(job[t].from) \in Words
    <3>1. block[job[t].from] \in HeapBlock
      BY <2>1, <2>2, BlockShapes
    <3>2. "none" \in Words
      BY DEF Words
    <3> QED
      BY <3>1, <3>2 DEF HeapBlock, CopiedFrom
  <2>4. job' = [job EXCEPT ![t] = [at |-> "free", b |-> job[t].from]]
    BY <1>5 DEF Allocated
  <2>5. block' = [block EXCEPT ![job[t].b].data = CopiedFrom(job[t].from),
                               ![job[t].b].expected = block[job[t].from].expected]
    BY <1>5 DEF Allocated
  <2>6. Refilled(job[t].b, CopiedFrom(job[t].from), block[job[t].from].expected)
    BY <2>5, <1>2 DEF Refilled, HeapTypes
  <2> QED
    BY <1>1, <1>2, <1>3, <1>5, <2>1, <2>2, <2>3, <2>4, <2>6 DEF EndsRealloc
<1> QED
  BY <1>4, <1>5

LEMMA AllocatedTypes ==
  ASSUME HeapTypes, SomeRoutine, SizesInv, JobsInv, NEW t \in HeapThreads, Allocated(t)
  PROVE  NextTypes
<1>1. block' \in [Blocks -> {Nothing} \cup HeapBlock]
  BY AllocatedDoes, RefilledTypes DEF EndsMalloc, EndsRealloc, HeapTypes
<1>2. job' \in [HeapThreads -> {NoJob} \cup MakingJobs \cup FreeJobs \cup FreedJobs]
  <2>1. CASE job[t].from = "none"
    BY <2>1, AllocatedDoes DEF EndsMalloc, HeapTypes
  <2>2. CASE job[t].from # "none"
    <3>1. PICK j \in FreeJobs : j = [at |-> "free", b |-> job[t].from]
      BY <2>2, AllocatedDoes DEF FreeJobs
    <3>2. job' = [job EXCEPT ![t] = j]
      BY <2>2, <3>1, AllocatedDoes DEF EndsRealloc
    <3> QED
      BY <3>2 DEF HeapTypes
  <2> QED
    BY <2>1, <2>2
<1>3. hits' \in [Kinds -> [HeapThreads -> [0..Ranges -> Int]]]
  <2>1. PICK n \in Int : HeapPut(t, n, "malloc")
    BY AllocatedDoes
  <2>2. \/ hits' = hits \/ HitAt(t, RangeOf(n), "malloc")
    BY <2>1, PutHits
  <2> QED
    BY <2>2 DEF HitAt, HeapTypes
<1>4. /\ lock' \in HeapThreads \cup {0}
      /\ UNCHANGED <<curalloca, maxcurheapa, mem, stack, warned, overran, peak>>
  BY AllocatedDoes DEF HeapTypes
<1> QED
  BY <1>1, <1>2, <1>3, <1>4 DEF NextTypes, HeapTypes, SomeRoutine

LEMMA FreeTypes ==
  ASSUME HeapTypes, SomeRoutine, NEW t \in HeapThreads, NEW b \in Blocks, Free(t, b)
  PROVE  NextTypes
<1>1. PICK j \in FreeJobs : j = [at |-> "free", b |-> b]
  BY DEF FreeJobs
<1>2. job' = [job EXCEPT ![t] = j]
  BY <1>1 DEF Free
<1>3. job' \in [HeapThreads -> {NoJob} \cup MakingJobs \cup FreeJobs \cup FreedJobs]
  BY <1>2 DEF HeapTypes
<1>4. UNCHANGED <<block, curalloca, maxcurheapa, lock, hits, mem, stack, warned, overran, peak>>
  BY DEF Free
<1> QED
  BY <1>3, <1>4 DEF NextTypes, HeapTypes, SomeRoutine

\* The block a call frees and what it deducts for it.
LEMMA FreedDoes ==
  ASSUME HeapTypes, JobsInv, NEW t \in HeapThreads, Freed(t)
  PROVE  /\ job[t].at = "free" /\ job[t].b \in Blocks /\ block[job[t].b].alive
         /\ Held(t) = {job[t].b}
         /\ block[job[t].b] \in HeapBlock /\ block[job[t].b].stored \in Nat
         /\ block' = [block EXCEPT ![job[t].b] = Nothing]
         /\ -TrueBytes(block[job[t].b].stored) \in Losses
         /\ job' = [job EXCEPT ![t] = [at |-> "freed", key |-> 0,
                                       bytes |-> -TrueBytes(block[job[t].b].stored)]]
         /\ warned' = (warned \/ GuardLost(job[t].b))
         /\ UNCHANGED <<curalloca, maxcurheapa, lock, hits, mem, stack, overran, peak>>
<1>1. job[t].at = "free"
  BY DEF Freed
<1>2. job[t].b \in Blocks /\ Held(t) = {job[t].b}
  BY <1>1, JobShapes DEF Held, Making
<1>3. block[job[t].b].alive
  BY <1>2 DEF JobsInv
<1>4. block[job[t].b] \in HeapBlock
  BY <1>2, <1>3, BlockShapes
<1>5. block[job[t].b].key = 0 /\ block[job[t].b].stored \in Nat
  BY <1>4 DEF HeapBlock
<1>6. -TrueBytes(block[job[t].b].stored) \in Losses
  BY <1>5, HeapAssumption DEF TrueBytes, Losses
<1>7. /\ block' = [block EXCEPT ![job[t].b] = Nothing]
      /\ job' = [job EXCEPT ![t] = [at |-> "freed", key |-> block[job[t].b].key,
                                    bytes |-> -TrueBytes(block[job[t].b].stored)]]
      /\ warned' = (warned \/ GuardLost(job[t].b))
      /\ UNCHANGED <<curalloca, maxcurheapa, lock, hits, mem, stack, overran, peak>>
  BY DEF Freed
<1> QED
  BY <1>1, <1>2, <1>3, <1>4, <1>5, <1>6, <1>7

LEMMA FreedTypes ==
  ASSUME HeapTypes, SomeRoutine, JobsInv, NEW t \in HeapThreads, Freed(t)
  PROVE  NextTypes
<1>1. block' \in [Blocks -> {Nothing} \cup HeapBlock]
  BY FreedDoes DEF HeapTypes
<1>2. PICK n \in Losses : n = -TrueBytes(block[job[t].b].stored)
  BY FreedDoes
<1>3. PICK j \in FreedJobs : j = [at |-> "freed", key |-> 0, bytes |-> n]
  BY DEF FreedJobs
<1>4. job' = [job EXCEPT ![t] = j]
  BY <1>2, <1>3, FreedDoes
<1>5. job' \in [HeapThreads -> {NoJob} \cup MakingJobs \cup FreeJobs \cup FreedJobs]
  BY <1>4 DEF HeapTypes
<1>6. warned' \in BOOLEAN
  BY FreedDoes
<1>7. UNCHANGED <<curalloca, maxcurheapa, lock, hits, mem, stack, overran, peak>>
  BY FreedDoes
<1> QED
  BY <1>1, <1>5, <1>6, <1>7 DEF NextTypes, HeapTypes, SomeRoutine

LEMMA DeductedDoes ==
  ASSUME HeapTypes, SomeRoutine, NEW t \in HeapThreads, Deducted(t)
  PROVE  /\ job[t].at = "freed" /\ job[t].bytes \in Int /\ job[t].bytes <= 0
         /\ Held(t) = {} /\ ~Making(t)
         /\ curalloca' = [curalloca EXCEPT ![t] = @ + job[t].bytes]
         /\ IF MemTrace THEN Top(t) \in Routines /\ CountedAt(t, Top(t), job[t].bytes)
            ELSE mem' = mem
         /\ HeapPut(t, job[t].bytes, "free") /\ job' = [job EXCEPT ![t] = NoJob]
         /\ UNCHANGED <<block, maxcurheapa, lock, stack, warned, overran, peak>>
<1>1. job[t].at = "freed"
  BY DEF Deducted
<1>2. job[t].bytes \in Int /\ job[t].bytes <= 0 /\ job[t].key = 0 /\ Held(t) = {} /\ ~Making(t)
  BY <1>1, JobShapes DEF Held, Making
<1>3. /\ curalloca' = [curalloca EXCEPT ![t] = @ + job[t].bytes]
      /\ IF MemTrace THEN MemCounter(t, job[t].bytes, job[t].key) ELSE mem' = mem
      /\ HeapPut(t, job[t].bytes, "free") /\ job' = [job EXCEPT ![t] = NoJob]
      /\ UNCHANGED <<block, maxcurheapa, lock, stack, warned, overran, peak>>
  BY DEF Deducted
<1>4. IF MemTrace THEN Top(t) \in Routines /\ CountedAt(t, Top(t), job[t].bytes) ELSE mem' = mem
  <2>1. CASE ~MemTrace
    BY <2>1, <1>3
  <2>2. CASE MemTrace
    <3>1. MemCounter(t, job[t].bytes, 0)
      BY <2>2, <1>2, <1>3
    <3>2. Top(t) \in Routines /\ CountedAt(t, Top(t), job[t].bytes)
      BY <3>1, <1>2, CounterCharges
    <3> QED
      BY <2>2, <3>2
  <2> QED
    BY <2>1, <2>2
<1> QED
  BY <1>1, <1>2, <1>3, <1>4

LEMMA DeductedTypes ==
  ASSUME HeapTypes, SomeRoutine, NEW t \in HeapThreads, Deducted(t)
  PROVE  NextTypes
<1>1. PICK n \in Int : n = job[t].bytes
  BY DeductedDoes
<1>2. curalloca' \in [HeapThreads -> Int]
  BY <1>1, DeductedDoes DEF HeapTypes
<1>3. mem' \in [HeapThreads -> [Routines -> HeapKeys]]
  BY <1>1, DeductedDoes, CountedTypes DEF HeapTypes
<1>4. hits' \in [Kinds -> [HeapThreads -> [0..Ranges -> Int]]]
  <2>1. HeapPut(t, n, "free")
    BY <1>1, DeductedDoes
  <2>2. hits' = hits \/ HitAt(t, RangeOf(n), "free")
    BY <2>1, PutHits
  <2> QED
    BY <2>2 DEF HitAt, HeapTypes
<1>5. job' \in [HeapThreads -> {NoJob} \cup MakingJobs \cup FreeJobs \cup FreedJobs]
  BY DeductedDoes DEF HeapTypes
<1>6. UNCHANGED <<block, maxcurheapa, lock, stack, warned, overran, peak>>
  BY DeductedDoes
<1> QED
  BY <1>2, <1>3, <1>4, <1>5, <1>6 DEF NextTypes, HeapTypes, SomeRoutine

LEMMA WriteDoes ==
  ASSUME HeapTypes, NEW b \in Blocks, Write(b)
  PROVE  /\ block[b].alive /\ Refilled(b, "written", "written") /\ "written" \in Words
         /\ UNCHANGED <<curalloca, maxcurheapa, lock, hits, mem, stack, job, warned, overran, peak>>
<1>1. block' = [block EXCEPT ![b].data = "written", ![b].expected = "written"]
  BY DEF Write
<1>2. Refilled(b, "written", "written")
  BY <1>1 DEF Refilled, HeapTypes
<1> QED
  BY <1>2 DEF Write, Words, heap_and_jobs

LEMMA OverrunDoes ==
  ASSUME HeapTypes, NEW b \in Blocks, Overrun(b)
  PROVE  /\ block[b].alive /\ block' \in [Blocks -> {Nothing} \cup HeapBlock]
         /\ \A c \in Blocks : SameSize(c)
         /\ overran' = TRUE
         /\ UNCHANGED <<curalloca, maxcurheapa, lock, hits, mem, stack, job, warned, peak>>
<1>1. block[b].alive
  BY DEF Overrun
<1>2. block[b] \in HeapBlock
  BY <1>1, BlockShapes
<1>3. PICK f : f = [block[b] EXCEPT !.guard = FALSE]
  OBVIOUS
<1>4. f \in HeapBlock
  BY <1>2, <1>3 DEF HeapBlock
<1>5. f.size = block[b].size /\ f.stored = block[b].stored /\ f.bytes = block[b].bytes
  BY <1>2, <1>3 DEF HeapBlock
<1>6. f.alive = block[b].alive
  BY <1>2, <1>3 DEF HeapBlock
<1>7. block' = [block EXCEPT ![b] = f]
  BY <1>3 DEF Overrun, HeapTypes
<1>8. block' \in [Blocks -> {Nothing} \cup HeapBlock]
  BY <1>4, <1>7 DEF HeapTypes
<1>9. \A c \in Blocks : block'[c] = IF c = b THEN f ELSE block[c]
  BY <1>7 DEF HeapTypes
<1>10. \A c \in Blocks : SameSize(c)
  BY <1>5, <1>6, <1>9, Zenon DEF SameSize
<1>11. overran' = TRUE /\ UNCHANGED <<curalloca, maxcurheapa, lock, hits, mem, stack, job, warned, peak>>
  BY DEF Overrun, heap_and_jobs
<1> QED
  BY <1>1, <1>8, <1>10, <1>11

LEMMA WriteTypes ==
  ASSUME HeapTypes, SomeRoutine, NEW b \in Blocks, Write(b) \/ Overrun(b)
  PROVE  NextTypes
<1>1. CASE Write(b)
  <2>1. block' \in [Blocks -> {Nothing} \cup HeapBlock]
    BY <1>1, WriteDoes, RefilledTypes
  <2>2. UNCHANGED <<curalloca, maxcurheapa, lock, hits, mem, stack, job, warned, overran, peak>>
    BY <1>1, WriteDoes
  <2> QED
    BY <2>1, <2>2 DEF NextTypes, HeapTypes, SomeRoutine
<1>2. CASE Overrun(b)
  <2>1. block' \in [Blocks -> {Nothing} \cup HeapBlock] /\ overran' \in BOOLEAN
    BY <1>2, OverrunDoes
  <2>2. UNCHANGED <<curalloca, maxcurheapa, lock, hits, mem, stack, job, warned, peak>>
    BY <1>2, OverrunDoes
  <2> QED
    BY <2>1, <2>2 DEF NextTypes, HeapTypes, SomeRoutine
<1> QED
  BY <1>1, <1>2

\* At the entry and the exit of a routine nothing is charged.
NothingCharged ==
  \A u \in HeapThreads : \A q \in Routines :
    /\ mem'[u][q].cur = mem[u][q].cur /\ mem'[u][q].maxself = mem[u][q].maxself
    /\ mem[u][q].maxall <= mem'[u][q].maxall

LEMMA SeenTypes ==
  ASSUME NEW k \in HeapKeys, NEW n \in Int
  PROVE  /\ [k EXCEPT !.seen = n] \in HeapKeys
         /\ [k EXCEPT !.seen = n].cur = k.cur /\ [k EXCEPT !.seen = n].maxself = k.maxself
         /\ [k EXCEPT !.seen = n].maxall = k.maxall /\ [k EXCEPT !.seen = n].child = k.child
BY DEF HeapKeys

LEMMA EnterDoes ==
  ASSUME HeapTypes, SomeRoutine, NEW t \in HeapThreads, NEW r \in Routines, Enter(t, r)
  PROVE  /\ mem' \in [HeapThreads -> [Routines -> HeapKeys]] /\ NothingCharged
         /\ stack' \in [HeapThreads -> Seq(Routines)] /\ \A u \in HeapThreads : stack'[u] # <<>>
         /\ UNCHANGED <<block, curalloca, maxcurheapa, lock, hits, job, warned, overran, peak>>
<1>1. mem \in [HeapThreads -> [Routines -> HeapKeys]] /\ mem[t][r] \in HeapKeys /\ maxcurheapa[t] \in Int
  BY DEF HeapTypes
<1>2. PICK k : k = [mem[t][r] EXCEPT !.seen = maxcurheapa[t]]
  OBVIOUS
<1>3. /\ k \in HeapKeys /\ k.cur = mem[t][r].cur /\ k.maxself = mem[t][r].maxself
      /\ k.maxall = mem[t][r].maxall
  BY <1>1, <1>2, SeenTypes
<1>4. mem' = mem \/ mem' = [mem EXCEPT ![t] = [mem[t] EXCEPT ![r] = k]]
  BY <1>1, <1>2 DEF Enter
<1>5. mem' \in [HeapThreads -> [Routines -> HeapKeys]]
  BY <1>1, <1>3, <1>4
<1>6. ASSUME NEW u \in HeapThreads, NEW q \in Routines
      PROVE  mem'[u][q] = mem[u][q] \/ (u = t /\ q = r /\ mem'[u][q] = k)
  BY <1>1, <1>4
<1>7. \A u \in HeapThreads : \A q \in Routines : mem[u][q].maxall \in Nat
  BY <1>1 DEF HeapKeys
<1>8. NothingCharged
  BY <1>3, <1>6, <1>7 DEF NothingCharged
<1>9. PICK s : s = Append(stack[t], r)
  OBVIOUS
<1>10. s \in Seq(Routines) /\ s # <<>>
  <2>1. stack[t] \in Seq(Routines)
    BY TopIsRoutine
  <2>2. s \in Seq(Routines) /\ Len(s) = Len(stack[t]) + 1
    BY <2>1, <1>9
  <2>3. Len(stack[t]) \in Nat
    BY <2>1
  <2>4. Len(s) # 0
    BY <2>2, <2>3
  <2> QED
    BY <2>2, <2>4
<1>11. stack' = [stack EXCEPT ![t] = s]
  BY <1>9 DEF Enter
<1>12. stack' \in [HeapThreads -> Seq(Routines)]
  BY <1>10, <1>11 DEF HeapTypes
<1>13. ASSUME NEW u \in HeapThreads
       PROVE  stack'[u] # <<>>
  BY <1>10, <1>11 DEF HeapTypes, SomeRoutine
<1>14. UNCHANGED <<block, curalloca, maxcurheapa, lock, hits, job, warned, overran, peak>>
  BY DEF Enter, heap_and_jobs
<1> QED
  BY <1>5, <1>8, <1>12, <1>13, <1>14

\* The key of the routine left, and that of its caller.
LEMMA LeftKey ==
  ASSUME NEW k \in HeapKeys, NEW n \in Int
  PROVE  /\ AtExit(k) \in Nat /\ k.maxall <= AtExit(k)
         /\ [k EXCEPT !.maxall = AtExit(k), !.seen = n] \in HeapKeys
         /\ [k EXCEPT !.maxall = AtExit(k), !.seen = n].cur = k.cur
         /\ [k EXCEPT !.maxall = AtExit(k), !.seen = n].maxself = k.maxself
         /\ [k EXCEPT !.maxall = AtExit(k), !.seen = n].maxall = AtExit(k)
<1>1. k.maxall \in Nat /\ k.cur \in Int /\ k.child \in Nat
  BY DEF HeapKeys
<1>2. PICK x \in Nat : x = AtExit(k) /\ k.maxall <= x
  BY <1>1 DEF AtExit, Larger
<1>3. PICK f : f = [k EXCEPT !.maxall = x]
  OBVIOUS
<1>4. f \in HeapKeys /\ f.cur = k.cur /\ f.maxself = k.maxself /\ f.maxall = x
  BY <1>3 DEF HeapKeys
<1>5. PICK g : g = [f EXCEPT !.seen = n]
  OBVIOUS
<1>6. g \in HeapKeys /\ g.cur = f.cur /\ g.maxself = f.maxself /\ g.maxall = f.maxall
  BY <1>4, <1>5, SeenTypes
<1>7. g = [k EXCEPT !.maxall = AtExit(k), !.seen = n]
  BY <1>2, <1>3, <1>5
<1> QED
  BY <1>2, <1>4, <1>6, <1>7

LEMMA CallerKey ==
  ASSUME NEW k \in HeapKeys, NEW n \in Nat
  PROVE  /\ [k EXCEPT !.child = n] \in HeapKeys /\ [k EXCEPT !.child = n].cur = k.cur
         /\ [k EXCEPT !.child = n].maxself = k.maxself /\ [k EXCEPT !.child = n].maxall = k.maxall
BY DEF HeapKeys

LEMMA LeaveDoes ==
  ASSUME HeapTypes, SomeRoutine, NEW t \in HeapThreads, Leave(t)
  PROVE  /\ mem' \in [HeapThreads -> [Routines -> HeapKeys]] /\ NothingCharged
         /\ stack' \in [HeapThreads -> Seq(Routines)] /\ \A u \in HeapThreads : stack'[u] # <<>>
         /\ UNCHANGED <<block, curalloca, maxcurheapa, lock, hits, job, warned, overran, peak>>
<1>1. /\ stack[t] \in Seq(Routines) /\ Len(stack[t]) > 1 /\ Len(stack[t]) \in Nat
      /\ Top(t) \in Routines /\ stack[t][Len(stack[t]) - 1] \in Routines
  BY TopIsRoutine DEF Leave
<1>2. PICK top \in Routines, caller \in Routines :
        top = Top(t) /\ caller = stack[t][Len(stack[t]) - 1]
  BY <1>1
<1>3. /\ mem \in [HeapThreads -> [Routines -> HeapKeys]] /\ mem[t][top] \in HeapKeys /\ maxcurheapa[t] \in Int
      /\ mem[t] \in [Routines -> HeapKeys]
  BY DEF HeapTypes
<1>4. PICK x \in Nat : x = AtExit(mem[t][top])
  BY <1>3, LeftKey
<1>5. PICK g : g = [mem[t][top] EXCEPT !.maxall = x, !.seen = maxcurheapa[t]]
  OBVIOUS
<1>6. /\ g \in HeapKeys /\ g.cur = mem[t][top].cur /\ g.maxself = mem[t][top].maxself
      /\ mem[t][top].maxall <= g.maxall
  <2>1. PICK k \in HeapKeys, n \in Int : k = mem[t][top] /\ n = maxcurheapa[t]
    BY <1>3
  <2>2. g = [k EXCEPT !.maxall = AtExit(k), !.seen = n]
    BY <2>1, <1>4, <1>5
  <2>3. /\ g \in HeapKeys /\ g.cur = k.cur /\ g.maxself = k.maxself
        /\ k.maxall <= AtExit(k) /\ g.maxall = AtExit(k)
    BY ONLY <2>1, <2>2, LeftKey, k \in HeapKeys, n \in Int
  <2> QED
    BY <2>1, <2>3
<1>7. PICK row \in [Routines -> HeapKeys] : row = [mem[t] EXCEPT ![top] = g]
  BY <1>3, <1>6
<1>8. row[caller] \in HeapKeys /\ row[caller].child \in Nat
  BY <1>7 DEF HeapKeys
<1>9. PICK y \in Nat : y = Larger(row[caller].child, x)
  BY <1>8 DEF Larger
<1>10. PICK h : h = [row[caller] EXCEPT !.child = y]
  OBVIOUS
<1>11. /\ h \in HeapKeys /\ h.cur = row[caller].cur /\ h.maxself = row[caller].maxself
       /\ h.maxall = row[caller].maxall
  BY <1>8, <1>10, CallerKey
<1>12. PICK last \in [Routines -> HeapKeys] : last = [row EXCEPT ![caller] = h]
  BY <1>7, <1>11
<1>13. ~MemProf => mem' = mem
  BY DEF Leave
<1>14. ASSUME MemProf
       PROVE  mem' = [mem EXCEPT ![t] = last]
  <2>1. mem' = [mem EXCEPT ![t][top].maxall = AtExit(mem[t][top]), ![t][top].seen = maxcurheapa[t],
                           ![t][caller].child = Larger(@, AtExit(mem[t][top]))]
    BY <1>14, <1>2 DEF Leave
  <2>2. mem' = [mem EXCEPT ![t][top].maxall = x, ![t][top].seen = maxcurheapa[t],
                           ![t][caller].child = Larger(@, x)]
    BY <2>1, <1>4
  <2>3. PICK m1 : m1 = [mem EXCEPT ![t][top].maxall = x, ![t][top].seen = maxcurheapa[t]]
    OBVIOUS
  <2>4. m1 = [mem EXCEPT ![t] = row]
    BY <2>3, <1>5, <1>7, <1>3
  <2>5. mem' = [m1 EXCEPT ![t][caller].child = Larger(@, x)]
    BY <2>2, <2>3
  <2>6. m1[t] = row /\ DOMAIN m1 = HeapThreads
    BY <2>4, <1>3
  <2>7. mem' = [m1 EXCEPT ![t] = [row EXCEPT ![caller] = [row[caller] EXCEPT !.child = Larger(row[caller].child, x)]]]
    BY <2>5, <2>6, <1>8, <1>7, <1>2 DEF HeapKeys
  <2>8. mem' = [m1 EXCEPT ![t] = last]
    BY <2>7, <1>9, <1>10, <1>12
  <2> QED
    BY <2>4, <2>8, <1>3
<1>15. mem' \in [HeapThreads -> [Routines -> HeapKeys]]
  BY <1>3, <1>12, <1>13, <1>14
<1>16. ASSUME NEW q \in Routines
       PROVE  /\ last[q].cur = mem[t][q].cur /\ last[q].maxself = mem[t][q].maxself
              /\ mem[t][q].maxall <= last[q].maxall
  <2>1. /\ row[q].cur = mem[t][q].cur /\ row[q].maxself = mem[t][q].maxself
        /\ mem[t][q].maxall <= row[q].maxall
    <3>1. mem[t][q].maxall \in Nat
      BY <1>3 DEF HeapKeys
    <3> QED
      BY <3>1, <1>3, <1>6, <1>7
  <2>2. last[q].cur = row[q].cur /\ last[q].maxself = row[q].maxself /\ last[q].maxall = row[q].maxall
    BY <1>11, <1>12
  <2> QED
    BY <2>1, <2>2
<1>17. NothingCharged
  <2>1. \A u \in HeapThreads : \A q \in Routines : mem[u][q].maxall \in Nat
    BY <1>3 DEF HeapKeys
  <2>2. \A u \in HeapThreads : mem'[u] = mem[u] \/ (u = t /\ mem'[u] = last)
    BY <1>3, <1>13, <1>14
  <2> QED
    BY <2>1, <2>2, <1>16 DEF NothingCharged
<1>18. PICK s : s = SubSeq(stack[t], 1, Len(stack[t]) - 1)
  OBVIOUS
<1>19. s \in Seq(Routines) /\ s # <<>>
  <2>1. s \in Seq(Routines) /\ Len(s) = Len(stack[t]) - 1
    BY <1>1, <1>18, SubSeqProperties
  <2> QED
    BY <2>1, <1>1
<1>20. stack' = [stack EXCEPT ![t] = s]
  BY <1>18 DEF Leave, HeapTypes
<1>21. stack' \in [HeapThreads -> Seq(Routines)] /\ \A u \in HeapThreads : stack'[u] # <<>>
  BY <1>19, <1>20 DEF HeapTypes, SomeRoutine
<1>22. UNCHANGED <<block, curalloca, maxcurheapa, lock, hits, job, warned, overran, peak>>
  BY DEF Leave, heap_and_jobs
<1> QED
  BY <1>15, <1>17, <1>21, <1>22

\* The types and what else is needed to follow the calls are kept.
LEMMA TypesStep ==
  ASSUME HeapTypes, SomeRoutine, SizesInv, JobsInv, build' = build, ops' \in 0..MaxOps,
         NEW t \in HeapThreads, HeapStep(t)
  PROVE  HeapTypes' /\ SomeRoutine' /\ NextTypes
<1>1. NextTypes
  <2>1. ASSUME NEW b \in Blocks, NEW size \in Sizes, NEW from \in Blocks \cup {"none"},
               Starts(t, b, size, from)
        PROVE  NextTypes
    BY <2>1, StartTypes
  <2>2. CASE LockForMalloc(t)
    BY <2>2, LockTypes
  <2>3. CASE CountedIn(t)
    BY <2>3, CountTypes
  <2>4. CASE Allocated(t)
    BY <2>4, AllocatedTypes
  <2>5. CASE Freed(t)
    BY <2>5, FreedTypes
  <2>6. CASE Deducted(t)
    BY <2>6, DeductedTypes
  <2>7. ASSUME NEW b \in Blocks, Free(t, b)
        PROVE  NextTypes
    BY <2>7, FreeTypes
  <2>8. ASSUME NEW b \in Blocks, Write(b) \/ Overrun(b)
        PROVE  NextTypes
    BY <2>8, WriteTypes
  <2>9. ASSUME NEW r \in Routines, Enter(t, r)
        PROVE  NextTypes
    BY <2>9, EnterDoes DEF NextTypes, HeapTypes
  <2>10. CASE Leave(t)
    BY <2>10, LeaveDoes DEF NextTypes, HeapTypes
  <2>11. CASE Rests
    BY <2>11 DEF Rests, NextTypes, HeapTypes, SomeRoutine
  <2> QED
    BY <2>1, <2>2, <2>3, <2>4, <2>5, <2>6, <2>7, <2>8, <2>9, <2>10, <2>11 DEF HeapStep
<1> QED
  BY <1>1, TypesNext

(* ------------------------ calls in progress, blocks ---------------------- *)
\* A call that starts, and one that goes on, in full.
LEMMA StartsBlock ==
  ASSUME HeapTypes, SomeRoutine, NEW t \in HeapThreads, NEW b \in Blocks, NEW size \in Sizes,
         NEW from, Starts(t, b, size, from)
  PROVE  /\ Header(size, <<t, Top(t)>>) \in HeapBlock
         /\ block' = [block EXCEPT ![b] = Header(size, <<t, Top(t)>>)]
<1>1. <<t, Top(t)>> \in HeapThreads \X Routines
  BY TopIsRoutine
<1>2. Header(size, <<t, Top(t)>>) \in HeapBlock
  BY <1>1, HeaderIsBlock DEF HeapTypes
<1> QED
  BY <1>2 DEF Starts, Begin

GoesTo(t, at) == job' = [job EXCEPT ![t] = [job[t] EXCEPT !.at = at]]
LEMMA LockDoes ==
  ASSUME HeapTypes, NEW t \in HeapThreads, LockForMalloc(t)
  PROVE  /\ Making(t) /\ job[t].at = "malloc" /\ GoesTo(t, "locked")
         /\ UNCHANGED <<block, curalloca, maxcurheapa, hits, mem, stack, warned, overran, peak>>
BY DEF LockForMalloc, GoesTo, Making, HeapTypes

LEMMA CountDoes ==
  ASSUME HeapTypes, SomeRoutine, SizesInv, JobsInv, NEW t \in HeapThreads, CountedIn(t)
  PROVE  /\ Making(t) /\ job[t].at = "locked" /\ GoesTo(t, "counted")
         /\ block[job[t].b].bytes \in Int
         /\ curalloca' = [curalloca EXCEPT ![t] = @ + block[job[t].b].bytes]
         /\ maxcurheapa' = [maxcurheapa EXCEPT ![t] = Larger(@, curalloca[t] + block[job[t].b].bytes)]
         /\ peak' = Larger(peak, SumFunction(curalloca) + block[job[t].b].bytes)
         /\ IF MemTrace THEN Top(t) \in Routines /\ CountedAt(t, Top(t), block[job[t].b].bytes)
            ELSE mem' = mem
         /\ UNCHANGED <<block, lock, hits, stack, warned, overran>>
<1>1. Making(t) /\ job[t].at = "locked"
  BY DEF CountedIn, Making
<1>2. block[job[t].b].bytes \in Int
  BY <1>1, MadeBlock
<1>3. /\ curalloca' = [curalloca EXCEPT ![t] = @ + block[job[t].b].bytes]
      /\ maxcurheapa' = [maxcurheapa EXCEPT ![t] = Larger(@, curalloca[t] + block[job[t].b].bytes)]
      /\ peak' = Larger(peak, SumFunction(curalloca) + block[job[t].b].bytes)
      /\ IF MemTrace THEN MemCounter(t, block[job[t].b].bytes, 0) ELSE mem' = mem
      /\ UNCHANGED <<block, lock, hits, stack, warned, overran>>
  BY DEF CountedIn
<1>4. GoesTo(t, "counted")
  BY DEF CountedIn, GoesTo, HeapTypes
<1>5. IF MemTrace THEN Top(t) \in Routines /\ CountedAt(t, Top(t), block[job[t].b].bytes)
      ELSE mem' = mem
  BY <1>3, CounterCharges
<1> QED
  BY <1>1, <1>2, <1>3, <1>4, <1>5

LEMMA GoesOnHeld ==
  ASSUME HeapTypes, NEW t \in HeapThreads, Making(t), NEW at \in {"locked", "counted"}, GoesTo(t, at)
  PROVE  /\ job'[t].at = at /\ job'[t].b = job[t].b /\ job'[t].from = job[t].from
         /\ Making(t)' /\ Held(t)' = Held(t)
         /\ \A u \in HeapThreads : u # t => job'[u] = job[u]
<1>1. job[t] \in MakingJobs
  BY JobShapes
<1>2. PICK j : j = [job[t] EXCEPT !.at = at]
  OBVIOUS
<1>3. j.at = at /\ j.b = job[t].b /\ j.from = job[t].from
  BY <1>1, <1>2 DEF MakingJobs
<1>4. job' = [job EXCEPT ![t] = j]
  BY <1>2 DEF GoesTo
<1>5. job'[t] = j /\ \A u \in HeapThreads : u # t => job'[u] = job[u]
  BY <1>4 DEF HeapTypes
<1> QED
  BY <1>3, <1>5 DEF Making, Held

\* The blocks of a call in progress are in use.
LEMMA NotInUse ==
  ASSUME HeapTypes, NEW b \in Blocks, ~InUse(b), NEW u \in HeapThreads
  PROVE  b \notin Held(u)
<1>1. CASE Making(u)
  <2>1. job[u] # NoJob /\ job[u].at # "freed" /\ job[u].at # "free"
    BY <1>1 DEF Making, NoJob
  <2>2. job[u].b # b /\ job[u].from # b
    BY <2>1 DEF InUse
  <2> QED
    BY <1>1, <2>2 DEF Held
<1>2. CASE ~Making(u) /\ job[u].at = "free"
  <2>1. job[u] # NoJob /\ job[u].at # "freed"
    BY <1>2 DEF NoJob
  <2>2. job[u].b # b
    BY <2>1 DEF InUse
  <2> QED
    BY <1>2, <2>2 DEF Held
<1>3. CASE ~Making(u) /\ job[u].at # "free"
  BY <1>3 DEF Held
<1> QED
  BY <1>1, <1>2, <1>3

LEMMA HeldBlocks ==
  ASSUME HeapTypes, NEW u \in HeapThreads
  PROVE  Held(u) \subseteq Blocks
<1>1. CASE Making(u)
  BY <1>1, JobShapes DEF Held
<1>2. CASE ~Making(u) /\ job[u].at = "free"
  BY <1>2, JobShapes DEF Held
<1>3. CASE ~Making(u) /\ job[u].at # "free"
  BY <1>3 DEF Held
<1> QED
  BY <1>1, <1>2, <1>3

\* One call takes other blocks, none of which another call has.
LEMMA JobsNext ==
  ASSUME build' = build, JobsInv, NEW t \in HeapThreads,
         \A u \in HeapThreads : u # t => job'[u] = job[u],
         \A b \in Held(t)' : block'[b].alive,
         \A u \in HeapThreads : u # t => \A b \in Held(u) : b \notin Held(t)' /\ block'[b].alive,
         Making(t)' => job'[t].from # job'[t].b
  PROVE  JobsInv'
<1>1. HeapThreads' = HeapThreads
  BY DEF HeapThreads
<1>2. ASSUME NEW u \in HeapThreads, u # t
      PROVE  Held(u)' = Held(u) /\ Making(u)' = Making(u) /\ job'[u] = job[u]
  BY <1>2 DEF Held, Making
<1>3. \A u \in HeapThreads : \A b \in Held(u)' : block'[b].alive
  BY <1>2
<1>4. \A u \in HeapThreads : Making(u)' => job'[u].from # job'[u].b
  BY <1>2 DEF JobsInv
<1>5. ASSUME NEW u \in HeapThreads, NEW v \in HeapThreads, u # v
      PROVE  Held(u)' \cap Held(v)' = {}
  <2>1. CASE u = t
    BY <1>5, <1>2, <2>1
  <2>2. CASE v = t
    BY <1>5, <1>2, <2>2
  <2>3. CASE u # t /\ v # t
    BY <1>5, <1>2, <2>3 DEF JobsInv
  <2> QED
    BY <2>1, <2>2, <2>3
<1> QED
  BY <1>1, <1>3, <1>4, <1>5 DEF JobsInv

LEMMA NothingIsNot ==
  ~Nothing.alive
BY DEF Nothing

LEMMA JobsStep ==
  ASSUME HeapTypes, SomeRoutine, SizesInv, JobsInv, build' = build,
         NEW t \in HeapThreads, HeapStep(t)
  PROVE  JobsInv'
<1>a. "none" \notin Blocks
  BY HeapAssumption
<1>b. \A u \in HeapThreads : Held(u) \subseteq Blocks /\ \A b \in Held(u) : block[b].alive
  BY HeldBlocks DEF JobsInv
<1>c. \A u \in HeapThreads : u # t => \A b \in Held(u) : b \notin Held(t)
  BY DEF JobsInv
<1>1. ASSUME NEW b \in Blocks, NEW size \in Sizes, NEW from \in Blocks \cup {"none"},
             Starts(t, b, size, from)
      PROVE  JobsInv'
  <2>1. PICK h \in HeapBlock : block' = [block EXCEPT ![b] = h]
    BY <1>1, StartsBlock
  <2>2. h.alive
    BY DEF HeapBlock
  <2>3. /\ ~block[b].alive /\ (from # "none" => block[from].alive /\ ~InUse(from))
        /\ job' = [job EXCEPT ![t] = [at |-> "malloc", b |-> b, from |-> from]]
    BY <1>1 DEF Starts, Begin
  <2>4. /\ job'[t] = [at |-> "malloc", b |-> b, from |-> from]
        /\ \A u \in HeapThreads : u # t => job'[u] = job[u]
    BY <2>3 DEF HeapTypes
  <2>5. job'[t].at = "malloc" /\ job'[t].b = b /\ job'[t].from = from
    BY <2>4
  <2>6. Held(t)' = {b} \cup ({from} \ {"none"})
    BY <2>5 DEF Held, Making
  <2>7. \A c \in Blocks : block[c].alive => c # b /\ block'[c].alive
    BY <2>1, <2>3 DEF HeapTypes
  <2>8. block'[b].alive
    BY <2>1, <2>2 DEF HeapTypes
  <2>9. \A c \in Held(t)' : block'[c].alive
    BY <2>3, <2>6, <2>7, <2>8
  <2>10. ASSUME NEW u \in HeapThreads, u # t, NEW c \in Held(u)
         PROVE  c \notin Held(t)' /\ block'[c].alive
    <3>1. block[c].alive /\ c \in Blocks
      BY <1>b
    <3>2. c # b /\ block'[c].alive
      BY <3>1, <2>7
    <3>3. from # "none" => c # from
      BY <2>3, NotInUse
    <3> QED
      BY <3>2, <3>3, <2>6
  <2>11. job'[t].from # job'[t].b
    BY <2>3, <2>5, <1>a
  <2> QED
    BY <2>4, <2>9, <2>10, <2>11, JobsNext
<1>2. ASSUME Making(t), block' = block, NEW at \in {"locked", "counted"}, GoesTo(t, at)
      PROVE  JobsInv'
  <2>1. /\ Making(t)' /\ Held(t)' = Held(t) /\ job'[t].from = job[t].from /\ job'[t].b = job[t].b
        /\ \A u \in HeapThreads : u # t => job'[u] = job[u]
    BY <1>2, GoesOnHeld
  <2>2. job'[t].from # job'[t].b
    BY <1>2, <2>1 DEF JobsInv
  <2> QED
    BY <2>1, <2>2, <1>2, <1>b, <1>c, JobsNext
<1>3. CASE LockForMalloc(t)
  <2>1. Making(t) /\ block' = block /\ GoesTo(t, "locked")
    BY <1>3, LockDoes
  <2> QED
    BY <2>1, <1>2
<1>4. CASE CountedIn(t)
  <2>1. Making(t) /\ block' = block /\ GoesTo(t, "counted")
    BY <1>4, CountDoes
  <2> QED
    BY <2>1, <1>2
<1>5. CASE Allocated(t)
  <2>1. /\ Making(t) /\ job[t].b \in Blocks
        /\ \/ job[t].from = "none" /\ EndsMalloc(t)
           \/ /\ job[t].from \in Blocks /\ job[t].from # "none" /\ block[job[t].from].alive
              /\ EndsRealloc(t, job[t].b, job[t].from)
    BY <1>5, AllocatedDoes
  <2>2. \A u \in HeapThreads : u # t => job'[u] = job[u]
    BY <2>1 DEF EndsMalloc, EndsRealloc, HeapTypes
  <2>3. \A c \in Blocks : block'[c].alive = block[c].alive
    BY <1>5, AllocatedDoes, RefilledTypes DEF EndsMalloc, EndsRealloc, SameSize
  <2>4. Held(t)' \subseteq Held(t) /\ ~Making(t)'
    <3>1. CASE job[t].from = "none" /\ EndsMalloc(t)
      <4>1. job'[t] = NoJob
        BY <3>1 DEF EndsMalloc, HeapTypes
      <4> QED
        BY <4>1 DEF Held, Making, NoJob
    <3>2. CASE job[t].from \in Blocks /\ job[t].from # "none" /\ EndsRealloc(t, job[t].b, job[t].from)
      <4>1. job'[t] = [at |-> "free", b |-> job[t].from]
        BY <3>2 DEF EndsRealloc, HeapTypes
      <4>2. job'[t].at = "free" /\ job'[t].b = job[t].from
        BY <4>1
      <4>3. Held(t)' = {job[t].from} /\ ~Making(t)'
        BY <4>2 DEF Held, Making
      <4>4. job[t].from \in Held(t)
        BY <2>1, <3>2 DEF Held
      <4> QED
        BY <4>3, <4>4
    <3> QED
      BY <2>1, <3>1, <3>2
  <2> QED
    BY <2>2, <2>3, <2>4, <1>b, <1>c, JobsNext
<1>6. CASE Freed(t)
  <2>1. /\ job[t].b \in Blocks /\ Held(t) = {job[t].b} /\ block' = [block EXCEPT ![job[t].b] = Nothing]
        /\ job' = [job EXCEPT ![t] = [at |-> "freed", key |-> 0,
                                      bytes |-> -TrueBytes(block[job[t].b].stored)]]
    BY <1>6, FreedDoes
  <2>2. /\ job'[t].at = "freed"
        /\ \A u \in HeapThreads : u # t => job'[u] = job[u]
    BY <2>1 DEF HeapTypes
  <2>3. Held(t)' = {} /\ ~Making(t)'
    BY <2>2 DEF Held, Making
  <2>4. \A c \in Blocks : c # job[t].b => block'[c] = block[c]
    BY <2>1 DEF HeapTypes
  <2>5. ASSUME NEW u \in HeapThreads, u # t, NEW c \in Held(u)
        PROVE  block'[c].alive
    BY <2>1, <2>4, <2>5, <1>b, <1>c
  <2> QED
    BY <2>2, <2>3, <2>5, JobsNext
<1>7. CASE Deducted(t)
  <2>1. block' = block /\ job' = [job EXCEPT ![t] = NoJob]
    BY <1>7, DeductedDoes
  <2>2. job'[t] = NoJob /\ \A u \in HeapThreads : u # t => job'[u] = job[u]
    BY <2>1 DEF HeapTypes
  <2>3. Held(t)' = {} /\ ~Making(t)'
    BY <2>2 DEF Held, Making, NoJob
  <2> QED
    BY <2>1, <2>2, <2>3, <1>b, JobsNext
<1>8. ASSUME NEW b \in Blocks, ~InUse(b), Free(t, b)
      PROVE  JobsInv'
  <2>1. block' = block /\ job' = [job EXCEPT ![t] = [at |-> "free", b |-> b]] /\ block[b].alive
    BY <1>8 DEF Free
  <2>2. job'[t] = [at |-> "free", b |-> b] /\ \A u \in HeapThreads : u # t => job'[u] = job[u]
    BY <2>1 DEF HeapTypes
  <2>3. job'[t].at = "free" /\ job'[t].b = b
    BY <2>2
  <2>4. Held(t)' = {b} /\ ~Making(t)'
    BY <2>3 DEF Held, Making
  <2>5. \A u \in HeapThreads : b \notin Held(u)
    BY <1>8, NotInUse
  <2> QED
    BY <2>1, <2>2, <2>4, <2>5, <1>b, JobsNext
<1>9. ASSUME job' = job, \A c \in Blocks : block'[c].alive = block[c].alive
      PROVE  JobsInv'
  <2>1. Held(t)' = Held(t) /\ Making(t)' = Making(t)
    BY <1>9 DEF Held, Making
  <2>2. \A c \in Held(t)' : block'[c].alive
    BY <2>1, <1>9, <1>b
  <2>3. \A u \in HeapThreads : u # t => \A c \in Held(u) : c \notin Held(t)' /\ block'[c].alive
    BY <2>1, <1>9, <1>b, <1>c
  <2>4. Making(t)' => job'[t].from # job'[t].b
    BY <2>1, <1>9 DEF JobsInv
  <2> QED
    BY <2>2, <2>3, <2>4, <1>9, JobsNext
<1>10. ASSUME NEW b \in Blocks, Write(b) \/ Overrun(b)
       PROVE  JobsInv'
  <2>1. job' = job /\ \A c \in Blocks : block'[c].alive = block[c].alive
    BY <1>10, WriteDoes, OverrunDoes, RefilledTypes DEF SameSize
  <2> QED
    BY <2>1, <1>9
<1>11. ASSUME NEW r \in Routines, Enter(t, r)
       PROVE  JobsInv'
  BY <1>11, <1>9, EnterDoes
<1>12. CASE Leave(t)
  BY <1>12, <1>9, LeaveDoes
<1>13. CASE Rests
  BY <1>13, <1>9 DEF Rests
<1> QED
  BY <1>1, <1>3, <1>4, <1>5, <1>6, <1>7, <1>8, <1>10, <1>11, <1>12, <1>13 DEF HeapStep

(* ------------------- sizes, the word after a block, warnings ------------- *)
\* What a step may do to the blocks: make one, free one, or leave their sizes.
BlockMade(b, size) ==
  /\ ~block[b].alive /\ block'[b].alive
  /\ block'[b].size = size /\ block'[b].stored = StoredSize(size)
  /\ block'[b].bytes = TrueBytes(Adjusted(size)) /\ block'[b].guard = NansFill
OthersSame(b) == \A c \in Blocks : c # b => block'[c] = block[c]

LEMMA HeaderFields ==
  ASSUME NEW size, NEW by
  PROVE  /\ Header(size, by).alive /\ Header(size, by).size = size
         /\ Header(size, by).stored = StoredSize(size)
         /\ Header(size, by).bytes = TrueBytes(Adjusted(size))
         /\ Header(size, by).guard = NansFill
BY Zenon DEF Header

LEMMA StartMakes ==
  ASSUME HeapTypes, SomeRoutine, NEW t \in HeapThreads, NEW b \in Blocks, NEW size \in Sizes,
         NEW from, Starts(t, b, size, from)
  PROVE  BlockMade(b, size) /\ OthersSame(b)
<1>1. PICK h : h = Header(size, <<t, Top(t)>>)
  OBVIOUS
<1>2. block' = [block EXCEPT ![b] = h] /\ ~block[b].alive
  BY <1>1, StartsBlock DEF Starts, Begin
<1>3. block'[b] = h /\ \A c \in Blocks : c # b => block'[c] = block[c]
  BY <1>2 DEF HeapTypes
<1>4. /\ h.alive /\ h.size = size /\ h.stored = StoredSize(size)
      /\ h.bytes = TrueBytes(Adjusted(size)) /\ h.guard = NansFill
  BY <1>1, HeaderFields
<1> QED
  BY <1>2, <1>3, <1>4, Zenon DEF BlockMade, OthersSame

\* The five cases of a step, seen from the blocks.
LEMMA BlocksStep ==
  ASSUME HeapTypes, SomeRoutine, SizesInv, JobsInv, NEW t \in HeapThreads, HeapStep(t)
  PROVE  \/ \E b \in Blocks, size \in Sizes : BlockMade(b, size) /\ OthersSame(b) /\ overran' = overran
         \/ \E b \in Blocks : ~block'[b].alive /\ OthersSame(b) /\ overran' = overran
         \/ /\ \A b \in Blocks : SameSize(b) /\ (block[b].alive => block'[b].guard = block[b].guard)
            /\ overran' = overran
         \/ (\A b \in Blocks : SameSize(b)) /\ overran' = TRUE
<1> DEFINE Goal ==
      \/ \E b \in Blocks, size \in Sizes : BlockMade(b, size) /\ OthersSame(b) /\ overran' = overran
      \/ \E b \in Blocks : ~block'[b].alive /\ OthersSame(b) /\ overran' = overran
      \/ /\ \A b \in Blocks : SameSize(b) /\ (block[b].alive => block'[b].guard = block[b].guard)
         /\ overran' = overran
      \/ (\A b \in Blocks : SameSize(b)) /\ overran' = TRUE
<1>1. ASSUME NEW b \in Blocks, NEW size \in Sizes, NEW from \in Blocks \cup {"none"},
             Starts(t, b, size, from)
      PROVE  Goal
  <2>1. overran' = overran
    BY <1>1 DEF Starts, Begin
  <2> QED
    BY <2>1, <1>1, StartMakes, Zenon
<1>2. ASSUME block' = block, overran' = overran
      PROVE  Goal
  BY <1>2 DEF SameSize
<1>3. CASE LockForMalloc(t)
  BY <1>3, <1>2, LockDoes
<1>4. CASE CountedIn(t)
  BY <1>4, <1>2, CountDoes
<1>5. CASE Allocated(t)
  <2>1. /\ job[t].b \in Blocks /\ block[job[t].b].alive /\ overran' = overran
        /\ \/ EndsMalloc(t)
           \/ /\ EndsRealloc(t, job[t].b, job[t].from)
              /\ CopiedFrom(job[t].from) \in Words /\ block[job[t].from].expected \in Words
    BY <1>5, AllocatedDoes
  <2>2. CASE EndsMalloc(t)
    BY <2>1, <2>2, <1>2 DEF EndsMalloc
  <2>3. CASE /\ EndsRealloc(t, job[t].b, job[t].from)
             /\ CopiedFrom(job[t].from) \in Words /\ block[job[t].from].expected \in Words
    <3>1. Refilled(job[t].b, CopiedFrom(job[t].from), block[job[t].from].expected)
      BY <2>3 DEF EndsRealloc
    <3>2. \A c \in Blocks : SameSize(c) /\ (block[c].alive => block'[c].guard = block[c].guard)
      BY <3>1, <2>1, <2>3, RefilledTypes
    <3> QED
      BY <3>2, <2>1
  <2> QED
    BY <2>1, <2>2, <2>3
<1>6. CASE Freed(t)
  <2>1. /\ job[t].b \in Blocks /\ block' = [block EXCEPT ![job[t].b] = Nothing] /\ overran' = overran
    BY <1>6, FreedDoes
  <2>2. OthersSame(job[t].b) /\ ~block'[job[t].b].alive
    BY <2>1, NothingIsNot DEF OthersSame, HeapTypes
  <2> QED
    BY <2>1, <2>2
<1>7. CASE Deducted(t)
  BY <1>7, <1>2, DeductedDoes
<1>8. ASSUME NEW b \in Blocks, Free(t, b)
      PROVE  Goal
  BY <1>8, <1>2 DEF Free
<1>9. ASSUME NEW b \in Blocks, Write(b)
      PROVE  Goal
  <2>1. \A c \in Blocks : SameSize(c) /\ (block[c].alive => block'[c].guard = block[c].guard)
    BY <1>9, WriteDoes, RefilledTypes
  <2>2. overran' = overran
    BY <1>9, WriteDoes
  <2> QED
    BY <2>1, <2>2
<1>10. ASSUME NEW b \in Blocks, Overrun(b)
       PROVE  Goal
  BY <1>10, OverrunDoes
<1>11. ASSUME NEW r \in Routines, Enter(t, r)
       PROVE  Goal
  BY <1>11, <1>2, EnterDoes
<1>12. CASE Leave(t)
  BY <1>12, <1>2, LeaveDoes
<1>13. CASE Rests
  BY <1>13, <1>2 DEF Rests
<1> QED
  BY <1>1, <1>3, <1>4, <1>5, <1>6, <1>7, <1>8, <1>9, <1>10, <1>11, <1>12, <1>13 DEF HeapStep

LEMMA SizesStep ==
  ASSUME HeapTypes, SomeRoutine, SizesInv, GuardsInv, JobsInv, build' = build,
         NEW t \in HeapThreads, HeapStep(t)
  PROVE  SizesInv' /\ GuardsInv'
<1>0. Sizes' = Sizes /\ NansFill' = NansFill /\ NecSx' = NecSx
  BY DEF Sizes, NansFill, NecSx
<1>s. \A size \in Sizes : StoredSize(size)' = StoredSize(size)
  BY <1>0 DEF StoredSize
<1> DEFINE Sized(b) == block'[b].alive =>
              /\ block'[b].size \in Sizes /\ block'[b].stored = StoredSize(block'[b].size)
              /\ block'[b].bytes = TrueBytes(Adjusted(block'[b].size))
           Guarded(b) == block'[b].alive /\ NansFill /\ ~block'[b].guard => overran'
<1>1. ASSUME NEW b \in Blocks, block'[b] = block[b], overran' = overran
      PROVE  Sized(b) /\ Guarded(b)
  BY <1>1 DEF SizesInv, GuardsInv
<1>2. ASSUME NEW b \in Blocks, NEW size \in Sizes, BlockMade(b, size)
      PROVE  Sized(b) /\ Guarded(b)
  BY <1>2 DEF BlockMade
<1>3. ASSUME NEW b \in Blocks, SameSize(b)
      PROVE  Sized(b)
  BY <1>3 DEF SizesInv, SameSize
<1>4. ASSUME NEW b \in Blocks, SameSize(b), block[b].alive => block'[b].guard = block[b].guard,
             overran' = overran
      PROVE  Guarded(b)
  BY <1>4 DEF GuardsInv, SameSize
<1>5. ASSUME NEW b \in Blocks
      PROVE  Sized(b) /\ Guarded(b)
  <2>1. CASE \E c \in Blocks, size \in Sizes : BlockMade(c, size) /\ OthersSame(c) /\ overran' = overran
    BY <2>1, <1>1, <1>2 DEF OthersSame
  <2>2. CASE \E c \in Blocks : ~block'[c].alive /\ OthersSame(c) /\ overran' = overran
    BY <2>2, <1>1 DEF OthersSame
  <2>3. CASE /\ \A c \in Blocks : SameSize(c) /\ (block[c].alive => block'[c].guard = block[c].guard)
             /\ overran' = overran
    BY <2>3, <1>3, <1>4
  <2>4. CASE (\A c \in Blocks : SameSize(c)) /\ overran' = TRUE
    BY <2>4, <1>3
  <2> QED
    BY <2>1, <2>2, <2>3, <2>4, BlocksStep
<1>6. SizesInv'
  <2>1. \A b \in Blocks : Sized(b)
    BY <1>5
  <2> QED
    BY <2>1, <1>0, <1>s DEF SizesInv, TrueBytes, Adjusted
<1>7. GuardsInv'
  <2>1. \A b \in Blocks : Guarded(b)
    BY <1>5
  <2> QED
    BY <2>1, <1>0 DEF GuardsInv
<1> QED
  BY <1>6, <1>7

\* Where the header keeps the size in words, the word looked at is the one after
\* the data.
LEMMA LastQuotient ==
  ASSUME NEW s \in Nat, NEW n \in Nat \ {0}
  PROVE  (((s + n) - 1) \div n) > ((s - 1) \div n) /\ ((((s + n) - 1) \div n) * n) \div n = ((s + n) - 1) \div n
<1>1. PICK a \in Nat : a = (s + n) - 1
  OBVIOUS
<1>2. ((a \div n) * n) \div n = a \div n
  BY Quotient
<1>3. PICK q \in Int : q = (s - 1) \div n
  OBVIOUS
<1>4. n * q <= s - 1 /\ s - 1 < n * q + n
  BY <1>3
<1>5. PICK p \in Int : p = a \div n
  OBVIOUS
<1>6. n * p <= a /\ a < n * p + n
  BY <1>5
<1>7. n * q < n * p
  BY <1>1, <1>4, <1>6
<1>8. q < p
  BY <1>7
<1> QED
  BY <1>1, <1>2, <1>3, <1>5, <1>8

LEMMA GuardAfterData ==
  ASSUME HeapTypes, SizesInv, HeadersTell, NEW b \in Blocks, block[b].alive
  PROVE  ~(GuardWord(b) <= LastWord(b))
<1>1. PICK s \in Nat, w \in Nat \ {0} : s = block[b].size /\ w = WordLen
  BY HeapAssumption, BlockShapes DEF HeapBlock
<1>2. block[b].stored = Adjusted(s)
  BY <1>1 DEF SizesInv, HeadersTell
<1>3. block[b].stored = (((s + w) - 1) \div w) * w
  BY <1>1, <1>2 DEF Adjusted, RoundUp
<1>4. GuardWord(b) = ((s + w) - 1) \div w /\ LastWord(b) = (s - 1) \div w
  BY <1>1, <1>3, LastQuotient DEF GuardWord, LastWord
<1>5. ((s + w) - 1) \div w \in Int /\ (s - 1) \div w \in Int
  OBVIOUS
<1>6. (((s + w) - 1) \div w) > ((s - 1) \div w)
  BY LastQuotient
<1> QED
  BY <1>4, <1>5, <1>6

LEMMA WarningStep ==
  ASSUME HeapTypes, SomeRoutine, SizesInv, GuardsInv, JobsInv, NoFalseWarning, build' = build,
         NEW t \in HeapThreads, HeapStep(t)
  PROVE  NoFalseWarning'
<1>0. HeadersTell' = HeadersTell
  BY DEF HeadersTell, Sizes, StoredSize, NecSx
<1>1. ASSUME warned' = warned, overran' = overran \/ overran' = TRUE
      PROVE  NoFalseWarning'
  BY <1>0, <1>1 DEF NoFalseWarning
<1>2. CASE Freed(t)
  <2>1. /\ job[t].b \in Blocks /\ block[job[t].b].alive /\ overran' = overran
        /\ warned' = (warned \/ GuardLost(job[t].b))
    BY <1>2, FreedDoes
  <2>2. ASSUME HeadersTell, GuardLost(job[t].b)
        PROVE  overran
    <3>1. ~(GuardWord(job[t].b) <= LastWord(job[t].b))
      BY <2>1, <2>2, GuardAfterData
    <3>2. NansFill /\ ~block[job[t].b].guard
      BY <2>2, <3>1 DEF GuardLost
    <3> QED
      BY <2>1, <3>2 DEF GuardsInv
  <2> QED
    BY <2>1, <2>2, <1>0 DEF NoFalseWarning
<1>3. ASSUME NEW b \in Blocks, NEW size \in Sizes, NEW from \in Blocks \cup {"none"},
             Starts(t, b, size, from)
      PROVE  NoFalseWarning'
  BY <1>1, <1>3 DEF Starts, Begin
<1>4. CASE LockForMalloc(t) \/ CountedIn(t) \/ Allocated(t) \/ Deducted(t)
  BY <1>4, <1>1 DEF LockForMalloc, CountedIn, Allocated, Deducted
<1>5. ASSUME NEW b \in Blocks, Free(t, b) \/ Write(b) \/ Overrun(b)
      PROVE  NoFalseWarning'
  BY <1>5, <1>1 DEF Free, Write, Overrun, heap_and_jobs
<1>6. ASSUME NEW r \in Routines, Enter(t, r)
      PROVE  NoFalseWarning'
  BY <1>6, <1>1, EnterDoes
<1>7. CASE Leave(t)
  BY <1>7, <1>1, LeaveDoes
<1>8. CASE Rests
  BY <1>8, <1>1 DEF Rests
<1> QED
  BY <1>2, <1>3, <1>4, <1>5, <1>6, <1>7, <1>8 DEF HeapStep

LEMMA OverrunStep ==
  ASSUME HeapTypes, SomeRoutine, SizesInv, JobsInv, NEW t \in HeapThreads, HeapStep(t)
  PROVE  OverrunReported
<1> SUFFICES ASSUME NEW b \in Blocks, HeadersTell, NansFill, block[b].alive, ~block[b].guard,
                    ~block'[b].alive
             PROVE  warned'
  BY DEF OverrunReported
<1>1. CASE Freed(t)
  <2>1. /\ job[t].b \in Blocks /\ block' = [block EXCEPT ![job[t].b] = Nothing]
        /\ warned' = (warned \/ GuardLost(job[t].b))
    BY <1>1, FreedDoes
  <2>2. b = job[t].b
    BY <2>1 DEF HeapTypes
  <2>3. GuardLost(b)
    BY GuardAfterData DEF GuardLost
  <2> QED
    BY <2>1, <2>2, <2>3
<1>2. ASSUME SameSize(b)
      PROVE  FALSE
  BY <1>2 DEF SameSize
<1>3. ASSUME NEW c \in Blocks, NEW size \in Sizes, NEW from \in Blocks \cup {"none"},
             Starts(t, c, size, from)
      PROVE  FALSE
  <2>1. BlockMade(c, size) /\ OthersSame(c)
    BY <1>3, StartMakes
  <2> QED
    BY <2>1 DEF BlockMade, OthersSame
<1>4. CASE LockForMalloc(t) \/ CountedIn(t) \/ Deducted(t)
  BY <1>4 DEF LockForMalloc, CountedIn, Deducted
<1>5. CASE Allocated(t)
  BY <1>5, <1>2, AllocatedDoes, RefilledTypes DEF EndsMalloc, EndsRealloc
<1>6. ASSUME NEW c \in Blocks, Free(t, c) \/ Write(c) \/ Overrun(c)
      PROVE  FALSE
  <2>1. CASE Free(t, c)
    BY <2>1 DEF Free
  <2>2. CASE Write(c)
    BY <2>2, <1>2, WriteDoes, RefilledTypes
  <2>3. CASE Overrun(c)
    BY <2>3, <1>2, OverrunDoes
  <2> QED
    BY <1>6, <2>1, <2>2, <2>3
<1>7. ASSUME NEW r \in Routines, Enter(t, r)
      PROVE  FALSE
  BY <1>7, EnterDoes
<1>8. CASE Leave(t)
  BY <1>8, LeaveDoes
<1>9. CASE Rests
  BY <1>9 DEF Rests
<1> QED
  BY <1>1, <1>3, <1>4, <1>5, <1>6, <1>7, <1>8, <1>9 DEF HeapStep

(* --------------------------------- sums ---------------------------------- *)
\* A sum over the threads, and one over the blocks, of which one term changes.
LEMMA SumOver ==
  ASSUME NEW S, IsFiniteSet(S), NEW f \in [S -> Int], NEW g \in [S -> Int],
         NEW t \in S, \A u \in S : u # t => g[u] = f[u]
  PROVE  /\ SumFunction(f) \in Int /\ SumFunction(g) \in Int
         /\ SumFunction(g) = (SumFunction(f) - f[t]) + g[t]
<1>1. DOMAIN f = S /\ DOMAIN g = S
  OBVIOUS
<1>2. Summable(f) /\ Summable(g)
  BY <1>1 DEF Summable
<1>3. SumFunction(g) = (SumFunction(f) - f[t]) + g[t]
  BY <1>1, <1>2, SumChange
<1>4. SumFunction(f) \in Int /\ SumFunction(g) \in Int
  BY <1>2, SumInt
<1> QED
  BY <1>3, <1>4

LEMMA ThreadsSum ==
  ASSUME build \in Builds, NEW f \in [HeapThreads -> Int], NEW g \in [HeapThreads -> Int],
         NEW t \in HeapThreads, \A u \in HeapThreads : u # t => g[u] = f[u]
  PROVE  /\ SumFunction(f) \in Int /\ SumFunction(g) \in Int
         /\ SumFunction(g) = (SumFunction(f) - f[t]) + g[t]
BY BuildTypes, SumOver

LEMMA BlocksSum ==
  ASSUME NEW f \in [Blocks -> Int], NEW g \in [Blocks -> Int],
         NEW b \in Blocks, \A c \in Blocks : c # b => g[c] = f[c]
  PROVE  /\ SumFunction(f) \in Int /\ SumFunction(g) \in Int
         /\ SumFunction(g) = (SumFunction(f) - f[b]) + g[b]
BY HeapAssumption, SumOver

\* What a thread has not counted, and what a block takes, are numbers.
BytesAt(b) == IF block[b].alive THEN block[b].bytes ELSE 0
BytesTyped ==
  /\ BytesOf \in [Blocks -> Int] /\ \A b \in Blocks : BytesOf[b] = BytesAt(b) /\ BytesAt(b) \in Int
  /\ UncountedOf \in [HeapThreads -> Int]
  /\ \A t \in HeapThreads : UncountedOf[t] = Uncounted(t) /\ Uncounted(t) \in Int
LEMMA BytesTypes ==
  HeapTypes /\ SizesInv /\ JobsInv => BytesTyped
<1> SUFFICES ASSUME HeapTypes, SizesInv, JobsInv
             PROVE  BytesTyped
  OBVIOUS
<1>1. ASSUME NEW b \in Blocks
      PROVE  BytesAt(b) \in Int
  <2>1. CASE block[b].alive
    BY <2>1, BlockShapes DEF BytesAt, HeapBlock
  <2>2. CASE ~block[b].alive
    BY <2>2 DEF BytesAt
  <2> QED
    BY <2>1, <2>2
<1>2. ASSUME NEW t \in HeapThreads
      PROVE  Uncounted(t) \in Int
  <2>1. CASE job[t].at \in {"malloc", "locked"}
    BY <2>1, MadeBlock DEF Uncounted, Making
  <2>2. CASE job[t].at = "freed"
    BY <2>2, JobShapes DEF Uncounted
  <2>3. CASE job[t].at \notin {"malloc", "locked", "freed"}
    BY <2>3 DEF Uncounted
  <2> QED
    BY <2>1, <2>2, <2>3
<1>3. BytesOf = [b \in Blocks |-> BytesAt(b)]
  BY DEF BytesOf, BytesAt
<1>4. UncountedOf = [t \in HeapThreads |-> Uncounted(t)]
  BY DEF UncountedOf
<1> QED
  BY <1>1, <1>2, <1>3, <1>4 DEF BytesTyped

\* A call that does not step has as much to count as before.
LEMMA UncountedSame ==
  ASSUME HeapTypes, JobsInv, NEW u \in HeapThreads, job'[u] = job[u],
         \A b \in Held(u) : block'[b].bytes = block[b].bytes
  PROVE  Uncounted(u)' = Uncounted(u)
<1>1. CASE job[u].at \in {"malloc", "locked"}
  <2>1. job[u].b \in Held(u)
    BY <1>1 DEF Held, Making
  <2>2. block'[job[u].b].bytes = block[job[u].b].bytes
    BY <2>1
  <2>3. Uncounted(u)' = block'[job'[u].b].bytes
    BY <1>1 DEF Uncounted
  <2> QED
    BY <2>2, <2>3, <1>1 DEF Uncounted
<1>2. CASE job[u].at \notin {"malloc", "locked"}
  BY <1>2 DEF Uncounted
<1> QED
  BY <1>1, <1>2

\* The balance of a step: what a thread counts is what it leaves to be counted
\* less what the blocks take.
BytesBefore == SumFunction(curalloca) + SumFunction(UncountedOf)
LEMMA BytesNext ==
  ASSUME HeapTypes, SizesInv, JobsInv, HeapTypes', SizesInv', JobsInv', build' = build,
         NEW t \in HeapThreads, NEW c \in Int, NEW n \in Int, NEW d \in Int,
         \A u \in HeapThreads : u # t => curalloca'[u] = curalloca[u] /\ Uncounted(u)' = Uncounted(u),
         curalloca'[t] = curalloca[t] + c, Uncounted(t)' = Uncounted(t) + n,
         \/ d = 0 /\ \A b \in Blocks : BytesAt(b)' = BytesAt(b)
         \/ \E b \in Blocks : /\ BytesAt(b)' = BytesAt(b) + d
                              /\ \A e \in Blocks : e # b => BytesAt(e)' = BytesAt(e),
         HeadersTell => c + n = d, BytesInv
  PROVE  BytesInv'
<1>0. HeadersTell' = HeadersTell /\ HeapThreads' = HeapThreads
  BY DEF HeadersTell, Sizes, StoredSize, NecSx, HeapThreads
<1>t. (HeapTypes /\ SizesInv /\ JobsInv => BytesTyped)'
  BY BytesTypes, PTL
<1>1. build \in Builds /\ curalloca \in [HeapThreads -> Int] /\ curalloca' \in [HeapThreads -> Int]
  BY <1>0 DEF HeapTypes
<1>2. /\ SumFunction(curalloca) \in Int
      /\ SumFunction(curalloca') = (SumFunction(curalloca) - curalloca[t]) + curalloca'[t]
  BY <1>1, ThreadsSum
<1>3. /\ UncountedOf \in [HeapThreads -> Int] /\ UncountedOf' \in [HeapThreads -> Int]
      /\ \A u \in HeapThreads : UncountedOf[u] = Uncounted(u) /\ UncountedOf'[u] = Uncounted(u)'
      /\ Uncounted(t) \in Int
  BY <1>0, <1>t, BytesTypes DEF BytesTyped
<1>4. /\ SumFunction(UncountedOf) \in Int
      /\ SumFunction(UncountedOf') = (SumFunction(UncountedOf) - UncountedOf[t]) + UncountedOf'[t]
  BY <1>1, <1>3, ThreadsSum
<1>5. /\ BytesOf \in [Blocks -> Int] /\ BytesOf' \in [Blocks -> Int]
      /\ \A b \in Blocks : BytesOf[b] = BytesAt(b) /\ BytesOf'[b] = BytesAt(b)' /\ BytesAt(b) \in Int
  BY <1>t, BytesTypes DEF BytesTyped
<1>6. SumFunction(BytesOf') = SumFunction(BytesOf) + d /\ SumFunction(BytesOf) \in Int
  <2>0. SumFunction(BytesOf) \in Int
    <3>1. DOMAIN BytesOf = Blocks
      BY <1>5
    <3>2. Summable(BytesOf)
      BY <1>5, <3>1, HeapAssumption DEF Summable
    <3> QED
      BY <3>2, SumInt
  <2>1. CASE d = 0 /\ \A b \in Blocks : BytesAt(b)' = BytesAt(b)
    <3>1. BytesOf' = BytesOf
      BY <2>1, <1>5
    <3> QED
      BY <3>1, <2>0, <2>1
  <2>2. ASSUME NEW b \in Blocks, BytesAt(b)' = BytesAt(b) + d,
               \A e \in Blocks : e # b => BytesAt(e)' = BytesAt(e)
        PROVE  SumFunction(BytesOf') = SumFunction(BytesOf) + d
    <3>1. SumFunction(BytesOf') = (SumFunction(BytesOf) - BytesOf[b]) + BytesOf'[b]
      BY <2>2, <1>5, BlocksSum
    <3>2. BytesOf[b] \in Int /\ BytesOf'[b] = BytesOf[b] + d
      BY <2>2, <1>5
    <3> QED
      BY <3>1, <3>2, <2>0
  <2> QED
    BY <2>0, <2>1, <2>2
<1>7. curalloca[t] \in Int
  BY <1>1
<1>8. SumFunction(curalloca') = SumFunction(curalloca) + c
  BY <1>2, <1>7
<1>9. SumFunction(UncountedOf') = SumFunction(UncountedOf) + n
  BY <1>3, <1>4
<1> QED
  BY <1>0, <1>2, <1>4, <1>6, <1>8, <1>9 DEF BytesInv

\* The blocks other calls are at work on stay as they are.
LEMMA OthersUncounted ==
  ASSUME HeapTypes, JobsInv, NEW t \in HeapThreads,
         \A u \in HeapThreads : u # t => job'[u] = job[u],
         \A b \in Blocks : block[b].alive /\ b \notin Held(t) => block'[b].bytes = block[b].bytes
  PROVE  \A u \in HeapThreads : u # t => Uncounted(u)' = Uncounted(u)
<1> SUFFICES ASSUME NEW u \in HeapThreads, u # t
             PROVE  Uncounted(u)' = Uncounted(u)
  OBVIOUS
<1>1. ASSUME NEW b \in Held(u)
      PROVE  block'[b].bytes = block[b].bytes
  <2>1. b \in Blocks /\ block[b].alive /\ b \notin Held(t)
    BY HeldBlocks DEF JobsInv
  <2> QED
    BY <2>1
<1> QED
  BY <1>1, UncountedSame

LEMMA SameBytes ==
  ASSUME NEW b, SameSize(b)
  PROVE  BytesAt(b)' = BytesAt(b) /\ (block[b].alive => block'[b].bytes = block[b].bytes)
BY DEF SameSize, BytesAt

LEMMA BytesStep ==
  ASSUME HeapTypes, SomeRoutine, SizesInv, JobsInv, BytesInv, build' = build,
         HeapTypes', SizesInv', JobsInv', NEW t \in HeapThreads, HeapStep(t)
  PROVE  BytesInv'
<1>i. 0 \in Int
  OBVIOUS
<1>t. Uncounted(t) \in Int /\ curalloca[t] \in Int /\ curalloca \in [HeapThreads -> Int]
  BY BytesTypes DEF BytesTyped, HeapTypes
<1>1. ASSUME NEW b \in Blocks, NEW size \in Sizes, NEW from \in Blocks \cup {"none"},
             Starts(t, b, size, from)
      PROVE  BytesInv'
  <2>1. BlockMade(b, size) /\ OthersSame(b)
    BY <1>1, StartMakes
  <2>2. PICK n : n = block'[b].bytes
    OBVIOUS
  <2>3. curalloca' = curalloca /\ job[t] = NoJob
        /\ job' = [job EXCEPT ![t] = [at |-> "malloc", b |-> b, from |-> from]]
    BY <1>1 DEF Starts, Begin
  <2>4. /\ job'[t] = [at |-> "malloc", b |-> b, from |-> from]
        /\ \A u \in HeapThreads : u # t => job'[u] = job[u]
    BY <2>3 DEF HeapTypes
  <2>5. job'[t].at = "malloc" /\ job'[t].b = b
    BY <2>4
  <2>6. Uncounted(t)' = n /\ Uncounted(t) = 0
    BY <2>2, <2>3, <2>5 DEF Uncounted, NoJob
  <2>7. BytesAt(b)' = n /\ BytesAt(b) = 0
    BY <2>1, <2>2 DEF BytesAt, BlockMade
  <2>8. \A e \in Blocks : e # b => BytesAt(e)' = BytesAt(e)
    BY <2>1 DEF OthersSame, BytesAt
  <2>9. \A e \in Blocks : block[e].alive /\ e \notin Held(t) => block'[e].bytes = block[e].bytes
    BY <2>1 DEF OthersSame, BlockMade
  <2>10. \A u \in HeapThreads : u # t => Uncounted(u)' = Uncounted(u)
    BY <2>4, <2>9, OthersUncounted
  <2>11. n \in Int
    <3>1. PICK m \in Nat : m = size
      BY BuildTypes DEF HeapTypes
    <3>2. n = TrueBytes(Adjusted(m)) /\ Adjusted(m) \in Nat
      BY <3>1, <2>1, <2>2, AdjustedIsNat DEF BlockMade
    <3> QED
      BY <3>2, HeapAssumption DEF TrueBytes
  <2>12. /\ Uncounted(t)' = Uncounted(t) + n /\ BytesAt(b)' = BytesAt(b) + n
         /\ curalloca'[t] = curalloca[t] + 0 /\ 0 + n = n
    BY <2>3, <2>6, <2>7, <2>11, <1>t
  <2>13. \A u \in HeapThreads : u # t => curalloca'[u] = curalloca[u] /\ Uncounted(u)' = Uncounted(u)
    BY <2>3, <2>10
  <2> QED
    BY <2>8, <2>11, <2>12, <2>13, <1>i, BytesNext
<1>2. ASSUME NEW c \in Int, NEW n \in Int, c + n = 0, \A b \in Blocks : SameSize(b),
             \A u \in HeapThreads : u # t => job'[u] = job[u] /\ curalloca'[u] = curalloca[u],
             curalloca'[t] = curalloca[t] + c, Uncounted(t)' = Uncounted(t) + n
      PROVE  BytesInv'
  <2>1. \A b \in Blocks : BytesAt(b)' = BytesAt(b) /\ (block[b].alive => block'[b].bytes = block[b].bytes)
    BY <1>2, SameBytes
  <2>2. \A u \in HeapThreads : u # t => curalloca'[u] = curalloca[u] /\ Uncounted(u)' = Uncounted(u)
    BY <2>1, <1>2, OthersUncounted
  <2>3. \A b \in Blocks : BytesAt(b)' = BytesAt(b)
    BY <2>1
  <2> QED
    BY <2>2, <2>3, <1>2, <1>i, BytesNext
<1>3. ASSUME block' = block
      PROVE  \A b \in Blocks : SameSize(b)
  BY <1>3 DEF SameSize
<1>4. ASSUME curalloca' = curalloca, \A b \in Blocks : SameSize(b), Uncounted(t)' = Uncounted(t),
             \A u \in HeapThreads : u # t => job'[u] = job[u]
      PROVE  BytesInv'
  <2>1. curalloca'[t] = curalloca[t] + 0 /\ Uncounted(t)' = Uncounted(t) + 0 /\ 0 + 0 = 0
    BY <1>4, <1>t
  <2>2. \A u \in HeapThreads : u # t => job'[u] = job[u] /\ curalloca'[u] = curalloca[u]
    BY <1>4
  <2> QED
    BY <2>1, <2>2, <1>4, <1>2, <1>i
<1>5. CASE LockForMalloc(t)
  <2>1. Making(t) /\ job[t].at = "malloc" /\ block' = block /\ curalloca' = curalloca /\ GoesTo(t, "locked")
    BY <1>5, LockDoes
  <2>2. /\ job'[t].at = "locked" /\ job'[t].b = job[t].b
        /\ \A u \in HeapThreads : u # t => job'[u] = job[u]
    BY <2>1, GoesOnHeld
  <2>3. Uncounted(t)' = Uncounted(t)
    BY <2>1, <2>2 DEF Uncounted
  <2> QED
    BY <2>1, <2>2, <2>3, <1>3, <1>4
<1>6. CASE CountedIn(t)
  <2>1. PICK n \in Int : n = block[job[t].b].bytes
    BY <1>6, CountDoes
  <2>2. /\ Making(t) /\ job[t].at = "locked" /\ block' = block /\ GoesTo(t, "counted")
        /\ curalloca' = [curalloca EXCEPT ![t] = @ + n]
    BY <1>6, <2>1, CountDoes
  <2>3. job'[t].at = "counted" /\ \A u \in HeapThreads : u # t => job'[u] = job[u]
    BY <2>2, GoesOnHeld
  <2>4. Uncounted(t) = n /\ Uncounted(t)' = 0
    BY <2>1, <2>2, <2>3 DEF Uncounted
  <2>5. /\ curalloca'[t] = curalloca[t] + n
        /\ \A u \in HeapThreads : u # t => curalloca'[u] = curalloca[u]
    BY <2>2, <1>t
  <2>6. Uncounted(t)' = Uncounted(t) + (-n) /\ n + (-n) = 0 /\ -n \in Int
    BY <2>4
  <2> QED
    BY <2>2, <2>3, <2>5, <2>6, <1>2, <1>3
<1>7. CASE Allocated(t)
  <2>1. /\ job[t].at = "counted" /\ job[t].b \in Blocks /\ block[job[t].b].alive
        /\ curalloca' = curalloca
        /\ \/ EndsMalloc(t)
           \/ /\ EndsRealloc(t, job[t].b, job[t].from)
              /\ CopiedFrom(job[t].from) \in Words /\ block[job[t].from].expected \in Words
    BY <1>7, AllocatedDoes
  <2>2. \A b \in Blocks : SameSize(b)
    BY <2>1, <1>3, RefilledTypes DEF EndsMalloc, EndsRealloc
  <2>3. job'[t].at \in {"idle", "free"} /\ \A u \in HeapThreads : u # t => job'[u] = job[u]
    <3>1. CASE EndsMalloc(t)
      BY <3>1 DEF EndsMalloc, NoJob, HeapTypes
    <3>2. CASE EndsRealloc(t, job[t].b, job[t].from)
      BY <3>2 DEF EndsRealloc, HeapTypes
    <3> QED
      BY <2>1, <3>1, <3>2
  <2>4. Uncounted(t)' = Uncounted(t)
    BY <2>1, <2>3 DEF Uncounted
  <2> QED
    BY <2>1, <2>2, <2>3, <2>4, <1>4
<1>8. CASE Freed(t)
  <2>1. PICK b \in Blocks, m \in Losses : b = job[t].b /\ m = -TrueBytes(block[b].stored)
    BY <1>8, FreedDoes
  <2>2. /\ job[t].at = "free" /\ block[b].alive /\ Held(t) = {b} /\ block[b] \in HeapBlock
        /\ block' = [block EXCEPT ![b] = Nothing] /\ curalloca' = curalloca
        /\ job' = [job EXCEPT ![t] = [at |-> "freed", key |-> 0, bytes |-> m]]
    BY <1>8, <2>1, FreedDoes
  <2>3. /\ job'[t] = [at |-> "freed", key |-> 0, bytes |-> m]
        /\ \A u \in HeapThreads : u # t => job'[u] = job[u]
    BY <2>2 DEF HeapTypes
  <2>4. job'[t].at = "freed" /\ job'[t].bytes = m
    BY <2>3
  <2>5. Uncounted(t) = 0 /\ Uncounted(t)' = m
    BY <2>2, <2>4 DEF Uncounted
  <2>6. PICK n \in Int : n = block[b].bytes
    BY <2>2 DEF HeapBlock
  <2>7. BytesAt(b) = n /\ BytesAt(b)' = 0
    BY <2>2, <2>6, NothingIsNot DEF BytesAt, HeapTypes
  <2>8. \A e \in Blocks : e # b => block'[e] = block[e]
    BY <2>2 DEF HeapTypes
  <2>9. \A e \in Blocks : e # b => BytesAt(e)' = BytesAt(e)
    BY <2>8 DEF BytesAt
  <2>10. \A e \in Blocks : block[e].alive /\ e \notin Held(t) => block'[e].bytes = block[e].bytes
    BY <2>2, <2>8
  <2>11. \A u \in HeapThreads : u # t => Uncounted(u)' = Uncounted(u)
    BY <2>3, <2>10, OthersUncounted
  <2>12. ASSUME HeadersTell
         PROVE  0 + m = -n
    <3>1. block[b].stored = Adjusted(block[b].size) /\ block[b].bytes = TrueBytes(Adjusted(block[b].size))
      BY <2>2, <2>12 DEF SizesInv, HeadersTell
    <3>2. m = -n
      BY <3>1, <2>1, <2>6
    <3> QED
      BY <3>2
  <2>13. m \in Int /\ -n \in Int
    BY <2>1 DEF Losses
  <2>14. /\ Uncounted(t)' = Uncounted(t) + m /\ BytesAt(b)' = BytesAt(b) + (-n)
         /\ curalloca'[t] = curalloca[t] + 0
    BY <2>2, <2>5, <2>7, <2>13, <1>t
  <2>15. \A u \in HeapThreads : u # t => curalloca'[u] = curalloca[u] /\ Uncounted(u)' = Uncounted(u)
    BY <2>2, <2>11
  <2> QED
    BY <2>9, <2>12, <2>13, <2>14, <2>15, <1>i, BytesNext
<1>9. CASE Deducted(t)
  <2>1. PICK n \in Int : n = job[t].bytes
    BY <1>9, DeductedDoes
  <2>2. /\ job[t].at = "freed" /\ block' = block /\ job' = [job EXCEPT ![t] = NoJob]
        /\ curalloca' = [curalloca EXCEPT ![t] = @ + n]
    BY <1>9, <2>1, DeductedDoes
  <2>3. job'[t].at = "idle" /\ \A u \in HeapThreads : u # t => job'[u] = job[u]
    BY <2>2 DEF NoJob, HeapTypes
  <2>4. Uncounted(t) = n /\ Uncounted(t)' = 0
    BY <2>1, <2>2, <2>3 DEF Uncounted
  <2>5. /\ curalloca'[t] = curalloca[t] + n
        /\ \A u \in HeapThreads : u # t => curalloca'[u] = curalloca[u]
    BY <2>2, <1>t
  <2>6. Uncounted(t)' = Uncounted(t) + (-n) /\ n + (-n) = 0 /\ -n \in Int
    BY <2>4
  <2> QED
    BY <2>2, <2>3, <2>5, <2>6, <1>2, <1>3
<1>10. ASSUME NEW b \in Blocks, job[t] = NoJob, Free(t, b)
       PROVE  BytesInv'
  <2>1. block' = block /\ curalloca' = curalloca /\ job' = [job EXCEPT ![t] = [at |-> "free", b |-> b]]
    BY <1>10 DEF Free
  <2>2. job'[t].at = "free" /\ \A u \in HeapThreads : u # t => job'[u] = job[u]
    BY <2>1 DEF HeapTypes
  <2>3. Uncounted(t)' = Uncounted(t)
    BY <1>10, <2>2 DEF Uncounted, NoJob
  <2> QED
    BY <2>1, <2>2, <2>3, <1>3, <1>4
<1>11. ASSUME curalloca' = curalloca, job' = job, job[t] = NoJob, \A b \in Blocks : SameSize(b)
       PROVE  BytesInv'
  <2>1. Uncounted(t)' = Uncounted(t)
    BY <1>11 DEF Uncounted, NoJob
  <2> QED
    BY <2>1, <1>11, <1>4
<1>12. ASSUME NEW b \in Blocks, job[t] = NoJob, Write(b) \/ Overrun(b)
       PROVE  BytesInv'
  <2>1. curalloca' = curalloca /\ job' = job /\ \A c \in Blocks : SameSize(c)
    BY <1>12, WriteDoes, OverrunDoes, RefilledTypes
  <2> QED
    BY <2>1, <1>11, <1>12
<1>13. ASSUME NEW r \in Routines, job[t] = NoJob, Enter(t, r)
       PROVE  BytesInv'
  BY <1>13, <1>3, <1>11, EnterDoes
<1>14. CASE job[t] = NoJob /\ Leave(t)
  BY <1>14, <1>3, <1>11, LeaveDoes
<1>15. CASE Rests
  <2>1. Uncounted(t)' = Uncounted(t)
    BY <1>15 DEF Rests, Uncounted
  <2> QED
    BY <2>1, <1>15, <1>3, <1>4 DEF Rests
<1> QED
  BY <1>1, <1>5, <1>6, <1>7, <1>8, <1>9, <1>10, <1>12, <1>13, <1>14, <1>15 DEF HeapStep

\* The three cases of a step, seen from the counters and the keys.
Raises(t, n) ==
  /\ maxcurheapa' = [maxcurheapa EXCEPT ![t] = Larger(@, curalloca[t] + n)]
  /\ peak' = Larger(peak, SumFunction(curalloca) + n)
Charges(t, n) ==
  /\ curalloca' = [curalloca EXCEPT ![t] = @ + n]
  /\ IF MemTrace THEN Top(t) \in Routines /\ CountedAt(t, Top(t), n) ELSE mem' = mem
  /\ Raises(t, n) \/ (n <= 0 /\ UNCHANGED <<maxcurheapa, peak>>)

LEMMA ChargesStep ==
  ASSUME HeapTypes, SomeRoutine, SizesInv, JobsInv, NEW t \in HeapThreads, HeapStep(t)
  PROVE  \/ UNCHANGED <<mem, curalloca, maxcurheapa, peak>>
         \/ NothingCharged /\ UNCHANGED <<curalloca, maxcurheapa, peak>>
         \/ \E n \in Int : Charges(t, n)
<1> DEFINE Kept == UNCHANGED <<mem, curalloca, maxcurheapa, peak>>
<1>1. ASSUME NEW b \in Blocks, NEW size \in Sizes, NEW from \in Blocks \cup {"none"},
             Starts(t, b, size, from)
      PROVE  Kept
  BY <1>1 DEF Starts, Begin
<1>2. ASSUME LockForMalloc(t) \/ Allocated(t) \/ Freed(t)
      PROVE  Kept
  BY <1>2 DEF LockForMalloc, Allocated, Freed
<1>3. CASE CountedIn(t)
  <2>1. PICK n \in Int : n = block[job[t].b].bytes
    BY <1>3, CountDoes
  <2>2. Charges(t, n)
    BY <1>3, <2>1, CountDoes DEF Charges, Raises
  <2> QED
    BY <2>2
<1>4. CASE Deducted(t)
  <2>1. PICK n \in Int : n = job[t].bytes /\ n <= 0
    BY <1>4, DeductedDoes
  <2>2. Charges(t, n)
    BY <1>4, <2>1, DeductedDoes DEF Charges
  <2> QED
    BY <2>2
<1>5. ASSUME NEW b \in Blocks, Free(t, b) \/ Write(b) \/ Overrun(b)
      PROVE  Kept
  BY <1>5 DEF Free, Write, Overrun, heap_and_jobs
<1>6. ASSUME NEW r \in Routines, Enter(t, r)
      PROVE  NothingCharged /\ UNCHANGED <<curalloca, maxcurheapa, peak>>
  BY <1>6, EnterDoes
<1>7. CASE Leave(t)
  BY <1>7, LeaveDoes
<1>8. CASE Rests
  BY <1>8 DEF Rests
<1> QED
  BY <1>1, <1>2, <1>3, <1>4, <1>5, <1>6, <1>7, <1>8 DEF HeapStep

\* A routine's own maximum is within its maximum with its callees.
LEMMA SelfStep ==
  ASSUME HeapTypes, SomeRoutine, SizesInv, JobsInv, SelfInv, build' = build,
         NEW t \in HeapThreads, HeapStep(t), HeapTypes'
  PROVE  SelfInv'
<1>0. HeapThreads' = HeapThreads /\ Routines' = Routines
  BY DEF HeapThreads, Routines
<1>k. /\ mem \in [HeapThreads -> [Routines -> HeapKeys]]
      /\ \A u \in HeapThreads : \A q \in Routines : mem[u][q] \in HeapKeys /\ mem'[u][q] \in HeapKeys
  BY <1>0 DEF HeapTypes
<1>1. CASE mem' = mem
  BY <1>0, <1>1 DEF SelfInv
<1>2. CASE NothingCharged
  <2>1. ASSUME NEW u \in HeapThreads, NEW q \in Routines
        PROVE  mem'[u][q].maxself <= mem'[u][q].maxall
    <3>1. PICK a, x, y \in Nat : a = mem[u][q].maxself /\ x = mem[u][q].maxall /\ y = mem'[u][q].maxall
      BY <1>k DEF HeapKeys
    <3>2. a <= x /\ x <= y /\ mem'[u][q].maxself = a
      BY <3>1, <1>2 DEF SelfInv, NothingCharged
    <3> QED
      BY <3>1, <3>2
  <2> QED
    BY <1>0, <2>1 DEF SelfInv
<1>3. ASSUME NEW n \in Int, NEW r \in Routines, MemProf, CountedAt(t, r, n)
      PROVE  SelfInv'
  <2>1. PICK k : k = Charged(mem[t][r], n)
    OBVIOUS
  <2>2. k.maxself <= k.maxall
    BY <1>k, <2>1, ChargedTypes DEF SelfInv
  <2>3. mem' = [mem EXCEPT ![t] = [mem[t] EXCEPT ![r] = k]]
    BY <1>3, <2>1 DEF CountedAt
  <2>4. \A u \in HeapThreads : \A q \in Routines :
          mem'[u][q] = mem[u][q] \/ mem'[u][q] = k
    BY <1>k, <2>3
  <2> QED
    BY <1>0, <2>2, <2>4 DEF SelfInv
<1> QED
  BY <1>1, <1>2, <1>3, ChargesStep DEF Charges, CountedAt

\* The largest amounts are never below the present ones.
LEMMA PeakStep ==
  ASSUME HeapTypes, SomeRoutine, SizesInv, JobsInv, PeakInv, build' = build,
         NEW t \in HeapThreads, HeapStep(t), HeapTypes'
  PROVE  PeakInv'
<1>0. HeapThreads' = HeapThreads
  BY DEF HeapThreads
<1>1. CASE UNCHANGED <<curalloca, maxcurheapa, peak>>
  BY <1>0, <1>1 DEF PeakInv
<1>2. ASSUME NEW n \in Int, Charges(t, n)
      PROVE  PeakInv'
  <2>1. /\ build \in Builds /\ curalloca \in [HeapThreads -> Int] /\ curalloca' \in [HeapThreads -> Int]
        /\ maxcurheapa \in [HeapThreads -> Int] /\ maxcurheapa' \in [HeapThreads -> Int] /\ peak \in Int
    <3>1. /\ build \in Builds /\ curalloca \in [HeapThreads -> Int] /\ curalloca' \in [HeapThreads -> Int]
          /\ maxcurheapa \in [HeapThreads -> Nat] /\ maxcurheapa' \in [HeapThreads -> Nat] /\ peak \in Int
      BY <1>0 DEF HeapTypes
    <3>2. \A f \in [HeapThreads -> Nat] : f \in [HeapThreads -> Int]
      OBVIOUS
    <3> QED
      BY <3>1, <3>2
  <2>2. curalloca' = [curalloca EXCEPT ![t] = @ + n]
    BY <1>2 DEF Charges
  <2>3. \A u \in HeapThreads : curalloca[u] <= maxcurheapa[u]
    BY DEF PeakInv
  <2>4. PICK c, d, m \in Int : c = curalloca[t] /\ d = curalloca'[t] /\ m = maxcurheapa[t]
    BY <2>1
  <2>5. d = c + n /\ c <= m
    BY <2>1, <2>2, <2>3, <2>4
  <2>6. \A u \in HeapThreads : u # t => curalloca'[u] = curalloca[u]
    BY <2>1, <2>2
  <2>7. CASE n <= 0 /\ UNCHANGED <<maxcurheapa, peak>>
    <3>1. d <= m
      BY <2>5, <2>7
    <3>2. \A u \in HeapThreads : curalloca'[u] <= maxcurheapa'[u]
      BY <3>1, <2>3, <2>4, <2>6, <2>7
    <3> QED
      BY <3>2, <2>7, <1>0 DEF PeakInv
  <2>8. CASE Raises(t, n)
    <3>1. maxcurheapa' = [maxcurheapa EXCEPT ![t] = Larger(m, d)]
      BY <2>8, <2>4, <2>5 DEF Raises
    <3>2. PICK l \in Int : l = Larger(m, d) /\ m <= l /\ d <= l
      BY DEF Larger
    <3>3. maxcurheapa'[t] = l /\ \A u \in HeapThreads : u # t => maxcurheapa'[u] = maxcurheapa[u]
      BY <2>1, <3>1, <3>2
    <3>4. ASSUME NEW u \in HeapThreads
          PROVE  curalloca'[u] <= maxcurheapa'[u] /\ maxcurheapa[u] <= maxcurheapa'[u]
      <4>1. CASE u = t
        BY <4>1, <2>4, <3>2, <3>3
      <4>2. CASE u # t
        BY <4>2, <2>1, <2>3, <2>6, <3>3
      <4> QED
        BY <4>1, <4>2
    <3>5. /\ Summable(curalloca) /\ Summable(curalloca') /\ Summable(maxcurheapa) /\ Summable(maxcurheapa')
          /\ SumFunction(curalloca) \in Int /\ SumFunction(curalloca') \in Int
          /\ SumFunction(maxcurheapa) \in Int /\ SumFunction(maxcurheapa') \in Int
      BY <2>1, SumOfThreads
    <3>6. /\ DOMAIN curalloca' = HeapThreads /\ DOMAIN maxcurheapa = HeapThreads
          /\ DOMAIN maxcurheapa' = HeapThreads
      BY <2>1
    <3>7. SumFunction(curalloca') <= SumFunction(maxcurheapa')
      BY <3>4, <3>5, <3>6, SumMonotone
    <3>8. SumFunction(maxcurheapa) <= SumFunction(maxcurheapa')
      BY <3>4, <3>5, <3>6, SumMonotone
    <3>9. SumFunction(curalloca') = (SumFunction(curalloca) - curalloca[t]) + curalloca'[t]
      BY <2>1, <2>6, ThreadsSum
    <3>10. SumFunction(curalloca') = SumFunction(curalloca) + n
      BY <3>5, <3>9, <2>4, <2>5
    <3>11. peak' = Larger(peak, SumFunction(curalloca'))
      BY <3>10, <2>8 DEF Raises
    <3>12. peak <= SumFunction(maxcurheapa)
      BY DEF PeakInv
    <3>13. peak' <= SumFunction(maxcurheapa')
      BY <3>5, <3>7, <3>8, <3>11, <3>12, <2>1 DEF Larger
    <3> QED
      BY <3>4, <3>13, <1>0 DEF PeakInv
  <2> QED
    BY <1>2, <2>7, <2>8 DEF Charges
<1> QED
  BY <1>1, <1>2, ChargesStep

\* The keys of all threads have the total of the counters.
CursTyped ==
  /\ \A t \in HeapThreads : CurOf(t) \in [Routines -> Int] /\ SumFunction(CurOf(t)) \in Int
  /\ CursOf \in [HeapThreads -> Int] /\ \A t \in HeapThreads : CursOf[t] = SumFunction(CurOf(t))
LEMMA RoutinesSummable ==
  ASSUME build \in Builds, NEW f \in [Routines -> Int]
  PROVE  DOMAIN f = Routines /\ Summable(f) /\ SumFunction(f) \in Int
<1>1. IsFiniteSet(DOMAIN f) /\ DOMAIN f = Routines
  BY BuildTypes
<1>2. Summable(f)
  BY <1>1 DEF Summable
<1> QED
  BY <1>1, <1>2, SumInt

LEMMA CursTypes ==
  HeapTypes => CursTyped
<1> SUFFICES ASSUME HeapTypes
             PROVE  CursTyped
  OBVIOUS
<1>1. ASSUME NEW t \in HeapThreads
      PROVE  CurOf(t) \in [Routines -> Int] /\ SumFunction(CurOf(t)) \in Int
  <2>1. \A r \in Routines : mem[t][r].cur \in Int
    BY DEF HeapTypes, HeapKeys
  <2>2. CurOf(t) \in [Routines -> Int]
    BY <2>1 DEF CurOf
  <2> QED
    BY <2>2, RoutinesSummable DEF HeapTypes
<1> QED
  BY <1>1 DEF CursTyped, CursOf

LEMMA CursStep ==
  ASSUME HeapTypes, SomeRoutine, SizesInv, JobsInv, CursInv, build' = build,
         NEW t \in HeapThreads, HeapStep(t), HeapTypes'
  PROVE  CursInv'
<1>0. HeapThreads' = HeapThreads /\ Routines' = Routines /\ MemProf' = MemProf
  BY DEF HeapThreads, Routines, MemProf
<1> SUFFICES ASSUME MemProf
             PROVE  SumFunction(CursOf') = SumFunction(curalloca')
  BY <1>0 DEF CursInv
<1>a. SumFunction(CursOf) = SumFunction(curalloca)
  BY DEF CursInv
<1>t. (HeapTypes => CursTyped)'
  BY CursTypes, PTL
<1>b. /\ CursOf \in [HeapThreads -> Int] /\ CursOf' \in [HeapThreads -> Int]
      /\ \A u \in HeapThreads : /\ CursOf[u] = SumFunction(CurOf(u)) /\ CursOf'[u] = SumFunction(CurOf(u)')
                                /\ CurOf(u) \in [Routines -> Int] /\ CurOf(u)' \in [Routines -> Int]
                                /\ SumFunction(CurOf(u)) \in Int
  BY <1>0, <1>t, CursTypes DEF CursTyped
<1>c. \A u \in HeapThreads : \A q \in Routines :
        CurOf(u)[q] = mem[u][q].cur /\ CurOf(u)'[q] = mem'[u][q].cur
  BY <1>0 DEF CurOf
<1>d. build \in Builds /\ mem \in [HeapThreads -> [Routines -> HeapKeys]]
      /\ curalloca \in [HeapThreads -> Int] /\ curalloca' \in [HeapThreads -> Int]
  BY <1>0 DEF HeapTypes
<1>1. ASSUME curalloca' = curalloca, NothingCharged
      PROVE  SumFunction(CursOf') = SumFunction(curalloca')
  <2>1. ASSUME NEW u \in HeapThreads
        PROVE  CursOf'[u] = CursOf[u]
    <3>1. \A q \in Routines : CurOf(u)'[q] = CurOf(u)[q]
      BY <1>1, <1>c DEF NothingCharged
    <3>2. CurOf(u)' = CurOf(u)
      BY <3>1, <1>b
    <3> QED
      BY <3>2, <1>b
  <2>2. CursOf' = CursOf
    BY <2>1, <1>b
  <2> QED
    BY <2>2, <1>1, <1>a
<1>2. CASE UNCHANGED <<mem, curalloca>>
  <2>1. CursOf' = CursOf
    BY <1>2, <1>0 DEF CursOf, CurOf
  <2> QED
    BY <2>1, <1>2, <1>a
<1>3. ASSUME NEW n \in Int, Charges(t, n)
      PROVE  SumFunction(CursOf') = SumFunction(curalloca')
  <2>1. MemTrace
    BY <1>d, BuildTypes
  <2>2. PICK r \in Routines : CountedAt(t, r, n)
    BY <2>1, <1>3 DEF Charges
  <2>3. PICK k : k = Charged(mem[t][r], n)
    OBVIOUS
  <2>4. mem[t][r] \in HeapKeys
    BY <1>d
  <2>5. k.cur = mem[t][r].cur + n
    BY <2>3, <2>4, ChargedTypes
  <2>6. mem' = [mem EXCEPT ![t] = [mem[t] EXCEPT ![r] = k]]
    BY <2>2, <2>3 DEF CountedAt
  <2>7. /\ mem'[t][r] = k /\ \A q \in Routines : q # r => mem'[t][q] = mem[t][q]
        /\ \A u \in HeapThreads : u # t => mem'[u] = mem[u]
    BY <1>d, <2>6
  <2>8. \A u \in HeapThreads : u # t => CursOf'[u] = CursOf[u]
    <3> SUFFICES ASSUME NEW u \in HeapThreads, u # t
                 PROVE  CursOf'[u] = CursOf[u]
      OBVIOUS
    <3>1. CurOf(u)' = CurOf(u)
      BY <2>7, <1>0 DEF CurOf
    <3> QED
      BY <3>1, <1>b
  <2>9. PICK f, g \in [Routines -> Int] : f = CurOf(t) /\ g = CurOf(t)'
    BY <1>b
  <2>10. g[r] = f[r] + n /\ \A q \in Routines : q # r => g[q] = f[q]
    BY <2>5, <2>7, <2>9, <1>c
  <2>11. SumFunction(g) = (SumFunction(f) - f[r]) + g[r]
    BY <2>10, <1>d, RoutinesSummable, SumChange
  <2>12. SumFunction(g) = SumFunction(f) + n
    <3>1. SumFunction(f) \in Int /\ f[r] \in Int
      BY <1>d, RoutinesSummable
    <3> QED
      BY <3>1, <2>10, <2>11
  <2>13. CursOf'[t] = CursOf[t] + n /\ CursOf[t] \in Int
    BY <2>9, <2>12, <1>b
  <2>14. SumFunction(CursOf') = (SumFunction(CursOf) - CursOf[t]) + CursOf'[t] /\ SumFunction(CursOf) \in Int
    <3>1. PICK F, G \in [HeapThreads -> Int] : F = CursOf /\ G = CursOf'
      BY <1>b
    <3>2. \A u \in HeapThreads : u # t => G[u] = F[u]
      BY <3>1, <2>8
    <3>3. build \in Builds
      BY <1>d
    <3>4. SumFunction(F) \in Int /\ SumFunction(G) = (SumFunction(F) - F[t]) + G[t]
      BY <3>2, <3>3, ThreadsSum
    <3> QED
      BY <3>1, <3>4
  <2>15. /\ curalloca'[t] = curalloca[t] + n /\ curalloca[t] \in Int
         /\ \A u \in HeapThreads : u # t => curalloca'[u] = curalloca[u]
    BY <1>3, <1>d DEF Charges
  <2>16. SumFunction(curalloca') = (SumFunction(curalloca) - curalloca[t]) + curalloca'[t]
    BY <2>15, <1>d, ThreadsSum
  <2> QED
    BY <2>13, <2>14, <2>15, <2>16, <1>a
<1> QED
  BY <1>1, <1>2, <1>3, ChargesStep

\* The cases of a step, seen from the hits.
HitsCases(t) ==
  \/ hits' = hits /\ NotHit(t)' = NotHit(t) /\ \A b \in Blocks : block'[b].alive = block[b].alive
  \/ /\ hits' = hits /\ NotHit(t) = 0 /\ NotHit(t)' = 1
     /\ \E b \in Blocks : ~block[b].alive /\ block'[b].alive /\ OthersSame(b)
  \/ /\ hits' = hits /\ NotHit(t) = 0 /\ NotHit(t)' = -1
     /\ \E b \in Blocks : block[b].alive /\ ~block'[b].alive /\ OthersSame(b)
  \/ /\ \A b \in Blocks : block'[b].alive = block[b].alive
     /\ NotHit(t)' = 0
     /\ \E r \in 0..Ranges :
          \/ NotHit(t) = 1 /\ (ProfileHeap => HitAt(t, r, "malloc"))
          \/ NotHit(t) = -1 /\ (ProfileHeap => HitAt(t, r, "free"))

LEMMA HitsByStep ==
  ASSUME HeapTypes, SomeRoutine, SizesInv, JobsInv, NEW t \in HeapThreads, HeapStep(t)
  PROVE  HitsCases(t) /\ \A u \in HeapThreads : u # t => job'[u] = job[u]
<1> DEFINE Others == \A u \in HeapThreads : u # t => job'[u] = job[u]
<1>1. ASSUME NEW b \in Blocks, NEW size \in Sizes, NEW from \in Blocks \cup {"none"},
             Starts(t, b, size, from)
      PROVE  HitsCases(t) /\ Others
  <2>1. BlockMade(b, size) /\ OthersSame(b)
    BY <1>1, StartMakes
  <2>2. hits' = hits /\ job[t] = NoJob /\ job' = [job EXCEPT ![t] = [at |-> "malloc", b |-> b, from |-> from]]
    BY <1>1 DEF Starts, Begin
  <2>3. job'[t].at = "malloc" /\ Others
    BY <2>2 DEF HeapTypes
  <2>4. NotHit(t) = 0 /\ NotHit(t)' = 1
    BY <2>2, <2>3 DEF NotHit, Making, NoJob
  <2> QED
    BY <2>1, <2>2, <2>3, <2>4 DEF HitsCases, BlockMade
<1>2. ASSUME NEW at \in {"locked", "counted"}, Making(t), GoesTo(t, at), block' = block, hits' = hits
      PROVE  HitsCases(t) /\ Others
  <2>1. Making(t)' /\ Others
    BY <1>2, GoesOnHeld
  <2>2. NotHit(t)' = NotHit(t)
    BY <1>2, <2>1 DEF NotHit
  <2> QED
    BY <1>2, <2>1, <2>2 DEF HitsCases
<1>3. CASE LockForMalloc(t)
  BY <1>3, <1>2, LockDoes
<1>4. CASE CountedIn(t)
  BY <1>4, <1>2, CountDoes
<1>5. CASE Allocated(t)
  <2>1. PICK n \in Int : n = block[job[t].b].bytes
    BY <1>5, AllocatedDoes
  <2>2. /\ Making(t) /\ job[t].b \in Blocks /\ block[job[t].b].alive /\ HeapPut(t, n, "malloc")
        /\ \/ EndsMalloc(t)
           \/ /\ EndsRealloc(t, job[t].b, job[t].from)
              /\ CopiedFrom(job[t].from) \in Words /\ block[job[t].from].expected \in Words
    BY <1>5, <2>1, AllocatedDoes
  <2>3. \A b \in Blocks : block'[b].alive = block[b].alive
    BY <2>2, RefilledTypes DEF EndsMalloc, EndsRealloc, SameSize
  <2>4. job'[t].at \in {"idle", "free"} /\ Others
    <3>1. CASE EndsMalloc(t)
      BY <3>1 DEF EndsMalloc, NoJob, HeapTypes
    <3>2. CASE EndsRealloc(t, job[t].b, job[t].from)
      BY <3>2 DEF EndsRealloc, HeapTypes
    <3> QED
      BY <2>2, <3>1, <3>2
  <2>5. NotHit(t) = 1 /\ NotHit(t)' = 0
    BY <2>2, <2>4 DEF NotHit, Making
  <2>6. PICK r \in 0..Ranges : r = RangeOf(n)
    BY RangeExists
  <2>7. ProfileHeap => HitAt(t, r, "malloc")
    BY <2>2, <2>6, PutHits
  <2> QED
    BY <2>3, <2>4, <2>5, <2>7 DEF HitsCases
<1>6. CASE Freed(t)
  <2>1. /\ job[t].at = "free" /\ job[t].b \in Blocks /\ block[job[t].b].alive /\ hits' = hits
        /\ block' = [block EXCEPT ![job[t].b] = Nothing]
        /\ job' = [job EXCEPT ![t] = [at |-> "freed", key |-> 0,
                                      bytes |-> -TrueBytes(block[job[t].b].stored)]]
    BY <1>6, FreedDoes
  <2>2. job'[t].at = "freed" /\ Others
    BY <2>1 DEF HeapTypes
  <2>3. NotHit(t) = 0 /\ NotHit(t)' = -1
    BY <2>1, <2>2 DEF NotHit, Making
  <2>4. ~block'[job[t].b].alive /\ OthersSame(job[t].b)
    BY <2>1, NothingIsNot DEF OthersSame, HeapTypes
  <2> QED
    BY <2>1, <2>2, <2>3, <2>4 DEF HitsCases
<1>7. CASE Deducted(t)
  <2>1. PICK n \in Int : n = job[t].bytes
    BY <1>7, DeductedDoes
  <2>2. /\ job[t].at = "freed" /\ block' = block /\ job' = [job EXCEPT ![t] = NoJob]
        /\ HeapPut(t, n, "free")
    BY <1>7, <2>1, DeductedDoes
  <2>3. job'[t].at = "idle" /\ Others
    BY <2>2 DEF NoJob, HeapTypes
  <2>4. NotHit(t) = -1 /\ NotHit(t)' = 0
    BY <2>2, <2>3 DEF NotHit, Making
  <2>5. PICK r \in 0..Ranges : r = RangeOf(n)
    BY RangeExists
  <2>6. ProfileHeap => HitAt(t, r, "free")
    BY <2>2, <2>5, PutHits
  <2> QED
    BY <2>2, <2>3, <2>4, <2>6 DEF HitsCases
<1>8. ASSUME NEW b \in Blocks, job[t] = NoJob, Free(t, b)
      PROVE  HitsCases(t) /\ Others
  <2>1. block' = block /\ hits' = hits /\ job' = [job EXCEPT ![t] = [at |-> "free", b |-> b]]
    BY <1>8 DEF Free
  <2>2. job'[t].at = "free" /\ Others
    BY <2>1 DEF HeapTypes
  <2>3. NotHit(t)' = NotHit(t)
    BY <1>8, <2>2 DEF NotHit, Making, NoJob
  <2> QED
    BY <2>1, <2>2, <2>3 DEF HitsCases
<1>9. ASSUME job' = job, hits' = hits, \A b \in Blocks : block'[b].alive = block[b].alive
      PROVE  HitsCases(t) /\ Others
  <2>1. NotHit(t)' = NotHit(t)
    BY <1>9 DEF NotHit, Making
  <2> QED
    BY <2>1, <1>9 DEF HitsCases
<1>10. ASSUME NEW b \in Blocks, Write(b) \/ Overrun(b)
       PROVE  HitsCases(t) /\ Others
  <2>1. job' = job /\ hits' = hits /\ \A c \in Blocks : block'[c].alive = block[c].alive
    BY <1>10, WriteDoes, OverrunDoes, RefilledTypes DEF SameSize
  <2> QED
    BY <2>1, <1>9
<1>11. ASSUME NEW r \in Routines, Enter(t, r)
       PROVE  HitsCases(t) /\ Others
  BY <1>11, <1>9, EnterDoes
<1>12. CASE Leave(t)
  BY <1>12, <1>9, LeaveDoes
<1>13. CASE Rests
  BY <1>13, <1>9 DEF Rests
<1> QED
  BY <1>1, <1>3, <1>4, <1>5, <1>6, <1>7, <1>8, <1>10, <1>11, <1>12, <1>13 DEF HeapStep

\* The blocks there are.
LEMMA AliveFinite ==
  IsFiniteSet(Alive) /\ Cardinality(Alive) \in Nat
<1>1. Alive \subseteq Blocks
  BY DEF Alive
<1>2. IsFiniteSet(Alive)
  BY <1>1, HeapAssumption, FS_Subset
<1>3. Cardinality(Alive) \in Nat
  BY <1>2, FS_CardinalityType
<1> QED
  BY <1>2, <1>3

LEMMA OneMoreAlive ==
  ASSUME NEW b \in Blocks, ~block[b].alive, block'[b].alive, OthersSame(b)
  PROVE  Cardinality(Alive') = Cardinality(Alive) + 1
<1>1. Alive' = Alive \cup {b} /\ b \notin Alive
  BY DEF Alive, OthersSame
<1>2. IsFiniteSet(Alive)
  BY AliveFinite
<1>3. Cardinality(Alive \cup {b}) = Cardinality(Alive) + 1
  BY <1>1, <1>2, FS_AddElement
<1> QED
  BY <1>1, <1>3

LEMMA OneLessAlive ==
  ASSUME NEW b \in Blocks, block[b].alive, ~block'[b].alive, OthersSame(b)
  PROVE  Cardinality(Alive') = Cardinality(Alive) - 1
<1>1. Alive' = Alive \ {b} /\ b \in Alive
  BY DEF Alive, OthersSame
<1>2. IsFiniteSet(Alive)
  BY AliveFinite
<1>3. Cardinality(Alive \ {b}) = Cardinality(Alive) - 1
  BY <1>1, <1>2, FS_RemoveElement
<1> QED
  BY <1>1, <1>3

LEMMA HitsInt ==
  ASSUME HeapTypes, NEW k \in {"malloc", "free"}, NEW t \in HeapThreads, NEW r \in 0..Ranges
  PROVE  hits[k][t][r] \in Int
<1>1. hits \in [Kinds -> [HeapThreads -> [0..Ranges -> Int]]]
  BY DEF HeapTypes
<1>2. hits[k][t] \in [0..Ranges -> Int]
  BY <1>1 DEF Kinds
<1> QED
  BY <1>2

\* The hits of the ranges are numbers.
HitsTyped ==
  /\ \A r \in 0..Ranges : HitOf(r) \in [HeapThreads -> Int] /\ SumFunction(HitOf(r)) \in Int
  /\ HitsOf \in [0..Ranges -> Int] /\ \A r \in 0..Ranges : HitsOf[r] = SumFunction(HitOf(r))
  /\ NotHitOf \in [HeapThreads -> Int] /\ \A t \in HeapThreads : NotHitOf[t] = NotHit(t)
LEMMA HitsTypes ==
  HeapTypes => HitsTyped
<1> SUFFICES ASSUME HeapTypes
             PROVE  HitsTyped
  OBVIOUS
<1>1. ASSUME NEW r \in 0..Ranges
      PROVE  HitOf(r) \in [HeapThreads -> Int] /\ SumFunction(HitOf(r)) \in Int
  <2>1. \A t \in HeapThreads : hits["malloc"][t][r] \in Int /\ hits["free"][t][r] \in Int
    BY HitsInt
  <2>2. HitOf(r) \in [HeapThreads -> Int]
    BY <2>1 DEF HitOf
  <2> QED
    BY <2>2, SumOfThreads DEF HeapTypes
<1>2. \A t \in HeapThreads : NotHit(t) \in Int
  BY DEF NotHit
<1> QED
  BY <1>1, <1>2 DEF HitsTyped, HitsOf, NotHitOf

AllRanges == 0..Ranges
LEMMA AllRangesSum ==
  ASSUME NEW f \in [AllRanges -> Int], NEW g \in [AllRanges -> Int],
         NEW r \in AllRanges, \A q \in AllRanges : q # r => g[q] = f[q]
  PROVE  /\ SumFunction(f) \in Int
         /\ SumFunction(g) = (SumFunction(f) - f[r]) + g[r]
<1>1. IsFiniteSet(AllRanges)
  BY HeapAssumption, FS_Interval DEF AllRanges
<1> QED
  BY <1>1, SumOver

LEMMA RangesSum ==
  ASSUME NEW f \in [0..Ranges -> Int], NEW g \in [0..Ranges -> Int],
         NEW r \in 0..Ranges, \A q \in 0..Ranges : q # r => g[q] = f[q]
  PROVE  /\ SumFunction(f) \in Int
         /\ SumFunction(g) = (SumFunction(f) - f[r]) + g[r]
BY AllRangesSum, Zenon DEF AllRanges

\* One hit more in one range of one thread.
LEMMA HitsChange ==
  ASSUME HeapTypes, build' = build, HeapTypes', NEW t \in HeapThreads, NEW r \in 0..Ranges,
         NEW kind \in {"malloc", "free"}, HitAt(t, r, kind)
  PROVE  /\ SumFunction(HitsOf) \in Int
         /\ SumFunction(HitsOf') = SumFunction(HitsOf) + (IF kind = "malloc" THEN 1 ELSE -1)
<1>0. HeapThreads' = HeapThreads
  BY DEF HeapThreads
<1>t. (HeapTypes => HitsTyped)'
  BY HitsTypes, PTL
<1>1. PICK F, G \in [0..Ranges -> Int] : F = HitsOf /\ G = HitsOf'
  BY <1>t, HitsTypes DEF HitsTyped
<1>2. \A q \in 0..Ranges : /\ F[q] = SumFunction(HitOf(q)) /\ G[q] = SumFunction(HitOf(q)')
                           /\ HitOf(q) \in [HeapThreads -> Int] /\ HitOf(q)' \in [HeapThreads -> Int]
  BY <1>0, <1>1, <1>t, HitsTypes DEF HitsTyped
<1>3. \A q \in 0..Ranges : \A u \in HeapThreads :
        /\ HitOf(q)[u] = hits["malloc"][u][q] - hits["free"][u][q]
        /\ HitOf(q)'[u] = hits'["malloc"][u][q] - hits'["free"][u][q]
  BY <1>0 DEF HitOf
<1>4. PICK d \in Int : d = IF kind = "malloc" THEN 1 ELSE -1
  OBVIOUS
<1>5. \A q \in 0..Ranges : \A u \in HeapThreads : hits["malloc"][u][q] \in Int /\ hits["free"][u][q] \in Int
  BY HitsInt
<1>6. \A u \in HeapThreads : \A q \in 0..Ranges :
        /\ hits'["malloc"][u][q] = IF kind = "malloc" /\ u = t /\ q = r THEN hits["malloc"][u][q] + 1
                                   ELSE hits["malloc"][u][q]
        /\ hits'["free"][u][q] = IF kind = "free" /\ u = t /\ q = r THEN hits["free"][u][q] + 1
                                 ELSE hits["free"][u][q]
  BY DEF HitAt
<1>7. ASSUME NEW q \in 0..Ranges, NEW u \in HeapThreads, q # r \/ u # t
      PROVE  HitOf(q)'[u] = HitOf(q)[u]
  <2>1. /\ hits'["malloc"][u][q] = hits["malloc"][u][q]
        /\ hits'["free"][u][q] = hits["free"][u][q]
    BY <1>6, <1>7
  <2> QED
    BY <2>1, <1>3
<1>8. HitOf(r)'[t] = HitOf(r)[t] + d
  <2>1. PICK m, f \in Int : m = hits["malloc"][t][r] /\ f = hits["free"][t][r]
    BY <1>5
  <2>2. HitOf(r)[t] = m - f
    BY <1>3, <2>1
  <2>3. CASE kind = "malloc"
    <3>1. hits'["malloc"][t][r] = m + 1 /\ hits'["free"][t][r] = f
      BY <1>6, <2>1, <2>3
    <3> QED
      BY <3>1, <2>2, <2>3, <1>3, <1>4
  <2>4. CASE kind = "free"
    <3>1. hits'["malloc"][t][r] = m /\ hits'["free"][t][r] = f + 1
      BY <1>6, <2>1, <2>4
    <3> QED
      BY <3>1, <2>2, <2>4, <1>3, <1>4
  <2> QED
    BY <2>3, <2>4
<1>9. \A q \in 0..Ranges : q # r => G[q] = F[q]
  <2> SUFFICES ASSUME NEW q \in 0..Ranges, q # r
               PROVE  G[q] = F[q]
    OBVIOUS
  <2>1. HitOf(q)' = HitOf(q)
    BY <1>2, <1>7
  <2> QED
    BY <2>1, <1>2
<1>10. G[r] = F[r] + d
  <2>1. PICK f, g \in [HeapThreads -> Int] : f = HitOf(r) /\ g = HitOf(r)'
    BY <1>2
  <2>2. g[t] = f[t] + d /\ \A u \in HeapThreads : u # t => g[u] = f[u]
    BY <2>1, <1>7, <1>8
  <2>3. build \in Builds
    BY DEF HeapTypes
  <2>4. SumFunction(f) \in Int /\ SumFunction(g) = (SumFunction(f) - f[t]) + g[t]
    BY <2>2, <2>3, ThreadsSum
  <2>5. SumFunction(g) = SumFunction(f) + d
    BY <2>2, <2>4
  <2> QED
    BY <2>1, <2>5, <1>2
<1>11. SumFunction(F) \in Int /\ SumFunction(G) = (SumFunction(F) - F[r]) + G[r]
  BY <1>9, RangesSum
<1>12. F[r] \in Int
  OBVIOUS
<1> QED
  BY <1>1, <1>4, <1>10, <1>11, <1>12

LEMMA HitsStep ==
  ASSUME HeapTypes, SomeRoutine, SizesInv, JobsInv, HitsInv, build' = build,
         NEW t \in HeapThreads, HeapStep(t), HeapTypes'
  PROVE  HitsInv'
<1>0. HeapThreads' = HeapThreads /\ ProfileHeap' = ProfileHeap
  BY DEF HeapThreads, ProfileHeap
<1> SUFFICES ASSUME ProfileHeap
             PROVE  SumFunction(HitsOf') + SumFunction(NotHitOf') = Cardinality(Alive')
  BY <1>0 DEF HitsInv
<1>a. SumFunction(HitsOf) + SumFunction(NotHitOf) = Cardinality(Alive)
  BY DEF HitsInv
<1>b. HitsCases(t) /\ \A u \in HeapThreads : u # t => job'[u] = job[u]
  BY HitsByStep
<1>t. (HeapTypes => HitsTyped)'
  BY HitsTypes, PTL
<1>1. PICK F, G \in [HeapThreads -> Int] : F = NotHitOf /\ G = NotHitOf'
  BY <1>0, <1>t, HitsTypes DEF HitsTyped
<1>2. \A u \in HeapThreads : F[u] = NotHit(u) /\ G[u] = NotHit(u)'
  BY <1>0, <1>1, <1>t, HitsTypes DEF HitsTyped
<1>3. \A u \in HeapThreads : u # t => G[u] = F[u]
  BY <1>b, <1>2 DEF NotHit, Making
<1>4. build \in Builds
  BY DEF HeapTypes
<1>5. SumFunction(F) \in Int /\ SumFunction(G) = (SumFunction(F) - F[t]) + G[t]
  BY <1>3, <1>4, ThreadsSum
<1>6. PICK n, h \in Int : n = SumFunction(F) /\ h = SumFunction(HitsOf)
  <2>1. HitsOf \in [0..Ranges -> Int]
    BY HitsTypes DEF HitsTyped
  <2>2. 0 \in 0..Ranges
    BY HeapAssumption
  <2>3. SumFunction(HitsOf) \in Int
    BY <2>1, <2>2, RangesSum
  <2> QED
    BY <1>5, <2>3
<1>7. h + n = Cardinality(Alive) /\ Cardinality(Alive) \in Nat
  BY <1>1, <1>6, <1>a, AliveFinite
<1>8. ASSUME hits' = hits
      PROVE  SumFunction(HitsOf') = h
  BY <1>8, <1>6, <1>0 DEF HitsOf, HitOf
<1>9. CASE /\ hits' = hits /\ NotHit(t)' = NotHit(t)
           /\ \A b \in Blocks : block'[b].alive = block[b].alive
  <2>1. Alive' = Alive
    BY <1>9 DEF Alive
  <2>2. G[t] = F[t] /\ F[t] \in Int
    BY <1>9, <1>2
  <2>3. SumFunction(G) = n
    BY <2>2, <1>5, <1>6
  <2> QED
    BY <2>1, <2>3, <1>1, <1>7, <1>8, <1>9
<1>10. ASSUME hits' = hits, NotHit(t) = 0, NotHit(t)' = 1,
              NEW b \in Blocks, ~block[b].alive, block'[b].alive, OthersSame(b)
       PROVE  SumFunction(HitsOf') + SumFunction(NotHitOf') = Cardinality(Alive')
  <2>1. Cardinality(Alive') = Cardinality(Alive) + 1
    BY <1>10, OneMoreAlive
  <2>2. SumFunction(G) = n + 1
    BY <1>10, <1>2, <1>5, <1>6
  <2> QED
    BY <2>1, <2>2, <1>1, <1>7, <1>8, <1>10
<1>11. ASSUME hits' = hits, NotHit(t) = 0, NotHit(t)' = -1,
              NEW b \in Blocks, block[b].alive, ~block'[b].alive, OthersSame(b)
       PROVE  SumFunction(HitsOf') + SumFunction(NotHitOf') = Cardinality(Alive')
  <2>1. Cardinality(Alive') = Cardinality(Alive) - 1
    BY <1>11, OneLessAlive
  <2>2. SumFunction(G) = n - 1
    BY <1>11, <1>2, <1>5, <1>6
  <2> QED
    BY <2>1, <2>2, <1>1, <1>7, <1>8, <1>11
<1>12. ASSUME \A b \in Blocks : block'[b].alive = block[b].alive, NotHit(t)' = 0,
              NEW r \in 0..Ranges,
              \/ NotHit(t) = 1 /\ HitAt(t, r, "malloc")
              \/ NotHit(t) = -1 /\ HitAt(t, r, "free")
       PROVE  SumFunction(HitsOf') + SumFunction(NotHitOf') = Cardinality(Alive')
  <2>1. Alive' = Alive
    BY <1>12 DEF Alive
  <2>2. CASE NotHit(t) = 1 /\ HitAt(t, r, "malloc")
    <3>1. SumFunction(HitsOf') = h + 1
      BY <2>2, <1>6, HitsChange
    <3>2. SumFunction(G) = n - 1
      BY <2>2, <1>12, <1>2, <1>5, <1>6
    <3> QED
      BY <2>1, <3>1, <3>2, <1>1, <1>7
  <2>3. CASE NotHit(t) = -1 /\ HitAt(t, r, "free")
    <3>1. SumFunction(HitsOf') = h - 1
      <4>1. SumFunction(HitsOf') = SumFunction(HitsOf) + (IF "free" = "malloc" THEN 1 ELSE -1)
        BY <2>3, HitsChange
      <4> QED
        BY <4>1, <1>6
    <3>2. SumFunction(G) = n + 1
      BY <2>3, <1>12, <1>2, <1>5, <1>6
    <3> QED
      BY <2>1, <3>1, <3>2, <1>1, <1>7
  <2> QED
    BY <1>12, <2>2, <2>3
<1> QED
  BY <1>b, <1>9, <1>10, <1>11, <1>12 DEF HitsCases

(* ------------------------------ the theorems ----------------------------- *)
LEMMA SumOfZeros ==
  ASSUME NEW S, IsFiniteSet(S), NEW f, DOMAIN f = S, \A x \in S : f[x] = 0
  PROVE  SumFunction(f) = 0
BY SumZero

LEMMA HeapInitInv ==
  HeapInit => HeapInv
<1> SUFFICES ASSUME HeapInit
             PROVE  HeapInv
  OBVIOUS
<1>b. /\ build \in Builds /\ IsFiniteSet(HeapThreads) /\ IsFiniteSet(Routines)
      /\ Main \in Routines /\ MaxOps \in Nat /\ Ranges \in Nat /\ IsFiniteSet(Blocks)
      /\ IsFiniteSet(0..Ranges)
  BY BuildTypes, HeapAssumption, FS_Interval DEF HeapInit
<1>1. HeapTypes
  <2>1. NoKey \in HeapKeys
    BY DEF NoKey, HeapKeys
  <2>2. mem \in [HeapThreads -> [Routines -> HeapKeys]]
    BY <2>1 DEF HeapInit
  <2>3. hits \in [Kinds -> [HeapThreads -> [0..Ranges -> Int]]]
    BY DEF HeapInit, Kinds
  <2>4. <<Main>> \in Seq(Routines)
    BY <1>b
  <2>5. stack \in [HeapThreads -> Seq(Routines)]
    BY <2>4 DEF HeapInit
  <2>6. block \in [Blocks -> {Nothing} \cup HeapBlock]
    BY DEF HeapInit
  <2>8. curalloca \in [HeapThreads -> Int] /\ maxcurheapa \in [HeapThreads -> Nat]
    BY DEF HeapInit
  <2>9. lock \in HeapThreads \cup {0}
    BY DEF HeapInit
  <2>10. job \in [HeapThreads -> {NoJob} \cup MakingJobs \cup FreeJobs \cup FreedJobs]
    BY DEF HeapInit
  <2>11. warned \in BOOLEAN /\ overran \in BOOLEAN
    BY DEF HeapInit
  <2>12. peak = 0 /\ ops = 0
    BY DEF HeapInit
  <2>7. warned \in BOOLEAN /\ overran \in BOOLEAN /\ peak \in Int /\ ops \in 0..MaxOps
    BY <1>b, <2>11, <2>12
  <2> QED
    BY <1>b, <2>2, <2>3, <2>5, <2>6, <2>7, <2>8, <2>9, <2>10 DEF HeapTypes
<1>2. SomeRoutine
  BY DEF HeapInit, SomeRoutine
<1>3. \A b \in Blocks : ~block[b].alive
  BY NothingIsNot DEF HeapInit
<1>4. SizesInv /\ GuardsInv
  BY <1>3 DEF SizesInv, GuardsInv
<1>5. \A t \in HeapThreads : job[t] = NoJob /\ job[t].at = "idle"
  BY DEF HeapInit, NoJob
<1>6. \A t \in HeapThreads : ~Making(t) /\ Held(t) = {} /\ Uncounted(t) = 0 /\ NotHit(t) = 0
  BY <1>5 DEF Making, Held, Uncounted, NotHit
<1>7. JobsInv
  BY <1>6 DEF JobsInv
<1>8. SumFunction(curalloca) = 0
  <2>1. DOMAIN curalloca = HeapThreads /\ \A t \in HeapThreads : curalloca[t] = 0
    BY DEF HeapInit
  <2> QED
    BY <1>b, <2>1, SumOfZeros
<1>9. BytesInv
  <2>1. DOMAIN UncountedOf = HeapThreads /\ \A t \in HeapThreads : UncountedOf[t] = 0
    BY <1>6 DEF UncountedOf
  <2>2. SumFunction(UncountedOf) = 0
    BY <1>b, <2>1, SumOfZeros
  <2>3. DOMAIN BytesOf = Blocks /\ \A b \in Blocks : BytesOf[b] = 0
    BY <1>3 DEF BytesOf
  <2>4. SumFunction(BytesOf) = 0
    BY <1>b, <2>3, SumOfZeros
  <2> QED
    BY <1>8, <2>2, <2>4 DEF BytesInv
<1>10. \A t \in HeapThreads : \A r \in Routines :
         mem[t][r].cur = 0 /\ mem[t][r].maxself = 0 /\ mem[t][r].maxall = 0
  BY DEF HeapInit, NoKey
<1>11. CursInv
  <2>1. ASSUME NEW t \in HeapThreads
        PROVE  SumFunction(CurOf(t)) = 0
    <3>1. DOMAIN CurOf(t) = Routines /\ \A r \in Routines : CurOf(t)[r] = 0
      BY <1>10 DEF CurOf
    <3> QED
      BY <1>b, <3>1, SumOfZeros
  <2>2. DOMAIN CursOf = HeapThreads /\ \A t \in HeapThreads : CursOf[t] = 0
    BY <2>1 DEF CursOf
  <2>3. SumFunction(CursOf) = 0
    BY <1>b, <2>2, SumOfZeros
  <2> QED
    BY <2>3, <1>8 DEF CursInv
<1>12. SelfInv
  BY <1>10 DEF SelfInv
<1>13. PeakInv
  <2>1. /\ DOMAIN maxcurheapa = HeapThreads /\ \A t \in HeapThreads : maxcurheapa[t] = 0
        /\ \A t \in HeapThreads : curalloca[t] = 0 /\ peak = 0
    BY DEF HeapInit
  <2>2. SumFunction(maxcurheapa) = 0
    BY <1>b, <2>1, SumOfZeros
  <2>3. peak = 0
    BY DEF HeapInit
  <2> QED
    BY <2>1, <2>2, <2>3 DEF PeakInv
<1>14. HitsInv
  <2>1. ASSUME NEW r \in 0..Ranges
        PROVE  SumFunction(HitOf(r)) = 0
    <3>0. \A t \in HeapThreads : hits["malloc"][t][r] = 0 /\ hits["free"][t][r] = 0
      BY DEF HeapInit
    <3>1. DOMAIN HitOf(r) = HeapThreads /\ \A t \in HeapThreads : HitOf(r)[t] = 0
      BY <3>0 DEF HitOf
    <3> QED
      BY <1>b, <3>1, SumOfZeros
  <2>2. DOMAIN HitsOf = 0..Ranges /\ \A r \in 0..Ranges : HitsOf[r] = 0
    BY <2>1 DEF HitsOf
  <2>3. SumFunction(HitsOf) = 0
    BY <1>b, <2>2, SumOfZeros
  <2>4. DOMAIN NotHitOf = HeapThreads /\ \A t \in HeapThreads : NotHitOf[t] = 0
    BY <1>6 DEF NotHitOf
  <2>5. SumFunction(NotHitOf) = 0
    BY <1>b, <2>4, SumOfZeros
  <2>6. Cardinality(Alive) = 0
    BY <1>3, FS_EmptySet DEF Alive
  <2> QED
    BY <2>3, <2>5, <2>6 DEF HitsInv
<1>15. NoFalseWarning
  BY DEF HeapInit, NoFalseWarning
<1> QED
  BY <1>1, <1>2, <1>4, <1>7, <1>9, <1>11, <1>12, <1>13, <1>14, <1>15 DEF HeapInv

LEMMA HeapStepInv ==
  HeapInv /\ [HeapNext]_heapVars => HeapInv'
<1> SUFFICES ASSUME HeapInv, [HeapNext]_heapVars
             PROVE  HeapInv'
  OBVIOUS
<1>i. /\ HeapTypes /\ SomeRoutine /\ SizesInv /\ GuardsInv /\ JobsInv
      /\ BytesInv /\ CursInv /\ SelfInv /\ PeakInv /\ HitsInv /\ NoFalseWarning
  BY DEF HeapInv
<1>1. CASE HeapNext
  <2>1. build' = build /\ ops' \in 0..MaxOps
    BY <1>1, <1>i, StepOfThread
  <2>2. PICK t \in HeapThreads : HeapStep(t)
    BY <1>1, <1>i, StepOfThread
  <2>3. HeapTypes' /\ SomeRoutine'
    BY <1>i, <2>1, <2>2, TypesStep
  <2>4. SizesInv' /\ GuardsInv'
    BY <1>i, <2>1, <2>2, SizesStep
  <2>5. JobsInv'
    BY <1>i, <2>1, <2>2, JobsStep
  <2>6. BytesInv'
    BY <1>i, <2>1, <2>2, <2>3, <2>4, <2>5, BytesStep
  <2>7. CursInv'
    BY <1>i, <2>1, <2>2, <2>3, CursStep
  <2>8. SelfInv'
    BY <1>i, <2>1, <2>2, <2>3, SelfStep
  <2>9. PeakInv'
    BY <1>i, <2>1, <2>2, <2>3, PeakStep
  <2>10. HitsInv'
    BY <1>i, <2>1, <2>2, <2>3, HitsStep
  <2>11. NoFalseWarning'
    BY <1>i, <2>1, <2>2, WarningStep
  <2> QED
    BY <2>3, <2>4, <2>5, <2>6, <2>7, <2>8, <2>9, <2>10, <2>11 DEF HeapInv
<1>2. CASE UNCHANGED heapVars
  <2>0. /\ UNCHANGED <<build, block, curalloca, maxcurheapa, lock, hits, mem, stack, job, warned>>
        /\ UNCHANGED <<overran, peak, ops>>
    BY <1>2 DEF heapVars
  <2>a. /\ HeapThreads' = HeapThreads /\ Routines' = Routines /\ Sizes' = Sizes /\ MaxOps' = MaxOps
        /\ NansFill' = NansFill /\ NecSx' = NecSx /\ MemProf' = MemProf /\ ProfileHeap' = ProfileHeap
    BY <2>0 DEF HeapThreads, Routines, Sizes, MaxOps, NansFill, NecSx, MemProf, ProfileHeap
  <2>1. HeapTypes' /\ SomeRoutine'
    BY <1>i, <2>0, <2>a DEF HeapTypes, HeapBlock, SomeRoutine
  <2>2. SizesInv' /\ GuardsInv'
    <3>1. \A size \in Sizes : StoredSize(size)' = StoredSize(size)
      BY <2>a DEF StoredSize
    <3> QED
      BY <1>i, <2>0, <2>a, <3>1 DEF SizesInv, GuardsInv
  <2>3. \A t \in HeapThreads : /\ Held(t)' = Held(t) /\ Making(t)' = Making(t)
                               /\ Uncounted(t)' = Uncounted(t) /\ NotHit(t)' = NotHit(t)
    BY <2>0 DEF Held, Making, Uncounted, NotHit
  <2>4. JobsInv'
    BY <1>i, <2>0, <2>a, <2>3 DEF JobsInv
  <2>5. HeadersTell' = HeadersTell
    BY <2>a DEF HeadersTell, StoredSize
  <2>6. BytesInv'
    <3>1. UncountedOf' = UncountedOf /\ BytesOf' = BytesOf
      BY <2>0, <2>a, <2>3 DEF UncountedOf, BytesOf
    <3> QED
      BY <1>i, <2>0, <2>5, <3>1 DEF BytesInv
  <2>7. CursInv'
    <3>1. CursOf' = CursOf
      BY <2>0, <2>a DEF CursOf, CurOf
    <3> QED
      BY <1>i, <2>0, <2>a, <3>1 DEF CursInv
  <2>8. SelfInv' /\ PeakInv'
    BY <1>i, <2>0, <2>a DEF SelfInv, PeakInv
  <2>9. HitsInv'
    <3>1. HitsOf' = HitsOf /\ NotHitOf' = NotHitOf /\ Alive' = Alive
      BY <2>0, <2>a, <2>3 DEF HitsOf, HitOf, NotHitOf, Alive
    <3> QED
      BY <1>i, <2>a, <3>1 DEF HitsInv
  <2>10. NoFalseWarning'
    BY <1>i, <2>0, <2>5 DEF NoFalseWarning
  <2> QED
    BY <2>1, <2>2, <2>4, <2>6, <2>7, <2>8, <2>9, <2>10 DEF HeapInv
<1> QED
  BY <1>1, <1>2

\* What the reports say of the memory follows from the invariant.
LEMMA OutstandingIsSum ==
  ASSUME HeapInv
  PROVE  Outstanding = SumFunction(BytesOf)
<1>1. BytesTyped
  BY BytesTypes DEF HeapInv
<1>2. PICK f : f = BytesOf
  OBVIOUS
<1>3. f \in [Blocks -> Int] /\ DOMAIN f = Blocks
  BY <1>1, <1>2 DEF BytesTyped
<1>4. Summable(f)
  BY <1>3, HeapAssumption DEF Summable
<1>5. PICK g : g = [b \in Alive |-> block[b].bytes]
  OBVIOUS
<1>6. Alive \in SUBSET (DOMAIN f) /\ DOMAIN g = Alive
  BY <1>3, <1>5 DEF Alive
<1>7. \A b \in DOMAIN f : b \notin Alive => f[b] = 0
  BY <1>2, <1>3 DEF BytesOf, Alive
<1>8. \A b \in Alive : g[b] = f[b]
  BY <1>2, <1>5 DEF BytesOf, Alive
<1>9. SumFunction(g) = SumFunction(f)
  BY <1>4, <1>6, <1>7, <1>8, SumSubset
<1> QED
  BY <1>2, <1>5, <1>9 DEF Outstanding

LEMMA InvAccounts ==
  HeapInv => MemoryAccounts
<1> SUFFICES ASSUME HeapInv
             PROVE  MemoryAccounts
  OBVIOUS
<1>i. /\ HeapTypes /\ SizesInv /\ JobsInv /\ BytesInv /\ CursInv /\ SelfInv /\ PeakInv /\ HitsInv
      /\ NoFalseWarning
  BY DEF HeapInv
<1>b. build \in Builds /\ IsFiniteSet(HeapThreads) /\ 1 \in HeapThreads
  BY <1>i, BuildTypes DEF HeapTypes
<1>1. HeapTypeOK
  <2>1. \A t \in HeapThreads : curalloca[t] \in Int /\ maxcurheapa[t] \in Nat
    BY <1>i DEF HeapTypes
  <2>2. \A t \in HeapThreads : job[t].at \in {"idle", "malloc", "locked", "counted", "free", "freed"}
    <3> SUFFICES ASSUME NEW t \in HeapThreads
                 PROVE  job[t].at \in {"idle", "malloc", "locked", "counted", "free", "freed"}
      OBVIOUS
    <3>1. job[t] \in {NoJob} \cup MakingJobs \cup FreeJobs \cup FreedJobs
      BY <1>i, JobShapes
    <3> QED
      BY <3>1 DEF NoJob, MakingJobs, FreeJobs, FreedJobs
  <2>3. \A t \in HeapThreads : \A r \in Routines : mem[t][r] \in HeapKeys
    BY <1>i DEF HeapTypes
  <2>4. lock \in HeapThreads \cup {0} /\ ops \in 0..MaxOps
    BY <1>i DEF HeapTypes
  <2> QED
    BY <2>1, <2>2, <2>3, <2>4 DEF HeapTypeOK, HeapKeys
<1>2. ASSUME NoCall
      PROVE  SumFunction(UncountedOf) = 0 /\ SumFunction(NotHitOf) = 0
  <2>1. \A t \in HeapThreads : job[t].at = "idle"
    BY <1>2 DEF NoCall, NoJob
  <2>2. \A t \in HeapThreads : Uncounted(t) = 0 /\ NotHit(t) = 0
    BY <2>1 DEF Uncounted, NotHit, Making
  <2>3. DOMAIN UncountedOf = HeapThreads /\ \A t \in HeapThreads : UncountedOf[t] = 0
    BY <2>2 DEF UncountedOf
  <2>4. DOMAIN NotHitOf = HeapThreads /\ \A t \in HeapThreads : NotHitOf[t] = 0
    BY <2>2 DEF NotHitOf
  <2>5. SumFunction(UncountedOf) = 0
    BY <1>b, <2>3, SumOfZeros
  <2>6. SumFunction(NotHitOf) = 0
    BY <1>b, <2>4, SumOfZeros
  <2> QED
    BY <2>5, <2>6
<1>3. SumFunction(curalloca) \in Int /\ SumFunction(maxcurheapa) \in Int
  <2>1. curalloca \in [HeapThreads -> Int] /\ maxcurheapa \in [HeapThreads -> Nat]
    BY <1>i DEF HeapTypes
  <2>2. \A f \in [HeapThreads -> Nat] : f \in [HeapThreads -> Int]
    OBVIOUS
  <2> QED
    BY <1>b, <2>1, <2>2, SumOfThreads
<1>4. ASSUME HeadersTell, NoCall
      PROVE  SumFunction(curalloca) = Outstanding
  <2>1. SumFunction(curalloca) + SumFunction(UncountedOf) = SumFunction(BytesOf)
    BY <1>4, <1>i DEF BytesInv
  <2>2. SumFunction(curalloca) = SumFunction(BytesOf)
    BY <2>1, <1>2, <1>3, <1>4
  <2> QED
    BY <2>2, OutstandingIsSum
<1>5. HeapIsOutstanding
  BY <1>4 DEF HeapIsOutstanding, GetCurHeap
<1>6. PeakIsCovered
  <2>1. peak \in Int
    BY <1>i DEF HeapTypes
  <2> QED
    BY <2>1, <1>i, <1>3 DEF PeakIsCovered, GetMaxCurHeap, PeakInv
<1>7. HitsBalance
  <2> SUFFICES ASSUME ProfileHeap, NoCall
               PROVE  SumFunction([r \in 0..Ranges |-> OutstandingHits(r)]) = Cardinality(Alive)
    BY DEF HitsBalance
  <2>1. HitsOf = [r \in 0..Ranges |-> OutstandingHits(r)]
    BY DEF HitsOf, HitOf, OutstandingHits
  <2>2. SumFunction(HitsOf) + SumFunction(NotHitOf) = Cardinality(Alive)
    BY <1>i DEF HitsInv
  <2>3. HitsOf \in [0..Ranges -> Int]
    BY <1>i, HitsTypes DEF HitsTyped
  <2>4. 0 \in 0..Ranges
    BY HeapAssumption
  <2>5. SumFunction(HitsOf) \in Int
    BY <2>3, <2>4, RangesSum
  <2> QED
    BY <2>1, <2>2, <2>5, <1>2
<1>8. LeaksAddUp
  <2> SUFFICES ASSUME HeadersTell, MemProf, NoCall
               PROVE  Outstanding = SumFunction([t \in HeapThreads |-> SumFunction([r \in Routines |-> mem[t][r].cur])])
    BY DEF LeaksAddUp
  <2>1. CursOf = [t \in HeapThreads |-> SumFunction([r \in Routines |-> mem[t][r].cur])]
    BY DEF CursOf, CurOf
  <2>2. SumFunction(CursOf) = SumFunction(curalloca)
    BY <1>i DEF CursInv
  <2> QED
    BY <2>1, <2>2, <1>4
<1>9. SelfWithinAll
  BY <1>i DEF SelfInv, SelfWithinAll
<1> QED
  BY <1>1, <1>5, <1>6, <1>7, <1>8, <1>9, <1>i DEF MemoryAccounts

\* The invariant holds of every program, build and number of threads.
THEOREM HeapInvHolds == HeapSpec => []HeapInv
<1>1. HeapInit => HeapInv
  BY HeapInitInv
<1>2. HeapInv /\ [HeapNext]_heapVars => HeapInv'
  BY HeapStepInv
<1> QED
  BY <1>1, <1>2, PTL DEF HeapSpec

\* The heap reported is what is allocated, the largest amount is not below what
\* there ever was, the hits balance with the blocks in use, what is charged to
\* the routines adds up to the heap, and a program that stays within its blocks
\* is not warned: getcurheap, getmaxcurheap, profile_heap_get, memprof.
THEOREM MemoryAccountsHolds == HeapSpec => []MemoryAccounts
<1>1. HeapInv => MemoryAccounts
  BY InvAccounts
<1> QED
  BY <1>1, HeapInvHolds, PTL

\* With EC_FILL_NANS a block whose end was overwritten is found when it is freed,
\* whatever calls of other threads come in between (EC_free).
THEOREM OverrunFoundHolds == HeapSpec => OverrunFound
<1>1. HeapInv /\ [HeapNext]_heapVars => [OverrunReported]_<<block, warned>>
  <2> SUFFICES ASSUME HeapInv, [HeapNext]_heapVars
               PROVE  [OverrunReported]_<<block, warned>>
    OBVIOUS
  <2>i. HeapTypes /\ SomeRoutine /\ SizesInv /\ JobsInv
    BY DEF HeapInv
  <2>1. CASE HeapNext
    <3>1. PICK t \in HeapThreads : HeapStep(t)
      BY <2>1, <2>i, StepOfThread
    <3> QED
      BY <2>i, <3>1, OverrunStep
  <2>2. CASE UNCHANGED heapVars
    BY <2>2 DEF heapVars
  <2> QED
    BY <2>1, <2>2
<1> QED
  BY <1>1, HeapInvHolds, PTL DEF HeapSpec, OverrunFound

-----------------------------------------------------------------------------
(* ----------------------- the calls of DR_HOOK ---------------------------- *)
(* The state of one thread: o its options, kd its table, tr and th its tree *)
(* and the node it is at, ck its current key, cs its stack of handles and   *)
(* fr the routines it is really in.                                         *)

Ptrs(o) == (Range(o.Hash) \cup {0}) \X Nat
KeyRecs(o) == [name : Range(o.Canon), path : Seq(Ptrs(o)), in : Int, all : Int, child : Int,
               calls : Int, status : Int]
Tables(o) == [Range(o.Hash) -> Seq(KeyRecs(o))]
Trees(o) == Seq([active : BOOLEAN, key : Ptrs(o)])
Frames(o) == Seq([name : Range(o.Canon), node : Nat, handle : Ptrs(o)])

\* The number of nodes that are active
Deep(tr, th) == IF tr[th].active THEN th ELSE 0

TreeShape(tr, th) ==
  /\ th \in 1 .. Len(tr)
  /\ \A i \in 1 .. Len(tr) : tr[i].active <=> i <= Deep(tr, th)
  /\ ~tr[th].active => th = 1

-----------------------------------------------------------------------------
(* The tree. *)

FreeIn(tr, th) == Min({i \in th .. Len(tr) : ~tr[i].active} \cup {Len(tr) + 1})
WithNode(tr, th, p) ==
  IF FreeIn(tr, th) \in DOMAIN tr THEN [tr EXCEPT ![FreeIn(tr, th)] = Node(p)]
  ELSE Append(tr, Node(p))

LEMMA MinIs ==
  ASSUME NEW S, NEW m \in S, \A x \in S : m <= x, S \subseteq Int
  PROVE  Min(S) = m
<1>1. \E x \in S : \A y \in S : x =< y
  OBVIOUS
<1>2. Min(S) \in S /\ \A y \in S : Min(S) =< y
  BY <1>1 DEF Min
<1>3. Min(S) \in Int /\ m \in Int /\ Min(S) <= m /\ m <= Min(S)
  BY <1>2
<1> QED
  BY <1>3

LEMMA DeepIs ==
  ASSUME NEW o, NEW tr \in Trees(o), NEW th, TreeShape(tr, th)
  PROVE  /\ Deep(tr, th) \in 0 .. Len(tr) /\ Deep(tr, th) \in {th - 1, th}
         /\ th \in Nat \ {0} /\ Len(tr) \in Nat
         /\ (Deep(tr, th) = 0 <=> ~tr[th].active) /\ (Deep(tr, th) > 0 => Deep(tr, th) = th)
         /\ Deep(tr, th) < th => Deep(tr, th) = 0 /\ th = 1
<1>1. Len(tr) \in Nat
  BY DEF Trees
<1>2. th \in Nat \ {0} /\ th <= Len(tr)
  BY <1>1 DEF TreeShape
<1>3. CASE tr[th].active
  <2>1. Deep(tr, th) = th
    BY <1>3 DEF Deep
  <2> QED
    BY <1>1, <1>2, <1>3, <2>1
<1>4. CASE ~tr[th].active
  <2>1. Deep(tr, th) = 0 /\ th = 1
    BY <1>4 DEF Deep, TreeShape
  <2> QED
    BY <1>1, <1>2, <1>4, <2>1
<1> QED
  BY <1>3, <1>4

LEMMA FreeIs ==
  ASSUME NEW o, NEW tr \in Trees(o), NEW th, TreeShape(tr, th)
  PROVE  FreeIn(tr, th) = Deep(tr, th) + 1
<1> DEFINE m == Deep(tr, th) + 1
           S == {i \in th .. Len(tr) : ~tr[i].active} \cup {Len(tr) + 1}
<1>1. m \in Nat /\ m <= Len(tr) + 1 /\ th <= m /\ Len(tr) \in Nat
  BY DeepIs
<1>0. ASSUME NEW i \in 1 .. Len(tr) PROVE tr[i].active <=> i < m
  <2>1. tr[i].active <=> i <= Deep(tr, th)
    BY DEF TreeShape
  <2> QED
    BY <1>1, <2>1, DeepIs
<1>2. m \in S
  <2>1. CASE m = Len(tr) + 1
    BY <2>1
  <2>2. CASE m # Len(tr) + 1
    <3>1. m \in th .. Len(tr) /\ m \in 1 .. Len(tr)
      BY <1>1, <2>2, DeepIs
    <3> HIDE DEF m
    <3>2. ~tr[m].active
      BY <1>0, <1>1, <3>1
    <3> QED
      BY <3>1, <3>2
  <2> QED
    BY <2>1, <2>2
<1>3. ASSUME NEW x \in S PROVE m <= x
  <2>1. CASE x \in th .. Len(tr) /\ ~tr[x].active
    <3>1. x \in 1 .. Len(tr)
      BY <1>1, <2>1, DeepIs
    <3>2. ~(x < m)
      BY <1>0, <2>1, <3>1
    <3> HIDE DEF m
    <3> QED
      BY <1>1, <3>1, <3>2
  <2>2. CASE x = Len(tr) + 1
    BY <1>1, <2>2
  <2> QED
    BY <2>1, <2>2
<1>4. S \subseteq Int
  BY <1>1 DEF TreeShape
<1> QED
  BY <1>2, <1>3, <1>4, MinIs DEF FreeIn

\* An opening call: one node more is active, those below keep their keys.
LEMMA Opened ==
  ASSUME NEW o, NEW tr \in Trees(o), NEW th, TreeShape(tr, th), NEW p \in Ptrs(o)
  PROVE  /\ WithNode(tr, th, p) \in Trees(o)
         /\ TreeShape(WithNode(tr, th, p), FreeIn(tr, th))
         /\ Deep(WithNode(tr, th, p), FreeIn(tr, th)) = Deep(tr, th) + 1
         /\ Len(WithNode(tr, th, p)) >= Len(tr)
         /\ WithNode(tr, th, p)[Deep(tr, th) + 1].key = p
         /\ \A i \in 1 .. Len(WithNode(tr, th, p)) : i # Deep(tr, th) + 1 =>
              i \in 1 .. Len(tr) /\ WithNode(tr, th, p)[i] = tr[i]
<1> DEFINE m == Deep(tr, th) + 1
           R == [active : BOOLEAN, key : Ptrs(o)]
           w == WithNode(tr, th, p)
<1>1. m \in Nat \ {0} /\ m <= Len(tr) + 1 /\ Len(tr) \in Nat /\ FreeIn(tr, th) = m
  BY DeepIs, FreeIs
<1>2. tr \in Seq(R) /\ Node(p) \in R /\ Node(p).active /\ Node(p).key = p
  BY DEF Trees, Node
<1>3. /\ w \in Seq(R) /\ Len(w) >= Len(tr) /\ Len(w) \in Nat /\ m <= Len(w) /\ w[m] = Node(p)
      /\ \A i \in 1 .. Len(w) : i # m => i \in 1 .. Len(tr) /\ w[i] = tr[i]
  <2>1. CASE m \in DOMAIN tr
    <3>1. w = [tr EXCEPT ![m] = Node(p)]
      BY <1>1, <2>1 DEF WithNode
    <3> HIDE DEF w, R, m
    <3> QED
      BY <1>1, <1>2, <2>1, <3>1
  <2>2. CASE m \notin DOMAIN tr
    <3>1. w = Append(tr, Node(p)) /\ m = Len(tr) + 1
      BY <1>1, <1>2, <2>2 DEF WithNode
    <3> HIDE DEF w, R, m
    <3> QED
      BY <1>1, <1>2, <3>1
  <2> QED
    BY <2>1, <2>2
<1>4. Deep(w, m) = m
  BY <1>1, <1>2, <1>3 DEF Deep
<1>5. ASSUME NEW i \in 1 .. Len(w) PROVE w[i].active <=> i <= m
  <2>1. CASE i = m
    BY <1>1, <1>2, <1>3, <2>1
  <2>2. CASE i # m
    <3>1. i \in 1 .. Len(tr) /\ w[i] = tr[i]
      BY <1>3, <2>2
    <3>2. tr[i].active <=> i <= Deep(tr, th)
      BY <3>1 DEF TreeShape
    <3>3. i <= Deep(tr, th) <=> i <= m
      BY <1>1, <2>2, DeepIs
    <3> QED
      BY <3>1, <3>2, <3>3
  <2> QED
    BY <2>1, <2>2
<1>6. TreeShape(w, m)
  <2>1. m \in 1 .. Len(w) /\ w[m].active
    BY <1>1, <1>2, <1>3
  <2> HIDE DEF w, m
  <2> QED
    BY <1>4, <1>5, <2>1 DEF TreeShape
<1>7. w \in Trees(o)
  BY <1>3 DEF Trees
<1>8. FreeIn(tr, th) = m /\ w[m].key = p
  BY <1>1, <1>2, <1>3
<1> QED
  BY <1>3, <1>4, <1>6, <1>7, <1>8

LEMMA OneReplaced ==
  ASSUME NEW R, NEW s \in Seq(R), NEW i \in 1 .. Len(s), NEW n \in R
  PROVE  /\ [s EXCEPT ![i] = n] \in Seq(R) /\ Len([s EXCEPT ![i] = n]) = Len(s)
         /\ [s EXCEPT ![i] = n][i] = n
         /\ \A j \in 1 .. Len(s) : j # i => [s EXCEPT ![i] = n][j] = s[j]
OBVIOUS

LEMMA NodeClosed ==
  ASSUME NEW P, NEW n \in [active : BOOLEAN, key : P]
  PROVE  /\ [n EXCEPT !.active = FALSE] \in [active : BOOLEAN, key : P]
         /\ ~[n EXCEPT !.active = FALSE].active /\ [n EXCEPT !.active = FALSE].key = n.key
OBVIOUS

Closing(tr, th) == [tr EXCEPT ![th].active = FALSE]

\* A closing call: the node on top is not active any more, all keep their keys.
LEMMA Closed ==
  ASSUME NEW o, NEW tr \in Trees(o), NEW th, TreeShape(tr, th), tr[th].active,
         NEW w, w = Closing(tr, th), NEW below, below = Max({1, th - 1})
  PROVE  /\ w \in Trees(o) /\ Len(w) = Len(tr)
         /\ TreeShape(w, below) /\ Deep(w, below) = Deep(tr, th) - 1
         /\ \A i \in 1 .. Len(tr) : w[i].key = tr[i].key
<1>1. Deep(tr, th) = th /\ th \in Nat \ {0} /\ th <= Len(tr) /\ Len(tr) \in Nat
  BY DeepIs DEF Deep, TreeShape
<1>2. below = IF th = 1 THEN 1 ELSE th - 1
  <2> DEFINE S == {1, th - 1}
             m == IF th = 1 THEN 1 ELSE th - 1
  <2>1. m \in S /\ \A x \in S : x <= m
    BY <1>1
  <2>2. Max(S) = m
    BY <1>1, <2>1 DEF Max
  <2> QED
    BY <2>2
<1> DEFINE R == [active : BOOLEAN, key : Ptrs(o)]
<1>3. tr \in Seq(R) /\ tr[th] \in R
  <2>1. tr \in Seq(R)
    BY DEF Trees
  <2> HIDE DEF R
  <2> QED
    BY <1>1, <2>1
<1>4. [tr[th] EXCEPT !.active = FALSE] \in R
  BY <1>3, NodeClosed
<1> HIDE DEF R
<1>5. /\ w \in Seq(R) /\ Len(w) = Len(tr)
      /\ \A i \in 1 .. Len(tr) : i # th => w[i] = tr[i]
      /\ w[th] = [tr[th] EXCEPT !.active = FALSE]
  <2> DEFINE n == [tr[th] EXCEPT !.active = FALSE]
  <2>1. w = [tr EXCEPT ![th] = n]
    BY DEF Closing
  <2>2. n \in R
    BY <1>4
  <2> HIDE DEF n
  <2>3. /\ w \in Seq(R) /\ Len(w) = Len(tr)
        /\ \A i \in 1 .. Len(tr) : i # th => w[i] = tr[i]
        /\ w[th] = n
    BY ONLY <1>1, <1>3, <2>1, <2>2, OneReplaced
  <2> QED
    BY <2>3 DEF n
<1>6. w[th].key = tr[th].key /\ ~w[th].active
  BY <1>3, <1>5, NodeClosed DEF R
<1>7. ASSUME NEW i \in 1 .. Len(tr) PROVE w[i].key = tr[i].key /\ (w[i].active <=> i <= th - 1)
  <2>1. CASE i = th
    BY <1>1, <1>6, <2>1
  <2>2. CASE i # th
    <3>1. tr[i].active <=> i <= th
      BY <1>1 DEF TreeShape
    <3> QED
      BY <1>1, <1>5, <2>2, <3>1
  <2> QED
    BY <2>1, <2>2
<1>8. below \in 1 .. Len(tr)
  BY <1>1, <1>2
<1>9. Deep(w, below) = th - 1
  <2>1. w[below].active <=> below <= th - 1
    BY <1>7, <1>8
  <2> QED
    BY <1>1, <1>2, <2>1 DEF Deep
<1>10. TreeShape(w, below)
  <2>1. ~w[below].active => below = 1
    BY <1>1, <1>2, <1>7, <1>8
  <2> QED
    BY <1>5, <1>7, <1>8, <1>9, <2>1 DEF TreeShape
<1>11. w \in Trees(o)
  BY <1>5 DEF Trees, R
<1> QED
  BY <1>1, <1>5, <1>7, <1>9, <1>10, <1>11

-----------------------------------------------------------------------------
(* The table of the routines. *)

LEMMA KeysAre ==
  ASSUME NEW o, NEW kd \in Tables(o)
  PROVE  /\ \A p \in KeysOf(kd) : /\ p[1] \in Range(o.Hash) /\ p[2] \in 1 .. Len(kd[p[1]])
                                   /\ p = <<p[1], p[2]>> /\ p \in Ptrs(o) /\ p # Null
                                   /\ KeyAt(kd, p) \in KeyRecs(o)
         /\ \A b \in Range(o.Hash) : \A i \in 1 .. Len(kd[b]) : <<b, i>> \in KeysOf(kd)
<1>1. DOMAIN kd = Range(o.Hash) /\ \A b \in Range(o.Hash) : kd[b] \in Seq(KeyRecs(o))
  BY DEF Tables
<1>2. ASSUME NEW p \in KeysOf(kd)
      PROVE  /\ p[1] \in Range(o.Hash) /\ p[2] \in 1 .. Len(kd[p[1]]) /\ p = <<p[1], p[2]>>
             /\ p \in Ptrs(o) /\ p # Null /\ KeyAt(kd, p) \in KeyRecs(o)
  <2>1. PICK b \in Range(o.Hash) : p \in {b} \X DOMAIN kd[b]
    BY <1>1 DEF KeysOf
  <2>2. PICK i \in DOMAIN kd[b] : p = <<b, i>>
    BY <2>1
  <2>3. i \in 1 .. Len(kd[b]) /\ kd[b][i] \in KeyRecs(o) /\ i \in Nat \ {0}
    <3> DEFINE R == KeyRecs(o)
    <3>1. kd[b] \in Seq(R)
      BY <1>1
    <3> HIDE DEF R
    <3>2. i \in 1 .. Len(kd[b]) /\ kd[b][i] \in R /\ Len(kd[b]) \in Nat
      BY <3>1
    <3> QED
      BY <3>2 DEF R
  <2> QED
    BY <2>2, <2>3 DEF Ptrs, Null, KeyAt
<1>3. ASSUME NEW b \in Range(o.Hash), NEW i \in 1 .. Len(kd[b])
      PROVE  <<b, i>> \in KeysOf(kd)
  <2>1. i \in DOMAIN kd[b]
    BY <1>1
  <2>2. <<b, i>> \in {b} \X DOMAIN kd[b]
    BY <2>1
  <2> QED
    BY <1>1, <2>2 DEF KeysOf
<1> QED
  BY <1>2, <1>3

\* One key of the table replaced
LEMMA KeyReplaced ==
  ASSUME NEW o, NEW kd \in Tables(o), NEW p \in KeysOf(kd), NEW k \in KeyRecs(o),
         NEW w, w = Put(kd, p, k)
  PROVE  /\ w \in Tables(o) /\ KeysOf(w) = KeysOf(kd)
         /\ KeyAt(w, p) = k
         /\ \A q \in KeysOf(kd) : q # p => KeyAt(w, q) = KeyAt(kd, q)
<1> DEFINE b == p[1]  i == p[2]
           R == KeyRecs(o)
           c == [kd[b] EXCEPT ![i] = k]
<1>1. b \in Range(o.Hash) /\ i \in 1 .. Len(kd[b]) /\ p = <<b, i>>
  BY KeysAre
<1>2. DOMAIN kd = Range(o.Hash) /\ \A a \in Range(o.Hash) : kd[a] \in Seq(R)
  BY DEF Tables
<1>3. /\ c \in Seq(R) /\ Len(c) = Len(kd[b]) /\ c[i] = k
      /\ \A j \in 1 .. Len(kd[b]) : j # i => c[j] = kd[b][j]
  <2>1. kd[b] \in Seq(R) /\ k \in R
    BY <1>1, <1>2
  <2> HIDE DEF R, b, i
  <2> QED
    BY <1>1, <2>1, OneReplaced
<1>4. w = [kd EXCEPT ![b] = c]
  BY DEF Put
<1> HIDE DEF c
<1>5. DOMAIN w = Range(o.Hash) /\ w[b] = c /\ \A a \in Range(o.Hash) : a # b => w[a] = kd[a]
  BY ONLY <1>1, <1>2, <1>4
<1>6. w \in Tables(o)
  <2>1. \A a \in Range(o.Hash) : w[a] \in Seq(R)
    BY ONLY <1>2, <1>3, <1>5
  <2>2. w = [a \in Range(o.Hash) |-> w[a]]
    BY ONLY <1>4, <1>5, <1>2
  <2> HIDE DEF R
  <2>3. w \in [Range(o.Hash) -> Seq(R)]
    BY ONLY <2>1, <2>2
  <2> QED
    BY <2>3 DEF Tables, R
<1>7. \A a \in Range(o.Hash) : DOMAIN w[a] = DOMAIN kd[a]
  <2>1. DOMAIN c = DOMAIN kd[b]
    <3> HIDE DEF R, b, i
    <3> QED
      BY ONLY <1>1, <1>2, <1>3
  <2> QED
    BY ONLY <1>1, <1>5, <2>1
<1>8. KeysOf(w) = KeysOf(kd)
  BY ONLY <1>2, <1>5, <1>7 DEF KeysOf
<1>9. KeyAt(w, p) = k
  BY <1>3, <1>5 DEF KeyAt
<1>10. ASSUME NEW q \in KeysOf(kd), q # p PROVE KeyAt(w, q) = KeyAt(kd, q)
  <2>1. q[1] \in Range(o.Hash) /\ q[2] \in 1 .. Len(kd[q[1]]) /\ q = <<q[1], q[2]>>
    BY KeysAre
  <2>2. CASE q[1] = b
    <3>1. q[2] # i
      BY <1>1, <1>10, <2>1, <2>2
    <3>2. c[q[2]] = kd[b][q[2]]
      BY <1>3, <2>1, <2>2, <3>1
    <3>3. KeyAt(w, q) = c[q[2]] /\ KeyAt(kd, q) = kd[b][q[2]]
      BY <1>5, <2>2 DEF KeyAt
    <3> QED
      BY <3>2, <3>3
  <2>3. CASE q[1] # b
    BY <1>5, <2>1, <2>3 DEF KeyAt
  <2> QED
    BY <2>2, <2>3
<1> QED
  BY <1>6, <1>8, <1>9, <1>10

\* One key more at the end of a chain
Added(kd, b, k) == [kd EXCEPT ![b] = Append(@, k)]

LEMMA KeyAdded ==
  ASSUME NEW o, NEW kd \in Tables(o), NEW b \in Range(o.Hash), NEW k \in KeyRecs(o),
         NEW w, w = Added(kd, b, k),
         NEW p, p = <<b, Len(kd[b]) + 1>>
  PROVE  /\ w \in Tables(o) /\ KeysOf(w) = KeysOf(kd) \cup {p} /\ p \notin KeysOf(kd)
         /\ KeyAt(w, p) = k
         /\ \A q \in KeysOf(kd) : KeyAt(w, q) = KeyAt(kd, q)
<1> DEFINE R == KeyRecs(o)
           c == Append(kd[b], k)
           n == Len(kd[b]) + 1
<1>1. DOMAIN kd = Range(o.Hash) /\ \A a \in Range(o.Hash) : kd[a] \in Seq(R)
  BY DEF Tables
<1>2. /\ c \in Seq(R) /\ Len(c) = n /\ c[n] = k /\ n \in Nat \ {0}
      /\ \A j \in 1 .. Len(kd[b]) : c[j] = kd[b][j]
      /\ DOMAIN c = DOMAIN kd[b] \cup {n} /\ n \notin DOMAIN kd[b]
  <2>1. kd[b] \in Seq(R) /\ k \in R
    BY <1>1
  <2> HIDE DEF R
  <2> QED
    BY <2>1
<1>3. w = [kd EXCEPT ![b] = c]
  BY DEF Added
<1> HIDE DEF c
<1>4. DOMAIN w = Range(o.Hash) /\ w[b] = c /\ \A a \in Range(o.Hash) : a # b => w[a] = kd[a]
  BY ONLY <1>1, <1>3, b \in Range(o.Hash)
<1>5. w \in Tables(o)
  <2>1. \A a \in Range(o.Hash) : w[a] \in Seq(R)
    BY ONLY <1>1, <1>2, <1>4
  <2>2. w = [a \in Range(o.Hash) |-> w[a]]
    BY ONLY <1>3, <1>4, <1>1
  <2> HIDE DEF R
  <2>3. w \in [Range(o.Hash) -> Seq(R)]
    BY ONLY <2>1, <2>2
  <2> QED
    BY <2>3 DEF Tables, R
<1>6. p \notin KeysOf(kd)
  <2>1. ASSUME p \in KeysOf(kd) PROVE FALSE
    <3>1. p[2] \in 1 .. Len(kd[p[1]]) /\ p[1] = b /\ p[2] = n
      BY <2>1, KeysAre
    <3> QED
      BY <1>2, <3>1
  <2> QED
    BY <2>1
<1>7. ASSUME NEW q PROVE q \in KeysOf(w) <=> q \in KeysOf(kd) \/ q = p
  <2>1. q \in KeysOf(w) <=> \E a \in Range(o.Hash) : q \in {a} \X DOMAIN w[a]
    BY <1>4 DEF KeysOf
  <2>2. q \in KeysOf(kd) <=> \E a \in Range(o.Hash) : q \in {a} \X DOMAIN kd[a]
    BY <1>1 DEF KeysOf
  <2>3. q \in {b} \X DOMAIN w[b] <=> q \in {b} \X DOMAIN kd[b] \/ q = p
    <3>1. DOMAIN w[b] = DOMAIN kd[b] \cup {n} /\ p = <<b, n>>
      BY <1>2, <1>4
    <3> HIDE DEF n
    <3> QED
      BY ONLY <3>1
  <2>4. \A a \in Range(o.Hash) : a # b => (q \in {a} \X DOMAIN w[a] <=> q \in {a} \X DOMAIN kd[a])
    BY <1>4
  <2> QED
    BY ONLY <2>1, <2>2, <2>3, <2>4, b \in Range(o.Hash)
<1>8. KeyAt(w, p) = k
  BY <1>2, <1>4 DEF KeyAt
<1>9. ASSUME NEW q \in KeysOf(kd) PROVE KeyAt(w, q) = KeyAt(kd, q)
  <2>1. q[1] \in Range(o.Hash) /\ q[2] \in 1 .. Len(kd[q[1]])
    BY KeysAre
  <2>2. CASE q[1] = b
    BY <1>2, <1>4, <2>1, <2>2 DEF KeyAt
  <2>3. CASE q[1] # b
    BY <1>4, <2>1, <2>3 DEF KeyAt
  <2> QED
    BY <2>2, <2>3
<1> QED
  BY <1>5, <1>6, <1>7, <1>8, <1>9

\* The search of getkey: the first key of the chain that matches, or its end
LEMMA SlotIs ==
  ASSUME NEW R, NEW chain \in Seq(R), NEW name, NEW path
  PROVE  /\ Slot(chain, name, path) \in 1 .. Len(chain) + 1
         /\ Slot(chain, name, path) \in DOMAIN chain =>
              Matches(chain[Slot(chain, name, path)], name, path)
         /\ Slot(chain, name, path) \notin DOMAIN chain =>
              /\ Slot(chain, name, path) = Len(chain) + 1
              /\ \A i \in DOMAIN chain : ~Matches(chain[i], name, path)
<1> DEFINE S == {i \in DOMAIN chain : Matches(chain[i], name, path)} \cup {Len(chain) + 1}
<1>1. Len(chain) \in Nat /\ DOMAIN chain = 1 .. Len(chain)
  OBVIOUS
<1>2. S \in SUBSET Nat /\ S # {}
  BY <1>1
<1>3. PICK m \in S : \A x \in S : m <= x
  BY <1>2, LeastNumber, Zenon
<1>4. Slot(chain, name, path) = m
  <2>1. S \subseteq Int
    BY <1>2
  <2>2. Min(S) = m
    BY <1>3, <2>1, MinIs
  <2> QED
    BY <2>2 DEF Slot
<1>5. m \in 1 .. Len(chain) + 1
  BY <1>1
<1>6. m \in DOMAIN chain => Matches(chain[m], name, path)
  BY <1>1
<1>7. ASSUME m \notin DOMAIN chain
      PROVE  m = Len(chain) + 1 /\ \A i \in DOMAIN chain : ~Matches(chain[i], name, path)
  <2>1. m = Len(chain) + 1
    BY <1>7
  <2>2. ASSUME NEW i \in DOMAIN chain, Matches(chain[i], name, path) PROVE FALSE
    <3>1. m <= i
      BY <1>3, <2>2
    <3> QED
      BY <1>1, <2>1, <3>1
  <2> QED
    BY <2>1, <2>2
<1> QED
  BY <1>4, <1>5, <1>6, <1>7

EnteredIn(kd, name, path, p, at) ==
  LET w == IF p[2] \in DOMAIN kd[p[1]] THEN kd
           ELSE Added(kd, p[1], Key(name, path))
  IN Put(w, p, EnteredKey(KeyAt(w, p), at))

KeyFor(o, kd, name, path) == <<o.Hash[name], Slot(kd[o.Hash[name]], name, path)>>

LEMMA EnteredKeyIs ==
  ASSUME NEW o, NEW k \in KeyRecs(o), NEW at \in Int
  PROVE  /\ EnteredKey(k, at) \in KeyRecs(o)
         /\ EnteredKey(k, at).name = k.name /\ EnteredKey(k, at).path = k.path
         /\ EnteredKey(k, at).in = at /\ EnteredKey(k, at).all = k.all
         /\ EnteredKey(k, at).child = k.child /\ EnteredKey(k, at).status = k.status + 1
<1> DEFINE N == Range(o.Canon)  Q == Seq(Ptrs(o))
<1>1. k \in [name : N, path : Q, in : Int, all : Int, child : Int, calls : Int, status : Int]
  BY DEF KeyRecs
<1> HIDE DEF N, Q
<1>2. k.calls + 1 \in Int /\ k.status + 1 \in Int
  BY <1>1
<1> DEFINE k1 == [k EXCEPT !.in = at]
           k2 == [k1 EXCEPT !.calls = k.calls + 1]
           k3 == [k2 EXCEPT !.status = k.status + 1]
<1>3. /\ k1 \in [name : N, path : Q, in : Int, all : Int, child : Int, calls : Int, status : Int]
      /\ k1.name = k.name /\ k1.path = k.path /\ k1.in = at /\ k1.all = k.all /\ k1.child = k.child
      /\ k1.calls = k.calls /\ k1.status = k.status
  BY <1>1
<1>4. EnteredKey(k, at) = k3
  BY <1>1 DEF EnteredKey
<1> HIDE DEF k1
<1>5. /\ k2 \in [name : N, path : Q, in : Int, all : Int, child : Int, calls : Int, status : Int]
      /\ k2.name = k.name /\ k2.path = k.path /\ k2.in = at /\ k2.all = k.all /\ k2.child = k.child
      /\ k2.status = k.status
  BY <1>2, <1>3
<1> HIDE DEF k2
<1>6. /\ k3 \in [name : N, path : Q, in : Int, all : Int, child : Int, calls : Int, status : Int]
      /\ k3.name = k.name /\ k3.path = k.path /\ k3.in = at /\ k3.all = k.all /\ k3.child = k.child
      /\ k3.status = k.status + 1
  BY <1>2, <1>5
<1> HIDE DEF k3
<1> QED
  BY <1>4, <1>6 DEF KeyRecs, N, Q

\* The key of an opening call: one of the table, or a new one at the end of its
\* chain, which then no other key is like
LEMMA EnteredIs ==
  ASSUME NEW o, NEW kd \in Tables(o), NEW name \in Range(o.Canon), o.Hash[name] \in Range(o.Hash),
         NEW path \in Seq(Ptrs(o)), NEW at \in Int,
         NEW p, p = KeyFor(o, kd, name, path),
         NEW w, w = EnteredIn(kd, name, path, p, at)
  PROVE  /\ w \in Tables(o) /\ KeysOf(w) = KeysOf(kd) \cup {p} /\ p \in Ptrs(o) /\ p # Null
         /\ \A q \in KeysOf(kd) : q # p => KeyAt(w, q) = KeyAt(kd, q)
         /\ p \in KeysOf(kd) =>
              /\ KeyAt(w, p) = EnteredKey(KeyAt(kd, p), at)
              /\ KeyAt(kd, p).name = name
         /\ p \notin KeysOf(kd) =>
              /\ KeyAt(w, p) = EnteredKey(Key(name, path), at)
              /\ Key(name, path) \in KeyRecs(o)
              /\ \A q \in KeysOf(kd) :
                   q[1] = p[1] => ~(KeyAt(kd, q).name = name /\ KeyAt(kd, q).path = path)
<1> DEFINE b == o.Hash[name]
           j == Slot(kd[b], name, path)
           R == KeyRecs(o)
<1>1. kd[b] \in Seq(R) /\ p = <<b, j>> /\ p[1] = b /\ p[2] = j
  BY DEF Tables, KeyFor
<1>2. /\ j \in 1 .. Len(kd[b]) + 1
      /\ j \in DOMAIN kd[b] => Matches(kd[b][j], name, path)
      /\ j \notin DOMAIN kd[b] =>
           j = Len(kd[b]) + 1 /\ \A i \in DOMAIN kd[b] : ~Matches(kd[b][i], name, path)
  <2> HIDE DEF R
  <2> QED
    BY <1>1, SlotIs
<1>3. DOMAIN kd[b] = 1 .. Len(kd[b]) /\ Len(kd[b]) \in Nat
  <2> HIDE DEF R, b
  <2> QED
    BY <1>1
<1> HIDE DEF j
<1>4. CASE j \in DOMAIN kd[b]
  <2>1. p \in KeysOf(kd)
    BY <1>1, <1>3, <1>4, KeysAre
  <2>2. KeyAt(kd, p) \in KeyRecs(o) /\ p \in Ptrs(o) /\ p # Null
    BY <2>1, KeysAre
  <2>3. EnteredKey(KeyAt(kd, p), at) \in KeyRecs(o)
    BY <2>2, EnteredKeyIs
  <2>4. w = Put(kd, p, EnteredKey(KeyAt(kd, p), at))
    BY <1>1, <1>4 DEF EnteredIn
  <2>5. KeyAt(kd, p).name = name
    BY <1>1, <1>2, <1>4 DEF Matches, KeyAt
  <2>6. /\ w \in Tables(o) /\ KeysOf(w) = KeysOf(kd)
        /\ KeyAt(w, p) = EnteredKey(KeyAt(kd, p), at)
        /\ \A q \in KeysOf(kd) : q # p => KeyAt(w, q) = KeyAt(kd, q)
    BY <2>1, <2>3, <2>4, KeyReplaced
  <2> QED
    BY <2>1, <2>2, <2>5, <2>6
<1>5. CASE j \notin DOMAIN kd[b]
  <2> DEFINE v == Added(kd, b, Key(name, path))
  <2>1. Key(name, path) \in KeyRecs(o)
    BY DEF Key, KeyRecs
  <2>2. p = <<b, Len(kd[b]) + 1>>
    BY <1>1, <1>2, <1>5
  <2>3. /\ v \in Tables(o) /\ KeysOf(v) = KeysOf(kd) \cup {p} /\ p \notin KeysOf(kd)
        /\ KeyAt(v, p) = Key(name, path)
        /\ \A q \in KeysOf(kd) : KeyAt(v, q) = KeyAt(kd, q)
    BY <2>1, <2>2, KeyAdded
  <2>4. p \in Ptrs(o) /\ p # Null
    BY <2>3, KeysAre
  <2>5. EnteredKey(KeyAt(v, p), at) \in KeyRecs(o)
    BY <2>1, <2>3, EnteredKeyIs
  <2>6. w = Put(v, p, EnteredKey(KeyAt(v, p), at))
    BY <1>1, <1>5 DEF EnteredIn
  <2> HIDE DEF v
  <2>7. /\ w \in Tables(o) /\ KeysOf(w) = KeysOf(v)
        /\ KeyAt(w, p) = EnteredKey(KeyAt(v, p), at)
        /\ \A q \in KeysOf(v) : q # p => KeyAt(w, q) = KeyAt(v, q)
    BY <2>3, <2>5, <2>6, KeyReplaced
  <2>8. ASSUME NEW q \in KeysOf(kd), q[1] = p[1]
        PROVE  ~(KeyAt(kd, q).name = name /\ KeyAt(kd, q).path = path)
    <3>1. q[2] \in 1 .. Len(kd[b])
      BY <1>1, <2>8, KeysAre
    <3>2. ~Matches(kd[b][q[2]], name, path)
      BY <1>2, <1>3, <1>5, <3>1
    <3> QED
      BY <1>1, <2>8, <3>2 DEF Matches, KeyAt
  <2> QED
    BY ONLY <2>1, <2>3, <2>4, <2>7, <2>8
<1> QED
  BY <1>4, <1>5

\* One field of a key changed
LEMMA FieldBumped ==
  ASSUME NEW o, NEW k \in KeyRecs(o), NEW by \in Int
  PROVE  /\ [k EXCEPT !["all"] = @ + by] \in KeyRecs(o)
         /\ [k EXCEPT !["all"] = @ + by] = [k EXCEPT !.all = k.all + by]
         /\ [k EXCEPT !["child"] = @ + by] \in KeyRecs(o)
         /\ [k EXCEPT !["child"] = @ + by] = [k EXCEPT !.child = k.child + by]
         /\ [k EXCEPT !["status"] = @ + by] \in KeyRecs(o)
         /\ [k EXCEPT !["status"] = @ + by] = [k EXCEPT !.status = k.status + by]
<1> DEFINE N == Range(o.Canon)  Q == Seq(Ptrs(o))
<1>1. k \in [name : N, path : Q, in : Int, all : Int, child : Int, calls : Int, status : Int]
  BY DEF KeyRecs
<1> HIDE DEF N, Q
<1>2. k.all + by \in Int /\ k.child + by \in Int /\ k.status + by \in Int
  BY <1>1
<1>3. /\ [k EXCEPT !["all"] = @ + by] = [k EXCEPT !.all = k.all + by]
      /\ [k EXCEPT !["child"] = @ + by] = [k EXCEPT !.child = k.child + by]
      /\ [k EXCEPT !["status"] = @ + by] = [k EXCEPT !.status = k.status + by]
  OBVIOUS
<1>4. /\ [k EXCEPT !.all = k.all + by] \in [name : N, path : Q, in : Int, all : Int, child : Int, calls : Int, status : Int]
      /\ [k EXCEPT !.child = k.child + by] \in [name : N, path : Q, in : Int, all : Int, child : Int, calls : Int, status : Int]
      /\ [k EXCEPT !.status = k.status + by] \in [name : N, path : Q, in : Int, all : Int, child : Int, calls : Int, status : Int]
  BY <1>1, <1>2
<1> QED
  BY <1>3, <1>4 DEF KeyRecs, N, Q

By(yes, by) == IF yes THEN by ELSE 0

\* What a change of the times and of the status of keys leaves as it was
Alike(o, kd, w) ==
  /\ w \in Tables(o) /\ KeysOf(w) = KeysOf(kd)
  /\ \A q \in KeysOf(kd) : /\ KeyAt(w, q).name = KeyAt(kd, q).name
                            /\ KeyAt(w, q).path = KeyAt(kd, q).path
                            /\ KeyAt(w, q).in = KeyAt(kd, q).in

LEMMA BumpIs ==
  ASSUME NEW o, NEW kd \in Tables(o), NEW p \in KeysOf(kd), NEW by \in Int,
         NEW f \in {"all", "child", "status"}, NEW w, w = Bump(kd, p, f, by)
  PROVE  /\ Alike(o, kd, w)
         /\ \A q \in KeysOf(kd) :
              /\ KeyAt(w, q).all = KeyAt(kd, q).all + By(f = "all" /\ q = p, by)
              /\ KeyAt(w, q).child = KeyAt(kd, q).child + By(f = "child" /\ q = p, by)
              /\ KeyAt(w, q).status = KeyAt(kd, q).status + By(f = "status" /\ q = p, by)
<1> DEFINE k == KeyAt(kd, p)
           n == [k EXCEPT ![f] = @ + by]
<1>1. k \in KeyRecs(o)
  BY KeysAre
<1>2. /\ n \in KeyRecs(o) /\ n.name = k.name /\ n.path = k.path /\ n.in = k.in
      /\ n.all = k.all + By(f = "all", by) /\ n.child = k.child + By(f = "child", by)
      /\ n.status = k.status + By(f = "status", by)
  <2> DEFINE N == Range(o.Canon)  Q == Seq(Ptrs(o))
  <2>1. k \in [name : N, path : Q, in : Int, all : Int, child : Int, calls : Int, status : Int]
    BY <1>1 DEF KeyRecs
  <2>2. k.all \in Int /\ k.child \in Int /\ k.status \in Int
    BY <2>1
  <2> HIDE DEF N, Q, k
  <2>3. CASE f = "all"
    <3>1. n = [k EXCEPT !.all = k.all + by]
      BY <1>1, <2>3, FieldBumped
    <3>2. n \in KeyRecs(o)
      BY <1>1, <2>3, FieldBumped
    <3>3. [k EXCEPT !.all = k.all + by].all = k.all + by
      BY <2>1
    <3> QED
      BY <2>1, <2>2, <2>3, <3>1, <3>2, <3>3 DEF By
  <2>4. CASE f = "child"
    <3>1. n = [k EXCEPT !.child = k.child + by]
      BY <1>1, <2>4, FieldBumped
    <3>2. n \in KeyRecs(o)
      BY <1>1, <2>4, FieldBumped
    <3>3. [k EXCEPT !.child = k.child + by].child = k.child + by
      BY <2>1
    <3> QED
      BY <2>1, <2>2, <2>4, <3>1, <3>2, <3>3 DEF By
  <2>5. CASE f = "status"
    <3>1. n = [k EXCEPT !.status = k.status + by]
      BY <1>1, <2>5, FieldBumped
    <3>2. n \in KeyRecs(o)
      BY <1>1, <2>5, FieldBumped
    <3>3. [k EXCEPT !.status = k.status + by].status = k.status + by
      BY <2>1
    <3> QED
      BY <2>1, <2>2, <2>5, <3>1, <3>2, <3>3 DEF By
  <2> QED
    BY <2>3, <2>4, <2>5
<1>3. w = Put(kd, p, n)
  BY DEF Bump
<1> HIDE DEF n
<1>4. /\ w \in Tables(o) /\ KeysOf(w) = KeysOf(kd) /\ KeyAt(w, p) = n
      /\ \A q \in KeysOf(kd) : q # p => KeyAt(w, q) = KeyAt(kd, q)
  BY <1>2, <1>3, KeyReplaced
<1>5. ASSUME NEW q \in KeysOf(kd)
      PROVE  /\ KeyAt(w, q).name = KeyAt(kd, q).name /\ KeyAt(w, q).path = KeyAt(kd, q).path
             /\ KeyAt(w, q).in = KeyAt(kd, q).in
             /\ KeyAt(w, q).all = KeyAt(kd, q).all + By(f = "all" /\ q = p, by)
             /\ KeyAt(w, q).child = KeyAt(kd, q).child + By(f = "child" /\ q = p, by)
             /\ KeyAt(w, q).status = KeyAt(kd, q).status + By(f = "status" /\ q = p, by)
  <2>1. CASE q = p
    BY <1>2, <1>4, <2>1
  <2>2. CASE q # p
    <3>1. KeyAt(kd, q) \in KeyRecs(o)
      BY KeysAre
    <3>2. KeyAt(kd, q).all \in Int /\ KeyAt(kd, q).child \in Int /\ KeyAt(kd, q).status \in Int
      BY <3>1 DEF KeyRecs
    <3>3. KeyAt(w, q) = KeyAt(kd, q)
      BY <1>4, <2>2
    <3> QED
      BY <2>2, <3>2, <3>3 DEF By
  <2> QED
    BY <2>1, <2>2
<1> QED
  BY <1>4, <1>5 DEF Alike

LeftIn(hasSelf, nested, kd, p, c, at, d) ==
  LET delta == at + d - KeyAt(kd, p).in
      own   == Bump(Bump(kd, p, "all", delta), p, "status", -1)
      below == IF nested THEN Bump(own, c, "child", delta) ELSE own
  IN IF hasSelf THEN Bump(below, p, "child", d) ELSE below

\* The numbers of a key are whole
LEMMA NumbersOf ==
  ASSUME NEW o, NEW kd \in Tables(o), NEW q \in KeysOf(kd)
  PROVE  /\ KeyAt(kd, q).in \in Int /\ KeyAt(kd, q).all \in Int
         /\ KeyAt(kd, q).child \in Int /\ KeyAt(kd, q).status \in Int
<1>1. KeyAt(kd, q) \in KeyRecs(o)
  BY KeysAre
<1> QED
  BY <1>1 DEF KeyRecs

LEMMA AllBumped ==
  ASSUME NEW o, NEW kd \in Tables(o), NEW p \in KeysOf(kd), NEW by \in Int,
         NEW w, w = Bump(kd, p, "all", by)
  PROVE  /\ Alike(o, kd, w)
         /\ \A q \in KeysOf(kd) : /\ KeyAt(w, q).all = KeyAt(kd, q).all + By(q = p, by)
                                   /\ KeyAt(w, q).child = KeyAt(kd, q).child
                                   /\ KeyAt(w, q).status = KeyAt(kd, q).status
<1>1. Alike(o, kd, w)
  BY BumpIs
<1>2. ASSUME NEW q \in KeysOf(kd)
      PROVE  /\ KeyAt(w, q).all = KeyAt(kd, q).all + By(q = p, by)
             /\ KeyAt(w, q).child = KeyAt(kd, q).child
             /\ KeyAt(w, q).status = KeyAt(kd, q).status
  <2>1. /\ KeyAt(w, q).all = KeyAt(kd, q).all + By("all" = "all" /\ q = p, by)
        /\ KeyAt(w, q).child = KeyAt(kd, q).child + By("all" = "child" /\ q = p, by)
        /\ KeyAt(w, q).status = KeyAt(kd, q).status + By("all" = "status" /\ q = p, by)
    BY BumpIs
  <2> QED
    BY <2>1, NumbersOf DEF By
<1> QED
  BY <1>1, <1>2

LEMMA ChildBumped ==
  ASSUME NEW o, NEW kd \in Tables(o), NEW p \in KeysOf(kd), NEW by \in Int,
         NEW w, w = Bump(kd, p, "child", by)
  PROVE  /\ Alike(o, kd, w)
         /\ \A q \in KeysOf(kd) : /\ KeyAt(w, q).all = KeyAt(kd, q).all
                                   /\ KeyAt(w, q).child = KeyAt(kd, q).child + By(q = p, by)
                                   /\ KeyAt(w, q).status = KeyAt(kd, q).status
<1>1. Alike(o, kd, w)
  BY BumpIs
<1>2. ASSUME NEW q \in KeysOf(kd)
      PROVE  /\ KeyAt(w, q).all = KeyAt(kd, q).all
             /\ KeyAt(w, q).child = KeyAt(kd, q).child + By(q = p, by)
             /\ KeyAt(w, q).status = KeyAt(kd, q).status
  <2>1. /\ KeyAt(w, q).all = KeyAt(kd, q).all + By("child" = "all" /\ q = p, by)
        /\ KeyAt(w, q).child = KeyAt(kd, q).child + By("child" = "child" /\ q = p, by)
        /\ KeyAt(w, q).status = KeyAt(kd, q).status + By("child" = "status" /\ q = p, by)
    BY BumpIs
  <2> QED
    BY <2>1, NumbersOf DEF By
<1> QED
  BY <1>1, <1>2

LEMMA StatusBumped ==
  ASSUME NEW o, NEW kd \in Tables(o), NEW p \in KeysOf(kd), NEW by \in Int,
         NEW w, w = Bump(kd, p, "status", by)
  PROVE  /\ Alike(o, kd, w)
         /\ \A q \in KeysOf(kd) : /\ KeyAt(w, q).all = KeyAt(kd, q).all
                                   /\ KeyAt(w, q).child = KeyAt(kd, q).child
                                   /\ KeyAt(w, q).status = KeyAt(kd, q).status + By(q = p, by)
<1>1. Alike(o, kd, w)
  BY BumpIs
<1>2. ASSUME NEW q \in KeysOf(kd)
      PROVE  /\ KeyAt(w, q).all = KeyAt(kd, q).all
             /\ KeyAt(w, q).child = KeyAt(kd, q).child
             /\ KeyAt(w, q).status = KeyAt(kd, q).status + By(q = p, by)
  <2>1. /\ KeyAt(w, q).all = KeyAt(kd, q).all + By("status" = "all" /\ q = p, by)
        /\ KeyAt(w, q).child = KeyAt(kd, q).child + By("status" = "child" /\ q = p, by)
        /\ KeyAt(w, q).status = KeyAt(kd, q).status + By("status" = "status" /\ q = p, by)
    BY BumpIs
  <2> QED
    BY <2>1, NumbersOf DEF By
<1> QED
  BY <1>1, <1>2

LEMMA AlikeTwice ==
  ASSUME NEW o, NEW kd, NEW v, NEW w, Alike(o, kd, v), Alike(o, v, w)
  PROVE  Alike(o, kd, w)
BY DEF Alike

\* A closing call: the times of its key and of its caller's
FieldsLeft(kd, w, p, c, nested, hasSelf, delta, d) ==
  \A q \in KeysOf(kd) :
    /\ KeyAt(w, q).all = KeyAt(kd, q).all + By(q = p, delta)
    /\ KeyAt(w, q).child = (KeyAt(kd, q).child + By(nested /\ q = c, delta)) + By(hasSelf /\ q = p, d)
    /\ KeyAt(w, q).status = KeyAt(kd, q).status + By(q = p, -1)

LEMMA LeftIs ==
  ASSUME NEW o, NEW kd \in Tables(o), NEW p \in KeysOf(kd), NEW at \in Int, NEW d \in Int,
         NEW hasSelf \in BOOLEAN, NEW nested \in BOOLEAN, NEW c, nested => c \in KeysOf(kd),
         NEW w, w = LeftIn(hasSelf, nested, kd, p, c, at, d),
         NEW delta, delta = at + d - KeyAt(kd, p).in
  PROVE  Alike(o, kd, w) /\ delta \in Int /\ FieldsLeft(kd, w, p, c, nested, hasSelf, delta, d)
<1>1. delta \in Int /\ -1 \in Int
  BY NumbersOf
<1> DEFINE w1 == Bump(kd, p, "all", delta)
           w2 == Bump(w1, p, "status", -1)
           w3 == IF nested THEN Bump(w2, c, "child", delta) ELSE w2
           w4 == IF hasSelf THEN Bump(w3, p, "child", d) ELSE w3
<1>2. w = w4
  BY DEF LeftIn
<1>3. /\ Alike(o, kd, w1)
      /\ \A q \in KeysOf(kd) : /\ KeyAt(w1, q).all = KeyAt(kd, q).all + By(q = p, delta)
                                /\ KeyAt(w1, q).child = KeyAt(kd, q).child
                                /\ KeyAt(w1, q).status = KeyAt(kd, q).status
  BY <1>1, AllBumped
<1>4. w1 \in Tables(o) /\ KeysOf(w1) = KeysOf(kd)
  BY <1>3 DEF Alike
<1> HIDE DEF w1
<1>5. /\ Alike(o, w1, w2)
      /\ \A q \in KeysOf(w1) : /\ KeyAt(w2, q).all = KeyAt(w1, q).all
                                /\ KeyAt(w2, q).child = KeyAt(w1, q).child
                                /\ KeyAt(w2, q).status = KeyAt(w1, q).status + By(q = p, -1)
  BY <1>1, <1>4, StatusBumped
<1>6. w2 \in Tables(o) /\ KeysOf(w2) = KeysOf(kd)
  BY <1>4, <1>5 DEF Alike
<1> HIDE DEF w2
<1>7. /\ Alike(o, w2, w3)
      /\ \A q \in KeysOf(w2) : /\ KeyAt(w3, q).all = KeyAt(w2, q).all
                                /\ KeyAt(w3, q).child = KeyAt(w2, q).child + By(nested /\ q = c, delta)
                                /\ KeyAt(w3, q).status = KeyAt(w2, q).status
  <2>1. CASE nested
    <3>1. w3 = Bump(w2, c, "child", delta) /\ c \in KeysOf(w2)
      BY <1>6, <2>1
    <3> HIDE DEF w3
    <3> QED
      BY <1>1, <1>6, <2>1, <3>1, ChildBumped
  <2>2. CASE ~nested
    <3>1. w3 = w2
      BY <2>2
    <3>2. Alike(o, w2, w2)
      BY <1>6 DEF Alike
    <3> HIDE DEF w3
    <3>3. \A q \in KeysOf(w2) : KeyAt(w2, q).child = KeyAt(w2, q).child + By(nested /\ q = c, delta)
      BY <1>6, <2>2, NumbersOf DEF By
    <3> QED
      BY <3>1, <3>2, <3>3
  <2> QED
    BY <2>1, <2>2
<1>8. w3 \in Tables(o) /\ KeysOf(w3) = KeysOf(kd)
  BY <1>6, <1>7 DEF Alike
<1> HIDE DEF w3
<1>9. /\ Alike(o, w3, w4)
      /\ \A q \in KeysOf(w3) : /\ KeyAt(w4, q).all = KeyAt(w3, q).all
                                /\ KeyAt(w4, q).child = KeyAt(w3, q).child + By(hasSelf /\ q = p, d)
                                /\ KeyAt(w4, q).status = KeyAt(w3, q).status
  <2>1. CASE hasSelf
    <3>1. w4 = Bump(w3, p, "child", d) /\ p \in KeysOf(w3)
      BY <1>8, <2>1
    <3> HIDE DEF w4
    <3> QED
      BY <1>8, <2>1, <3>1, ChildBumped
  <2>2. CASE ~hasSelf
    <3>1. w4 = w3
      BY <2>2
    <3>2. Alike(o, w3, w3)
      BY <1>8 DEF Alike
    <3> HIDE DEF w4
    <3>3. \A q \in KeysOf(w3) : KeyAt(w3, q).child = KeyAt(w3, q).child + By(hasSelf /\ q = p, d)
      BY <1>8, <2>2, NumbersOf DEF By
    <3> QED
      BY <3>1, <3>2, <3>3
  <2> QED
    BY <2>1, <2>2
<1>10. Alike(o, kd, w4)
  BY <1>3, <1>5, <1>7, <1>9, AlikeTwice
<1> HIDE DEF w4
<1>11. ASSUME NEW q \in KeysOf(kd)
       PROVE  /\ KeyAt(w4, q).all = KeyAt(kd, q).all + By(q = p, delta)
              /\ KeyAt(w4, q).child = (KeyAt(kd, q).child + By(nested /\ q = c, delta))
                                                         + By(hasSelf /\ q = p, d)
              /\ KeyAt(w4, q).status = KeyAt(kd, q).status + By(q = p, -1)
  <2>1. q \in KeysOf(w1) /\ q \in KeysOf(w2) /\ q \in KeysOf(w3)
    BY <1>4, <1>6, <1>8
  <2> QED
    BY <1>3, <1>5, <1>7, <1>9, <2>1
<1> QED
  BY <1>1, <1>2, <1>10, <1>11 DEF FieldsLeft

-----------------------------------------------------------------------------
(* What holds between the calls, for one thread. *)

Pointed(kd) == {Null} \cup KeysOf(kd)
NameAt(kd, tr, i) == KeyAt(kd, tr[i].key).name
InAt(kd, tr, i) == KeyAt(kd, tr[i].key).in

\* A key is in the chain of its name, with a path of keys, and no other is like it.
TableOK(o, kd) ==
  /\ kd \in Tables(o) /\ IsFiniteSet(KeysOf(kd))
  /\ \A p \in KeysOf(kd) : /\ o.Hash[KeyAt(kd, p).name] = p[1]
                           /\ Range(KeyAt(kd, p).path) \subseteq Pointed(kd)
  /\ \A p, q \in KeysOf(kd) :
       KeyAt(kd, p).name = KeyAt(kd, q).name /\ KeyAt(kd, p).path = KeyAt(kd, q).path => p = q

\* The tree holds keys of the table, each as often as its status says.
Holding(tr, th, p) == {i \in 1 .. Deep(tr, th) : tr[i].key = p}
TreeOK(o, kd, tr, th) ==
  /\ tr \in Trees(o) /\ TreeShape(tr, th)
  /\ \A i \in 1 .. Len(tr) : tr[i].key \in Pointed(kd)
  /\ \A i \in 1 .. Deep(tr, th) : tr[i].key \in KeysOf(kd)
  /\ \A p \in KeysOf(kd) : KeyAt(kd, p).status = Cardinality(Holding(tr, th, p))

\* The stack of handles holds the keys of the active nodes.
StackOK(o, tr, th, cs) ==
  o.CstkLen > 0 =>
    /\ cs = [key |-> cs.key, next |-> cs.next, maxdepth |-> cs.maxdepth]
    /\ cs.maxdepth \in Nat /\ cs.next = Deep(tr, th) /\ cs.next <= cs.maxdepth
    /\ \A i \in 1 .. Deep(tr, th) : cs.key[i - 1] = tr[i].key

\* Each routine the thread is really in has a node of the tree and its handle;
\* without a forgotten call there is no other node.
FrameOK(o, kd, tr, th, f) ==
  /\ f.node \in 1 .. Deep(tr, th)
  /\ NameAt(kd, tr, f.node) = f.name
  /\ f.handle = IF o.CstkLen = 0 THEN tr[f.node].key ELSE <<0, f.node - 1>>
  /\ ~o.Recursive => \A k \in 1 .. Deep(tr, th) : k > f.node => NameAt(kd, tr, k) # f.name
FramesOK(o, kd, tr, th, fr) ==
  /\ fr \in Frames(o)
  /\ \A i \in 1 .. Len(fr) : FrameOK(o, kd, tr, th, fr[i])
  /\ \A i, j \in 1 .. Len(fr) : i < j => fr[i].node < fr[j].node
  /\ ~o.Careless => Len(fr) = Deep(tr, th) /\ \A i \in 1 .. Len(fr) : fr[i].node = i

ThreadOK(o, kd, tr, th, ck, cs, fr) ==
  /\ TableOK(o, kd) /\ TreeOK(o, kd, tr, th) /\ ck \in Pointed(kd)
  /\ StackOK(o, tr, th, cs) /\ FramesOK(o, kd, tr, th, fr)

(* The times of one thread: sp is what it really spent in each routine, at   *)
(* the clock.  What the active call of a routine has not yet added to its key *)
(* is the time until the call it is in was opened, or until now.              *)
KeysNamed(kd, r) == {p \in KeysOf(kd) : KeyAt(kd, p).name = r}
OwnOf(kd, p) == KeyAt(kd, p).all - KeyAt(kd, p).child
OwnSum(kd, r) == SumFunction([p \in KeysNamed(kd, r) |-> OwnOf(kd, p)])
OpenAt(kd, tr, th, i, at) ==
  (IF i = Deep(tr, th) THEN at ELSE InAt(kd, tr, i + 1)) - InAt(kd, tr, i)
TimeOK(o, kd, tr, th, sp, at) ==
  \A r \in Range(o.Canon) :
    /\ \A i \in 1 .. Deep(tr, th) :
         NameAt(kd, tr, i) = r => OwnSum(kd, r) + OpenAt(kd, tr, th, i, at) = sp[r]
    /\ (\A i \in 1 .. Deep(tr, th) : NameAt(kd, tr, i) # r) => OwnSum(kd, r) = sp[r]

OptionsOK(o) == /\ DOMAIN o.Hash = Range(o.Canon) /\ "none" \notin Range(o.Canon)
                /\ o.Threads \subseteq Nat \ {0} /\ o.CstkLen \in Nat /\ o.Self \in 0 .. 2

CallsInv ==
  /\ opts \in Options
  /\ DOMAIN keydata = CallThreads /\ DOMAIN tree = CallThreads /\ DOMAIN this = CallThreads
  /\ DOMAIN curkey = CallThreads /\ DOMAIN cstk = CallThreads /\ DOMAIN routines = CallThreads
  /\ \A t \in CallThreads :
       ThreadOK(opts, keydata[t], tree[t], this[t], curkey[t], cstk[t], routines[t])
  /\ aborted => Careless

\* The times, of a program that makes both calls and enters no routine twice
TimesInv ==
  /\ now \in Int /\ spent \in [CallThreads -> [CalledRoutines -> Int]]
  /\ ~Recursive /\ ~Careless =>
       \A t \in CallThreads : TimeOK(opts, keydata[t], tree[t], this[t], spent[t], now)

-----------------------------------------------------------------------------
(* An opening call keeps what holds of its thread. *)

\* What the opening call does to the table, field by field
EntryMade(o, kd, w, p, name, path, at) ==
  /\ w \in Tables(o) /\ KeysOf(w) = KeysOf(kd) \cup {p} /\ p \in Ptrs(o) /\ p # Null
  /\ p[1] = o.Hash[name] /\ KeyAt(w, p).name = name /\ KeyAt(w, p).in = at
  /\ \A q \in KeysOf(kd) : q # p => KeyAt(w, q) = KeyAt(kd, q)
  /\ \A q \in KeysOf(kd) :
       /\ KeyAt(w, q).name = KeyAt(kd, q).name /\ KeyAt(w, q).path = KeyAt(kd, q).path
       /\ KeyAt(w, q).all = KeyAt(kd, q).all /\ KeyAt(w, q).child = KeyAt(kd, q).child
  /\ p \in KeysOf(kd) => KeyAt(w, p).status = KeyAt(kd, p).status + 1
  /\ p \notin KeysOf(kd) =>
       /\ KeyAt(w, p).status = 1 /\ KeyAt(w, p).all = 0 /\ KeyAt(w, p).child = 0
       /\ KeyAt(w, p).path = path
       /\ \A q \in KeysOf(kd) :
            q[1] = p[1] => ~(KeyAt(kd, q).name = name /\ KeyAt(kd, q).path = path)

LEMMA Enters ==
  ASSUME NEW o, OptionsOK(o), NEW kd, TableOK(o, kd), NEW name \in Range(o.Canon),
         NEW path \in Seq(Ptrs(o)), NEW at \in Int,
         NEW p, p = KeyFor(o, kd, name, path),
         NEW w, w = EnteredIn(kd, name, path, p, at)
  PROVE  EntryMade(o, kd, w, p, name, path, at)
<1>1. kd \in Tables(o) /\ o.Hash[name] \in Range(o.Hash)
  BY DEF TableOK, OptionsOK, Range
<1>2. /\ w \in Tables(o) /\ KeysOf(w) = KeysOf(kd) \cup {p} /\ p \in Ptrs(o) /\ p # Null
      /\ \A q \in KeysOf(kd) : q # p => KeyAt(w, q) = KeyAt(kd, q)
      /\ p \in KeysOf(kd) => KeyAt(w, p) = EnteredKey(KeyAt(kd, p), at) /\ KeyAt(kd, p).name = name
      /\ p \notin KeysOf(kd) =>
           /\ KeyAt(w, p) = EnteredKey(Key(name, path), at) /\ Key(name, path) \in KeyRecs(o)
           /\ \A q \in KeysOf(kd) :
                q[1] = p[1] => ~(KeyAt(kd, q).name = name /\ KeyAt(kd, q).path = path)
  BY <1>1, EnteredIs
<1>3. p[1] = o.Hash[name]
  BY DEF KeyFor
<1>4. CASE p \in KeysOf(kd)
  <2>1. KeyAt(kd, p) \in KeyRecs(o)
    BY <1>1, <1>4, KeysAre
  <2>2. /\ KeyAt(w, p).name = KeyAt(kd, p).name /\ KeyAt(w, p).path = KeyAt(kd, p).path
        /\ KeyAt(w, p).all = KeyAt(kd, p).all /\ KeyAt(w, p).child = KeyAt(kd, p).child
        /\ KeyAt(w, p).status = KeyAt(kd, p).status + 1 /\ KeyAt(w, p).in = at
    BY <1>2, <1>4, <2>1, EnteredKeyIs
  <2> QED
    BY ONLY <1>2, <1>3, <1>4, <2>2 DEF EntryMade
<1>5. CASE p \notin KeysOf(kd)
  <2> DEFINE k == Key(name, path)
  <2>1. k \in KeyRecs(o) /\ KeyAt(w, p) = EnteredKey(k, at)
    BY <1>2, <1>5
  <2>2. k.name = name /\ k.path = path /\ k.all = 0 /\ k.child = 0 /\ k.status = 0
    BY DEF Key
  <2> HIDE DEF k
  <2>3. /\ KeyAt(w, p).name = k.name /\ KeyAt(w, p).path = k.path
        /\ KeyAt(w, p).all = k.all /\ KeyAt(w, p).child = k.child
        /\ KeyAt(w, p).status = k.status + 1 /\ KeyAt(w, p).in = at
    BY <2>1, EnteredKeyIs
  <2> QED
    BY ONLY <1>2, <1>3, <1>5, <2>2, <2>3 DEF EntryMade
<1> QED
  BY <1>4, <1>5

LEMMA StartTable ==
  ASSUME NEW o, OptionsOK(o), NEW kd, TableOK(o, kd), NEW name \in Range(o.Canon),
         NEW path, Range(path) \subseteq Pointed(kd), NEW at,
         NEW p, NEW w, EntryMade(o, kd, w, p, name, path, at)
  PROVE  TableOK(o, w)
<1>1. /\ w \in Tables(o) /\ KeysOf(w) = KeysOf(kd) \cup {p}
      /\ p[1] = o.Hash[name] /\ KeyAt(w, p).name = name
      /\ \A q \in KeysOf(kd) : /\ KeyAt(w, q).name = KeyAt(kd, q).name
                                /\ KeyAt(w, q).path = KeyAt(kd, q).path
      /\ p \notin KeysOf(kd) =>
           /\ KeyAt(w, p).path = path
           /\ \A q \in KeysOf(kd) :
                q[1] = p[1] => ~(KeyAt(kd, q).name = name /\ KeyAt(kd, q).path = path)
  BY DEF EntryMade
<1>2. IsFiniteSet(KeysOf(w))
  <2>1. IsFiniteSet(KeysOf(kd) \cup {p})
    BY FS_AddElement DEF TableOK
  <2> QED
    BY <1>1, <2>1
<1>3. ASSUME NEW q \in KeysOf(w)
      PROVE  o.Hash[KeyAt(w, q).name] = q[1] /\ Range(KeyAt(w, q).path) \subseteq Pointed(w)
  <2>1. CASE q \in KeysOf(kd)
    BY <1>1, <2>1 DEF TableOK, Pointed
  <2>2. CASE q \notin KeysOf(kd)
    BY <1>1, <2>2 DEF Pointed
  <2> QED
    BY <2>1, <2>2
<1>4. ASSUME NEW q \in KeysOf(w), NEW r \in KeysOf(w), KeyAt(w, q).name = KeyAt(w, r).name,
             KeyAt(w, q).path = KeyAt(w, r).path
      PROVE  q = r
  <2>1. CASE q \in KeysOf(kd) /\ r \in KeysOf(kd)
    BY <1>1, <1>4, <2>1 DEF TableOK
  <2>2. CASE q \notin KeysOf(kd) /\ r \notin KeysOf(kd)
    BY <1>1, <2>2
  <2>3. ASSUME NEW x \in KeysOf(kd), NEW y \in KeysOf(w), y \notin KeysOf(kd),
               KeyAt(w, x).name = KeyAt(w, y).name, KeyAt(w, x).path = KeyAt(w, y).path
        PROVE  FALSE
    <3>1. y = p /\ KeyAt(kd, x).name = name /\ KeyAt(kd, x).path = path
      BY <1>1, <2>3
    <3>2. x[1] = o.Hash[name]
      BY <3>1 DEF TableOK
    <3> QED
      BY <1>1, <2>3, <3>1, <3>2
  <2> QED
    BY <1>4, <2>1, <2>2, <2>3
<1> QED
  BY <1>1, <1>2, <1>3, <1>4 DEF TableOK

\* A node more is active, and it has the key p
OneMoreNode(tr, th, tr2, th2, p) ==
  /\ Deep(tr2, th2) = Deep(tr, th) + 1 /\ Deep(tr, th) \in Nat
  /\ tr2[Deep(tr, th) + 1].key = p
  /\ \A i \in 1 .. Deep(tr, th) : tr2[i].key = tr[i].key

NodeAdded(o, kd, w, tr, th, tr2, th2, p) ==
  /\ TreeOK(o, w, tr2, th2) /\ OneMoreNode(tr, th, tr2, th2, p) /\ th2 = Deep(tr, th) + 1
  /\ \A i \in 1 .. Deep(tr, th) : tr[i].key \in KeysOf(kd)

\* The nodes of the tree after an opening call
LEMMA StartTree ==
  ASSUME NEW o, OptionsOK(o), NEW kd, TableOK(o, kd), NEW name \in Range(o.Canon),
         NEW path, NEW at, NEW p, NEW w, EntryMade(o, kd, w, p, name, path, at),
         NEW tr, NEW th, TreeOK(o, kd, tr, th),
         NEW tr2, tr2 = WithNode(tr, th, p), NEW th2, th2 = FreeIn(tr, th)
  PROVE  NodeAdded(o, kd, w, tr, th, tr2, th2, p)
<1> DEFINE n == Deep(tr, th)
<1>1. /\ KeysOf(w) = KeysOf(kd) \cup {p} /\ p \in Ptrs(o)
      /\ \A q \in KeysOf(kd) : q # p => KeyAt(w, q) = KeyAt(kd, q)
      /\ p \in KeysOf(kd) => KeyAt(w, p).status = KeyAt(kd, p).status + 1
      /\ p \notin KeysOf(kd) => KeyAt(w, p).status = 1
  BY DEF EntryMade
<1>2. tr \in Trees(o) /\ TreeShape(tr, th)
  BY DEF TreeOK
<1>3. /\ tr2 \in Trees(o) /\ TreeShape(tr2, th2) /\ Deep(tr2, th2) = n + 1
      /\ tr2[n + 1].key = p
      /\ \A i \in 1 .. Len(tr2) : i # n + 1 => i \in 1 .. Len(tr) /\ tr2[i] = tr[i]
      /\ Len(tr2) >= Len(tr)
  BY <1>1, <1>2, Opened
<1>4. th2 = n + 1
  BY <1>2, FreeIs
<1>5. n \in Nat /\ n <= Len(tr) /\ Len(tr) \in Nat /\ Len(tr2) \in Nat
  <2>1. n \in 0 .. Len(tr) /\ Len(tr) \in Nat
    BY <1>2, DeepIs
  <2>2. Len(tr2) \in Nat
    BY <1>3 DEF Trees
  <2> QED
    BY <2>1, <2>2
<1>6. ASSUME NEW i \in 1 .. n PROVE tr2[i] = tr[i] /\ tr[i].key \in KeysOf(kd)
  <2>1. i \in 1 .. Len(tr2) /\ i # n + 1
    BY <1>3, <1>5
  <2> QED
    BY <1>3, <2>1 DEF TreeOK
<1>7. ASSUME NEW i \in 1 .. Len(tr2) PROVE tr2[i].key \in Pointed(w)
  <2>1. CASE i = n + 1
    BY <1>1, <1>3, <2>1 DEF Pointed
  <2>2. CASE i # n + 1
    BY <1>1, <1>3, <2>2 DEF Pointed, TreeOK
  <2> QED
    BY <2>1, <2>2
<1> HIDE DEF n
<1>8. ASSUME NEW i \in 1 .. n + 1 PROVE tr2[i].key \in KeysOf(w)
  <2>1. CASE i = n + 1
    BY <1>1, <1>3, <2>1
  <2>2. CASE i # n + 1
    BY <1>1, <1>5, <1>6, <2>2
  <2> QED
    BY <2>1, <2>2
<1>9. ASSUME NEW q \in KeysOf(w)
      PROVE  KeyAt(w, q).status = Cardinality(Holding(tr2, th2, q))
  <2> DEFINE H == {i \in 1 .. n : tr[i].key = q}
  <2>1. Holding(tr, th, q) = H
    BY DEF Holding, n
  <2>2. IsFiniteSet(H) /\ n + 1 \notin H
    <3>1. IsFiniteSet(1 .. n)
      BY <1>5, FS_Interval
    <3>2. IsFiniteSet(H)
      BY <3>1, FS_Subset
    <3> QED
      BY <1>5, <3>2
  <2>3. CASE q = p
    <3>1. Holding(tr2, th2, q) = H \cup {n + 1}
      <4>1. Holding(tr2, th2, q) = {i \in 1 .. n + 1 : tr2[i].key = q}
        BY <1>3 DEF Holding
      <4> QED
        BY <1>3, <1>5, <1>6, <2>3, <4>1
    <3>2. Cardinality(H \cup {n + 1}) = Cardinality(H) + 1
      BY <2>2, FS_AddElement
    <3>3. CASE p \in KeysOf(kd)
      <4>1. KeyAt(kd, q).status = Cardinality(H)
        BY <2>1, <2>3, <3>3 DEF TreeOK
      <4> QED
        BY <1>1, <2>3, <3>1, <3>2, <3>3, <4>1
    <3>4. CASE p \notin KeysOf(kd)
      <4>1. H = {}
        BY <1>6, <2>3, <3>4
      <4>2. Cardinality(H) = 0
        BY <4>1, FS_EmptySet
      <4> QED
        BY <1>1, <2>3, <3>1, <3>2, <3>4, <4>2
    <3> QED
      BY <3>3, <3>4
  <2>4. CASE q # p
    <3>1. Holding(tr2, th2, q) = H
      <4>1. Holding(tr2, th2, q) = {i \in 1 .. n + 1 : tr2[i].key = q}
        BY <1>3 DEF Holding
      <4> QED
        BY <1>3, <1>5, <1>6, <2>4, <4>1
    <3>2. KeyAt(kd, q).status = Cardinality(H)
      BY <1>1, <2>1, <2>4 DEF TreeOK
    <3> QED
      BY <1>1, <2>4, <3>1, <3>2
  <2> QED
    BY <2>3, <2>4
<1>10. TreeOK(o, w, tr2, th2)
  BY <1>3, <1>7, <1>8, <1>9 DEF TreeOK
<1> QED
  BY <1>3, <1>4, <1>5, <1>6, <1>10 DEF n, NodeAdded, OneMoreNode


\* callstack(), on entry
PushedIn(c, p) ==
  LET room == IF c.next >= c.maxdepth THEN c.next + Inc ELSE c.maxdepth
  IN [key |-> [i \in 0..(room - 1) |-> IF i = c.next THEN p
                                       ELSE IF i < c.maxdepth THEN c.key[i] ELSE Null],
      next |-> c.next + 1, maxdepth |-> room]

LEMMA StartStack ==
  ASSUME NEW o, NEW tr, NEW th, NEW cs, StackOK(o, tr, th, cs), o.CstkLen > 0,
         NEW tr2, NEW th2, NEW p, OneMoreNode(tr, th, tr2, th2, p),
         NEW cs2, cs2 = PushedIn(cs, p)
  PROVE  StackOK(o, tr2, th2, cs2)
<1> DEFINE n == Deep(tr, th)
           room == IF n >= cs.maxdepth THEN n + Inc ELSE cs.maxdepth
           K == [i \in 0..(room - 1) |-> IF i = n THEN p
                                         ELSE IF i < cs.maxdepth THEN cs.key[i] ELSE Null]
<1>1. /\ cs.maxdepth \in Nat /\ cs.next = n /\ n <= cs.maxdepth /\ n \in Nat
      /\ \A i \in 1 .. n : cs.key[i - 1] = tr[i].key
  BY DEF StackOK, OneMoreNode
<1>2. cs2 = [key |-> K, next |-> n + 1, maxdepth |-> room]
  BY <1>1 DEF PushedIn
<1>3. cs2.key = K /\ cs2.next = n + 1 /\ cs2.maxdepth = room
  BY <1>2
<1>4. room \in Nat /\ n + 1 <= room /\ room >= cs.maxdepth
  BY <1>1, DrHookAssumption
<1>5. ASSUME NEW i \in 1 .. n + 1 PROVE K[i - 1] = tr2[i].key
  <2> HIDE DEF room, n
  <2>1. i - 1 \in 0 .. (room - 1)
    BY <1>1, <1>4
  <2>2. CASE i = n + 1
    BY <1>1, <2>1, <2>2 DEF OneMoreNode, n
  <2>3. CASE i # n + 1
    <3>1. i \in 1 .. n /\ i - 1 # n /\ i - 1 < cs.maxdepth
      BY <1>1, <2>3
    <3>2. K[i - 1] = cs.key[i - 1]
      BY <2>1, <3>1
    <3>3. tr2[i].key = tr[i].key
      BY <3>1 DEF OneMoreNode, n
    <3> QED
      BY <1>1, <3>1, <3>2, <3>3
  <2> QED
    BY <2>2, <2>3
<1>6. Deep(tr2, th2) = n + 1
  BY DEF OneMoreNode
<1> HIDE DEF K, room, n
<1> QED
  BY <1>2, <1>3, <1>4, <1>5, <1>6 DEF StackOK

LEMMA StartFrames ==
  ASSUME NEW o, OptionsOK(o), NEW kd, NEW tr, NEW th, NEW fr, FramesOK(o, kd, tr, th, fr),
         \A i \in 1 .. Deep(tr, th) : tr[i].key \in KeysOf(kd),
         NEW name \in Range(o.Canon),
         o.Recursive \/ (\A i \in 1 .. Len(fr) : fr[i].name # name),
         NEW path, NEW at, NEW p, NEW w, EntryMade(o, kd, w, p, name, path, at),
         NEW tr2, NEW th2, OneMoreNode(tr, th, tr2, th2, p),
         NEW h, h = IF o.CstkLen = 0 THEN p ELSE <<0, Deep(tr, th)>>,
         NEW f, f = [name |-> name, node |-> Deep(tr, th) + 1, handle |-> h]
  PROVE  FramesOK(o, w, tr2, th2, Append(fr, f))
<1> DEFINE n == Deep(tr, th)
           R == [name : Range(o.Canon), node : Nat, handle : Ptrs(o)]
           fr2 == Append(fr, f)
           m == Len(fr)
<1>1. n \in Nat /\ Deep(tr2, th2) = n + 1
  BY DEF OneMoreNode
<1>2. p \in Ptrs(o) /\ KeyAt(w, p).name = name
  BY DEF EntryMade
<1>3. h \in Ptrs(o)
  BY <1>1, <1>2 DEF Ptrs
<1>4. f \in R /\ f.name = name /\ f.node = n + 1 /\ f.handle = h
  BY <1>1, <1>3
<1>5. fr \in Seq(R) /\ m \in Nat
  BY DEF FramesOK, Frames
<1>6. /\ fr2 \in Seq(R) /\ Len(fr2) = m + 1 /\ fr2[m + 1] = f
      /\ \A i \in 1 .. m : fr2[i] = fr[i]
  <2> HIDE DEF R
  <2> QED
    BY <1>4, <1>5
<1>7. ASSUME NEW i \in 1 .. n PROVE NameAt(w, tr2, i) = NameAt(kd, tr, i)
  BY <1>7 DEF NameAt, OneMoreNode, EntryMade
<1>8. NameAt(w, tr2, n + 1) = name /\ tr2[n + 1].key = p
  BY <1>2 DEF NameAt, OneMoreNode
<1> HIDE DEF n, fr2, m
<1>9. FrameOK(o, w, tr2, th2, f)
  <2>1. f.node \in 1 .. Deep(tr2, th2)
    BY <1>1, <1>4
  <2>2. f.handle = IF o.CstkLen = 0 THEN tr2[f.node].key ELSE <<0, f.node - 1>>
    BY <1>1, <1>4, <1>8 DEF n
  <2>3. ~ \E k \in 1 .. Deep(tr2, th2) : k > f.node
    BY <1>1, <1>4
  <2> QED
    BY <1>4, <1>8, <2>1, <2>2, <2>3 DEF FrameOK
<1>10. ASSUME NEW i \in 1 .. m PROVE FrameOK(o, w, tr2, th2, fr[i]) /\ fr[i].node \in 1 .. n
  <2>1. FrameOK(o, kd, tr, th, fr[i])
    BY DEF FramesOK, m
  <2>2. fr[i].node \in 1 .. n /\ NameAt(kd, tr, fr[i].node) = fr[i].name
    BY <2>1 DEF FrameOK, n
  <2>3. fr[i].handle = IF o.CstkLen = 0 THEN tr2[fr[i].node].key ELSE <<0, fr[i].node - 1>>
    BY <2>1, <2>2 DEF FrameOK, OneMoreNode, n
  <2>4. ASSUME ~o.Recursive, NEW k \in 1 .. n + 1, k > fr[i].node
        PROVE  NameAt(w, tr2, k) # fr[i].name
    <3>1. CASE k = n + 1
      BY <1>8, <2>4, <3>1 DEF m
    <3>2. CASE k # n + 1
      <4>1. k \in 1 .. n
        BY <1>1, <3>2
      <4>2. NameAt(kd, tr, k) # fr[i].name
        BY <2>1, <2>4, <4>1 DEF FrameOK, n
      <4> QED
        BY <1>7, <4>1, <4>2
    <3> QED
      BY <3>1, <3>2
  <2>5. fr[i].node \in 1 .. Deep(tr2, th2)
    BY <1>1, <2>2
  <2> QED
    BY <1>1, <1>7, <2>2, <2>3, <2>4, <2>5 DEF FrameOK
<1>11. ASSUME NEW i \in 1 .. m + 1 PROVE FrameOK(o, w, tr2, th2, fr2[i])
  <2>1. CASE i = m + 1
    BY <1>6, <1>9, <2>1
  <2>2. CASE i # m + 1
    <3>1. i \in 1 .. m
      BY <1>5, <2>2
    <3> QED
      BY <1>6, <1>10, <3>1
  <2> QED
    BY <2>1, <2>2
<1>12. ASSUME NEW i \in 1 .. m + 1, NEW j \in 1 .. m + 1, i < j PROVE fr2[i].node < fr2[j].node
  <2>1. i \in 1 .. m /\ fr2[i] = fr[i]
    BY <1>5, <1>6, <1>12
  <2>2. CASE j = m + 1
    <3>1. fr[i].node \in 1 .. n /\ fr2[j].node = n + 1
      BY <1>4, <1>6, <1>10, <2>1, <2>2
    <3> QED
      BY <1>1, <2>1, <3>1
  <2>3. CASE j # m + 1
    <3>1. j \in 1 .. m /\ fr2[j] = fr[j]
      BY <1>5, <1>6, <2>3
    <3> QED
      BY <1>12, <2>1, <3>1 DEF FramesOK, m
  <2> QED
    BY <2>2, <2>3
<1>13. ASSUME ~o.Careless
       PROVE  m + 1 = n + 1 /\ \A i \in 1 .. m + 1 : fr2[i].node = i
  <2>1. m = n /\ \A i \in 1 .. m : fr[i].node = i
    BY <1>13 DEF FramesOK, m, n
  <2>2. ASSUME NEW i \in 1 .. m + 1 PROVE fr2[i].node = i
    <3>1. CASE i = m + 1
      BY <1>4, <1>6, <2>1, <3>1
    <3>2. CASE i # m + 1
      <4>1. i \in 1 .. m
        BY <1>5, <3>2
      <4> QED
        BY <1>6, <2>1, <4>1
    <3> QED
      BY <3>1, <3>2
  <2> QED
    BY <2>1, <2>2
<1>14. fr2 \in Frames(o)
  BY <1>6 DEF Frames
<1> QED
  BY <1>1, <1>6, <1>11, <1>12, <1>13, <1>14 DEF FramesOK, fr2

-----------------------------------------------------------------------------
(* A closing call that is accepted keeps what holds of its thread. *)

LEMMA EndTable ==
  ASSUME NEW o, NEW kd, TableOK(o, kd), NEW w, Alike(o, kd, w)
  PROVE  TableOK(o, w)
<1>1. /\ w \in Tables(o) /\ KeysOf(w) = KeysOf(kd)
      /\ \A q \in KeysOf(kd) : /\ KeyAt(w, q).name = KeyAt(kd, q).name
                                /\ KeyAt(w, q).path = KeyAt(kd, q).path
  BY DEF Alike
<1>2. Pointed(w) = Pointed(kd)
  BY <1>1 DEF Pointed
<1>3. IsFiniteSet(KeysOf(w))
  BY <1>1 DEF TableOK
<1>4. ASSUME NEW q \in KeysOf(w)
      PROVE  o.Hash[KeyAt(w, q).name] = q[1] /\ Range(KeyAt(w, q).path) \subseteq Pointed(w)
  BY <1>1, <1>2 DEF TableOK
<1>5. ASSUME NEW q \in KeysOf(w), NEW r \in KeysOf(w), KeyAt(w, q).name = KeyAt(w, r).name,
             KeyAt(w, q).path = KeyAt(w, r).path
      PROVE  q = r
  BY <1>1, <1>5 DEF TableOK
<1> QED
  BY <1>1, <1>3, <1>4, <1>5 DEF TableOK

\* The node on top is not active any more
OneNodeLess(tr, th, tr2, th2) ==
  /\ Deep(tr, th) \in Nat \ {0} /\ Deep(tr2, th2) = Deep(tr, th) - 1
  /\ \A i \in 1 .. Deep(tr, th) : tr2[i].key = tr[i].key

StatusLess(kd, w, p) ==
  \A q \in KeysOf(kd) : KeyAt(w, q).status = KeyAt(kd, q).status + By(q = p, -1)
NodeClosedIn(o, kd, w, tr, th, tr2, th2, p) ==
  /\ TreeOK(o, w, tr2, th2) /\ OneNodeLess(tr, th, tr2, th2)
  /\ Deep(tr, th) = th /\ p \in KeysOf(kd) /\ tr[th2].key \in Pointed(kd)

LEMMA EndTree ==
  ASSUME NEW o, NEW kd, TableOK(o, kd), NEW tr, NEW th, TreeOK(o, kd, tr, th), tr[th].active,
         NEW p, p = tr[th].key, NEW w, Alike(o, kd, w),
         StatusLess(kd, w, p), NEW tr2, tr2 = Closing(tr, th), NEW th2, th2 = Max({1, th - 1})
  PROVE  NodeClosedIn(o, kd, w, tr, th, tr2, th2, p)
<1> DEFINE n == Deep(tr, th)
<1>1. tr \in Trees(o) /\ TreeShape(tr, th)
  BY DEF TreeOK
<1>2. /\ tr2 \in Trees(o) /\ Len(tr2) = Len(tr)
      /\ TreeShape(tr2, th2) /\ Deep(tr2, th2) = n - 1
      /\ \A i \in 1 .. Len(tr) : tr2[i].key = tr[i].key
  BY <1>1, Closed
<1>3. n = th /\ n \in Nat \ {0} /\ n <= Len(tr) /\ Len(tr) \in Nat
  BY <1>1, DeepIs DEF Deep, TreeShape
<1>4. KeysOf(w) = KeysOf(kd) /\ Pointed(w) = Pointed(kd)
  BY DEF Alike, Pointed
<1>5. OneNodeLess(tr, th, tr2, th2)
  <2>1. \A i \in 1 .. n : tr2[i].key = tr[i].key
    BY <1>2, <1>3
  <2> QED
    BY <1>2, <1>3, <2>1 DEF OneNodeLess
<1>6. p \in KeysOf(kd)
  <2>1. th \in 1 .. n
    BY <1>3
  <2> QED
    BY <2>1 DEF TreeOK
<1>7. \A i \in 1 .. Len(tr2) : tr2[i].key \in Pointed(w)
  BY <1>2, <1>4 DEF TreeOK
<1>8. \A i \in 1 .. n : tr[i].key \in KeysOf(kd)
  BY DEF TreeOK
<1> HIDE DEF n
<1>9. \A i \in 1 .. n - 1 : tr2[i].key \in KeysOf(w)
  BY <1>2, <1>3, <1>4, <1>8
<1>10. ASSUME NEW q \in KeysOf(w)
       PROVE  KeyAt(w, q).status = Cardinality(Holding(tr2, th2, q))
  <2> DEFINE H == {i \in 1 .. n - 1 : tr[i].key = q}
  <2>1. Holding(tr2, th2, q) = H
    <3>1. Deep(tr2, th2) = n - 1
      BY <1>2
    <3>2. Holding(tr2, th2, q) = {i \in 1 .. n - 1 : tr2[i].key = q}
      BY ONLY <3>1 DEF Holding
    <3>3. \A i \in 1 .. n - 1 : tr2[i].key = tr[i].key
      BY <1>2, <1>3
    <3> QED
      <4>1. ASSUME NEW i PROVE i \in Holding(tr2, th2, q) <=> i \in H
        BY ONLY <3>2, <3>3
      <4> QED
        BY ONLY <4>1
  <2>2. IsFiniteSet(H) /\ n \notin H
    <3>1. IsFiniteSet(1 .. n - 1)
      BY <1>3, FS_Interval
    <3>2. IsFiniteSet(H)
      BY <3>1, FS_Subset
    <3> QED
      BY <1>3, <3>2
  <2>3. KeyAt(kd, q).status = Cardinality(Holding(tr, th, q))
    BY <1>4 DEF TreeOK
  <2>4. KeyAt(w, q).status = KeyAt(kd, q).status + By(q = p, -1)
    BY <1>4 DEF StatusLess
  <2>5. Holding(tr, th, q) = {i \in 1 .. n : tr[i].key = q}
    BY DEF Holding, n
  <2>6. CASE q = p
    <3>1. Holding(tr, th, q) = H \cup {n}
      BY <1>3, <2>5, <2>6
    <3>2. Cardinality(H \cup {n}) = Cardinality(H) + 1 /\ Cardinality(H) \in Nat
      BY <2>2, FS_AddElement, FS_CardinalityType
    <3> HIDE DEF H
    <3>3. KeyAt(w, q).status = (Cardinality(H) + 1) + (-1)
      BY <2>3, <2>4, <2>6, <3>1, <3>2 DEF By
    <3> QED
      BY <2>1, <3>2, <3>3
  <2>7. CASE q # p
    <3>1. Holding(tr, th, q) = H
      BY <1>3, <2>5, <2>7
    <3>2. Cardinality(H) \in Nat
      BY <2>2, FS_CardinalityType
    <3> HIDE DEF H
    <3> QED
      BY <2>1, <2>3, <2>4, <2>7, <3>1, <3>2 DEF By
  <2> QED
    BY <2>6, <2>7
<1>11. TreeOK(o, w, tr2, th2)
  BY <1>2, <1>7, <1>9, <1>10 DEF TreeOK
<1>12. tr[th2].key \in Pointed(kd)
  <2>1. th2 \in 1 .. Len(tr)
    BY <1>2 DEF TreeShape
  <2> QED
    BY <2>1 DEF TreeOK
<1> QED
  BY <1>3, <1>5, <1>6, <1>11, <1>12 DEF n, NodeClosedIn

LEMMA EndStack ==
  ASSUME NEW o, NEW tr, NEW th, NEW cs, StackOK(o, tr, th, cs), o.CstkLen > 0,
         NEW tr2, NEW th2, OneNodeLess(tr, th, tr2, th2),
         NEW cs2, cs2 = [cs EXCEPT !.next = @ - 1]
  PROVE  StackOK(o, tr2, th2, cs2)
<1> DEFINE n == Deep(tr, th)  K == cs.key  m == cs.maxdepth
<1>1. /\ cs = [key |-> K, next |-> n, maxdepth |-> m]
      /\ m \in Nat /\ n <= m /\ n \in Nat \ {0}
      /\ \A i \in 1 .. n : K[i - 1] = tr[i].key
  BY DEF StackOK, OneNodeLess
<1>2. Deep(tr2, th2) = n - 1 /\ \A i \in 1 .. n : tr2[i].key = tr[i].key
  BY DEF OneNodeLess
<1> HIDE DEF n, K, m
<1>3. cs2 = [key |-> K, next |-> n - 1, maxdepth |-> m]
  BY <1>1
<1>4. cs2.key = K /\ cs2.next = n - 1 /\ cs2.maxdepth = m
  BY <1>3
<1>5. n - 1 <= m /\ \A i \in 1 .. n - 1 : K[i - 1] = tr2[i].key
  BY <1>1, <1>2
<1> QED
  BY <1>1, <1>2, <1>3, <1>4, <1>5 DEF StackOK

LEMMA FrontIs ==
  ASSUME NEW R, NEW s \in Seq(R), s # <<>>
  PROVE  /\ Front(s) \in Seq(R) /\ Len(Front(s)) = Len(s) - 1 /\ Len(s) \in Nat \ {0}
         /\ Last(s) = s[Len(s)] /\ Last(s) \in R
         /\ \A i \in 1 .. Len(s) - 1 : Front(s)[i] = s[i]
<1>1. Len(s) \in Nat \ {0} /\ \A i \in 1 .. Len(s) : s[i] \in R
  OBVIOUS
<1>2. PICK m \in Int : m = Len(s) - 1
  BY <1>1
<1>3. \A i \in 1 .. m : s[i] \in R
  BY <1>1, <1>2
<1>4. /\ SubSeq(s, 1, m) \in Seq(R)
      /\ Len(SubSeq(s, 1, m)) = IF 1 <= m THEN m - 1 + 1 ELSE 0
      /\ \A i \in 1 .. m - 1 + 1 : SubSeq(s, 1, m)[i] = s[1 + i - 1]
  BY <1>3, SubSeqProperties
<1>5. Front(s) = SubSeq(s, 1, m)
  BY <1>2, Zenon DEF Front
<1>6. Last(s) = s[Len(s)]
  BY Zenon DEF Last
<1>7. Front(s) \in Seq(R) /\ Len(Front(s)) = m /\ \A i \in 1 .. m : Front(s)[i] = s[i]
  BY <1>1, <1>2, <1>4, <1>5
<1> QED
  BY <1>1, <1>2, <1>6, <1>7

\* The routine that was left had a node of its own above those of the others.
LEMMA EndFrames ==
  ASSUME NEW o, NEW kd, NEW tr, NEW th, NEW fr, FramesOK(o, kd, tr, th, fr), fr # <<>>,
         \A i \in 1 .. Deep(tr, th) : tr[i].key \in KeysOf(kd),
         NEW w, Alike(o, kd, w), NEW tr2, NEW th2, OneNodeLess(tr, th, tr2, th2)
  PROVE  FramesOK(o, w, tr2, th2, Front(fr))
<1> DEFINE n == Deep(tr, th)
           R == [name : Range(o.Canon), node : Nat, handle : Ptrs(o)]
           fr2 == Front(fr)
           m == Len(fr)
<1>1. n \in Nat \ {0} /\ Deep(tr2, th2) = n - 1 /\ \A i \in 1 .. n : tr2[i].key = tr[i].key
  BY DEF OneNodeLess
<1>2. fr \in Seq(R)
  BY DEF FramesOK, Frames
<1>3. /\ fr2 \in Seq(R) /\ Len(fr2) = m - 1 /\ m \in Nat \ {0}
      /\ \A i \in 1 .. m - 1 : fr2[i] = fr[i]
  <2> HIDE DEF R
  <2> QED
    BY <1>2, FrontIs
<1>4. ASSUME NEW i \in 1 .. n PROVE NameAt(w, tr2, i) = NameAt(kd, tr, i)
  BY <1>1 DEF NameAt, Alike
<1> HIDE DEF n, fr2, m, R
<1>5. ASSUME NEW i \in 1 .. m - 1 PROVE FrameOK(o, w, tr2, th2, fr[i])
  <2>1. i \in 1 .. m /\ m \in 1 .. m /\ i < m
    BY <1>3
  <2>2. FrameOK(o, kd, tr, th, fr[i]) /\ FrameOK(o, kd, tr, th, fr[m]) /\ fr[i].node < fr[m].node
    BY <2>1 DEF FramesOK, m
  <2>3. fr[i].node \in 1 .. n /\ fr[m].node \in 1 .. n
    BY <2>2 DEF FrameOK, n
  <2>4. fr[i].node \in 1 .. n - 1
    BY <1>1, <2>2, <2>3
  <2>5. NameAt(w, tr2, fr[i].node) = fr[i].name
    BY <1>4, <2>2, <2>3 DEF FrameOK
  <2>6. fr[i].handle = IF o.CstkLen = 0 THEN tr2[fr[i].node].key ELSE <<0, fr[i].node - 1>>
    BY <1>1, <2>2, <2>3 DEF FrameOK
  <2>7. ASSUME ~o.Recursive, NEW k \in 1 .. n - 1, k > fr[i].node
        PROVE  NameAt(w, tr2, k) # fr[i].name
    <3>1. k \in 1 .. n
      BY <1>1
    <3>2. NameAt(kd, tr, k) # fr[i].name
      BY <2>2, <2>7, <3>1 DEF FrameOK, n
    <3> QED
      BY <1>4, <3>1, <3>2
  <2> QED
    BY <1>1, <2>4, <2>5, <2>6, <2>7 DEF FrameOK
<1>6. \A i \in 1 .. m - 1 : FrameOK(o, w, tr2, th2, fr2[i])
  BY <1>3, <1>5
<1>7. ASSUME NEW i \in 1 .. m - 1, NEW j \in 1 .. m - 1, i < j PROVE fr2[i].node < fr2[j].node
  <2>1. i \in 1 .. m /\ j \in 1 .. m
    BY <1>3
  <2>2. fr[i].node < fr[j].node
    BY <1>7, <2>1 DEF FramesOK, m
  <2> QED
    BY <1>3, <2>2
<1>8. ASSUME ~o.Careless PROVE m - 1 = n - 1 /\ \A i \in 1 .. m - 1 : fr2[i].node = i
  <2>1. m = n /\ \A i \in 1 .. m : fr[i].node = i
    BY <1>8 DEF FramesOK, m, n
  <2>2. ASSUME NEW i \in 1 .. m - 1 PROVE fr2[i].node = i
    <3>1. i \in 1 .. m
      BY <1>3
    <3> QED
      BY <1>3, <2>1, <3>1
  <2> QED
    BY <2>1, <2>2
<1>9. fr2 \in Frames(o)
  BY <1>3 DEF Frames, R
<1> QED
  BY <1>1, <1>3, <1>6, <1>7, <1>8, <1>9 DEF FramesOK, fr2

\* The program returns without the closing call: the tree keeps its node.
LEMMA ForgetFrames ==
  ASSUME NEW o, NEW kd, NEW tr, NEW th, NEW fr, FramesOK(o, kd, tr, th, fr), fr # <<>>,
         o.Careless
  PROVE  FramesOK(o, kd, tr, th, Front(fr))
<1> DEFINE R == [name : Range(o.Canon), node : Nat, handle : Ptrs(o)]
           fr2 == Front(fr)
           m == Len(fr)
<1>1. fr \in Seq(R)
  BY DEF FramesOK, Frames
<1>2. /\ fr2 \in Seq(R) /\ Len(fr2) = m - 1 /\ m \in Nat \ {0}
      /\ \A i \in 1 .. m - 1 : fr2[i] = fr[i]
  <2> HIDE DEF R
  <2> QED
    BY <1>1, FrontIs
<1> HIDE DEF R, fr2, m
<1>3. \A i \in 1 .. m - 1 : i \in 1 .. m
  BY <1>2
<1>4. fr2 \in Frames(o)
  BY <1>2 DEF Frames, R
<1>5. \A i \in 1 .. m - 1 : FrameOK(o, kd, tr, th, fr2[i])
  BY <1>2, <1>3 DEF FramesOK, m
<1>6. \A i, j \in 1 .. m - 1 : i < j => fr2[i].node < fr2[j].node
  BY <1>2, <1>3 DEF FramesOK, m
<1> QED
  BY <1>2, <1>4, <1>5, <1>6 DEF FramesOK, fr2

-----------------------------------------------------------------------------
(* The steps of one thread. *)

\* get_callpath
PathIn(o, tr, th) ==
  IF ~o.CallPath \/ ~tr[th].active THEN <<>>
  ELSE [i \in 1..Min({Depth, th}) |-> tr[th + 1 - i].key]

LEMMA PathIs ==
  ASSUME NEW o, NEW kd, TableOK(o, kd), NEW tr, NEW th, TreeOK(o, kd, tr, th)
  PROVE  PathIn(o, tr, th) \in Seq(Ptrs(o)) /\ Range(PathIn(o, tr, th)) \subseteq Pointed(kd)
<1> DEFINE P == Ptrs(o)  s == PathIn(o, tr, th)
<1>1. CASE ~o.CallPath \/ ~tr[th].active
  <2>1. s = <<>>
    BY <1>1 DEF PathIn
  <2>2. <<>> \in Seq(P) /\ Range(<<>>) = {}
    BY DEF Range
  <2> QED
    BY <2>1, <2>2
<1>2. CASE o.CallPath /\ tr[th].active
  <2>1. th \in Nat \ {0} /\ th <= Len(tr) /\ Len(tr) \in Nat
    <3>1. tr \in Trees(o) /\ TreeShape(tr, th)
      BY DEF TreeOK
    <3> QED
      BY <3>1, DeepIs DEF TreeShape
  <2>2. PICK m \in Nat : m = Min({Depth, th}) /\ m <= th
    <3> DEFINE k == IF Depth <= th THEN Depth ELSE th
    <3>1. k \in {Depth, th} /\ (\A x \in {Depth, th} : k <= x) /\ {Depth, th} \subseteq Int
      BY <2>1, DrHookAssumption
    <3>2. Min({Depth, th}) = k
      BY <3>1, MinIs
    <3>3. k \in Nat /\ k <= th
      BY <2>1, DrHookAssumption
    <3> QED
      BY <3>2, <3>3
  <2>3. s = [i \in 1 .. m |-> tr[th + 1 - i].key]
    BY <1>2, <2>2 DEF PathIn
  <2>4. ASSUME NEW i \in 1 .. m PROVE tr[th + 1 - i].key \in Pointed(kd) /\ tr[th + 1 - i].key \in P
    <3>1. th + 1 - i \in 1 .. Len(tr)
      BY <2>1, <2>2
    <3>2. tr[th + 1 - i].key \in Pointed(kd)
      BY <3>1 DEF TreeOK
    <3>3. Null \in P
      BY DEF Ptrs, Null
    <3>4. kd \in Tables(o)
      BY DEF TableOK
    <3> QED
      BY <3>2, <3>3, <3>4, KeysAre DEF Pointed
  <2>5. s \in Seq(P)
    <3> HIDE DEF P, s
    <3> QED
      BY <2>3, <2>4
  <2>6. Range(s) \subseteq Pointed(kd)
    <3> HIDE DEF s
    <3> QED
      BY <2>3, <2>4 DEF Range
  <2> QED
    BY <2>5, <2>6
<1> QED
  BY <1>1, <1>2

\* c_drhook_start_, for its own thread
LEMMA StartOK ==
  ASSUME NEW o, OptionsOK(o), NEW kd, NEW tr, NEW th, NEW ck, NEW cs, NEW fr,
         ThreadOK(o, kd, tr, th, ck, cs, fr),
         NEW name \in Range(o.Canon),
         o.Recursive \/ (\A i \in 1 .. Len(fr) : fr[i].name # name),
         NEW at \in Int, NEW path, path = PathIn(o, tr, th),
         NEW p, p = KeyFor(o, kd, name, path), NEW w, w = EnteredIn(kd, name, path, p, at),
         NEW tr2, tr2 = WithNode(tr, th, p), NEW th2, th2 = FreeIn(tr, th),
         NEW cs2, cs2 = IF o.CstkLen = 0 THEN cs ELSE PushedIn(cs, p),
         NEW f, f = [name |-> name, node |-> th2,
                     handle |-> IF o.CstkLen = 0 THEN p ELSE <<0, cs.next>>]
  PROVE  /\ ThreadOK(o, w, tr2, th2, p, cs2, Append(fr, f))
         /\ EntryMade(o, kd, w, p, name, path, at) /\ OneMoreNode(tr, th, tr2, th2, p)
<1>1. /\ TableOK(o, kd) /\ TreeOK(o, kd, tr, th) /\ StackOK(o, tr, th, cs)
      /\ FramesOK(o, kd, tr, th, fr)
  BY DEF ThreadOK
<1>2. path \in Seq(Ptrs(o)) /\ Range(path) \subseteq Pointed(kd)
  BY <1>1, PathIs
<1>3. EntryMade(o, kd, w, p, name, path, at)
  BY <1>1, <1>2, Enters
<1>4. TableOK(o, w)
  BY <1>1, <1>2, <1>3, StartTable
<1>5. /\ TreeOK(o, w, tr2, th2) /\ th2 = Deep(tr, th) + 1
      /\ OneMoreNode(tr, th, tr2, th2, p)
      /\ \A i \in 1 .. Deep(tr, th) : tr[i].key \in KeysOf(kd)
  <2>1. NodeAdded(o, kd, w, tr, th, tr2, th2, p)
    BY ONLY <1>1, <1>3, StartTree, OptionsOK(o), name \in Range(o.Canon),
            tr2 = WithNode(tr, th, p), th2 = FreeIn(tr, th)
  <2> QED
    BY ONLY <2>1 DEF NodeAdded
<1>6. StackOK(o, tr2, th2, cs2)
  <2>1. CASE o.CstkLen = 0
    BY <2>1 DEF StackOK
  <2>2. CASE o.CstkLen > 0
    <3>1. cs2 = PushedIn(cs, p)
      BY <2>2
    <3> QED
      BY <1>1, <1>5, <2>2, <3>1, StartStack
  <2> QED
    BY <2>1, <2>2 DEF OptionsOK
<1>7. PICK h : h = IF o.CstkLen = 0 THEN p ELSE <<0, Deep(tr, th)>>
  OBVIOUS
<1>8. f = [name |-> name, node |-> Deep(tr, th) + 1, handle |-> h]
  <2>1. CASE o.CstkLen = 0
    BY <1>5, <1>7, <2>1
  <2>2. CASE o.CstkLen # 0
    <3>1. cs.next = Deep(tr, th)
      BY <1>1, <2>2 DEF StackOK, OptionsOK
    <3> QED
      BY <1>5, <1>7, <2>2, <3>1
  <2> QED
    BY <2>1, <2>2
<1>9. FramesOK(o, w, tr2, th2, Append(fr, f))
  BY <1>1, <1>3, <1>5, <1>7, <1>8, StartFrames
<1>10. p \in Pointed(w)
  BY <1>3 DEF EntryMade, Pointed
<1> QED
  BY <1>3, <1>4, <1>5, <1>6, <1>9, <1>10 DEF ThreadOK

\* The handle of the routine that is left is the one of the call on top
Agrees(o, tr, th, cs, fr) ==
  /\ o.CstkLen = 0 \/ cs.next - 1 = Last(fr).handle[2]
  /\ tr[th].active
  /\ tr[th].key = IF o.CstkLen = 0 THEN Last(fr).handle ELSE cs.key[cs.next - 1]

\* c_drhook_end_, for its own thread
ClosedInto(o, kd, w, tr, th, tr2, th2, cs2, fr) ==
  /\ ThreadOK(o, w, tr2, th2, tr[th2].key, cs2, Front(fr))
  /\ Alike(o, kd, w) /\ OneNodeLess(tr, th, tr2, th2) /\ Deep(tr, th) = th

LEMMA EndOK ==
  ASSUME NEW o, OptionsOK(o), NEW kd, NEW tr, NEW th, NEW ck, NEW cs, NEW fr,
         ThreadOK(o, kd, tr, th, ck, cs, fr), fr # <<>>, tr[th].active,
         NEW p, p = tr[th].key, NEW at \in Int, NEW d \in Int, NEW hasSelf \in BOOLEAN,
         NEW nested \in BOOLEAN, nested <=> th # 1, NEW c, c = tr[th - 1].key,
         NEW w, w = LeftIn(hasSelf, nested, kd, p, c, at, d),
         NEW tr2, tr2 = Closing(tr, th), NEW th2, th2 = Max({1, th - 1}),
         NEW cs2, cs2 = IF o.CstkLen = 0 THEN cs ELSE [cs EXCEPT !.next = @ - 1]
  PROVE  ClosedInto(o, kd, w, tr, th, tr2, th2, cs2, fr)
<1>1. /\ TableOK(o, kd) /\ TreeOK(o, kd, tr, th) /\ StackOK(o, tr, th, cs)
      /\ FramesOK(o, kd, tr, th, fr) /\ kd \in Tables(o)
  BY DEF ThreadOK, TableOK
<1>2. Deep(tr, th) = th /\ th \in Nat \ {0}
  <2>1. tr \in Trees(o) /\ TreeShape(tr, th)
    BY <1>1 DEF TreeOK
  <2>2. th \in Nat \ {0}
    BY <2>1, DeepIs
  <2> QED
    BY <2>2 DEF Deep
<1>3. \A i \in 1 .. th : tr[i].key \in KeysOf(kd)
  BY <1>1, <1>2 DEF TreeOK
<1>4. p \in KeysOf(kd) /\ (nested => c \in KeysOf(kd))
  <2>1. th \in 1 .. th /\ (nested => th - 1 \in 1 .. th)
    BY <1>2
  <2> QED
    BY <1>3, <2>1
<1>5. PICK delta : delta = at + d - KeyAt(kd, p).in
  OBVIOUS
<1>6. Alike(o, kd, w) /\ FieldsLeft(kd, w, p, c, nested, hasSelf, delta, d)
  BY <1>1, <1>4, <1>5, LeftIs
<1>7. TableOK(o, w)
  BY <1>1, <1>6, EndTable
<1>8. TreeOK(o, w, tr2, th2) /\ OneNodeLess(tr, th, tr2, th2) /\ tr[th2].key \in Pointed(kd)
  <2>1. StatusLess(kd, w, p)
    BY <1>6 DEF StatusLess, FieldsLeft
  <2>2. NodeClosedIn(o, kd, w, tr, th, tr2, th2, p)
    BY ONLY <1>1, <1>6, <2>1, EndTree, tr[th].active, p = tr[th].key, tr2 = Closing(tr, th),
            th2 = Max({1, th - 1})
  <2> QED
    BY ONLY <2>2 DEF NodeClosedIn
<1>9. StackOK(o, tr2, th2, cs2)
  <2>1. CASE o.CstkLen = 0
    BY <2>1 DEF StackOK
  <2>2. CASE o.CstkLen > 0
    <3>1. cs2 = [cs EXCEPT !.next = @ - 1]
      BY <2>2
    <3> QED
      BY <1>1, <1>8, <2>2, <3>1, EndStack
  <2> QED
    BY <2>1, <2>2 DEF OptionsOK
<1>10. FramesOK(o, w, tr2, th2, Front(fr))
  BY <1>1, <1>2, <1>3, <1>6, <1>8, EndFrames
<1>11. tr[th2].key \in Pointed(w)
  BY <1>6, <1>8 DEF Alike, Pointed
<1> QED
  BY <1>2, <1>6, <1>7, <1>8, <1>9, <1>10, <1>11 DEF ThreadOK, ClosedInto

\* Forget, for its own thread
LEMMA ForgetOK ==
  ASSUME NEW o, NEW kd, NEW tr, NEW th, NEW ck, NEW cs, NEW fr,
         ThreadOK(o, kd, tr, th, ck, cs, fr), fr # <<>>, o.Careless
  PROVE  ThreadOK(o, kd, tr, th, ck, cs, Front(fr))
BY ForgetFrames DEF ThreadOK

\* The routine a thread is in, and its handle
LEMMA LastFrame ==
  ASSUME NEW o, NEW kd, NEW tr, NEW th, NEW fr, FramesOK(o, kd, tr, th, fr), fr # <<>>
  PROVE  /\ FrameOK(o, kd, tr, th, Last(fr)) /\ Len(fr) \in Nat \ {0}
         /\ ~o.Careless => Last(fr).node = Deep(tr, th)
<1> DEFINE R == [name : Range(o.Canon), node : Nat, handle : Ptrs(o)]
<1>1. fr \in Seq(R)
  BY DEF FramesOK, Frames
<1> HIDE DEF R
<1>2. Len(fr) \in Nat \ {0} /\ Last(fr) = fr[Len(fr)]
  BY <1>1, FrontIs
<1>3. Len(fr) \in 1 .. Len(fr)
  BY <1>2
<1> QED
  BY <1>2, <1>3 DEF FramesOK

\* Without a forgotten call the handle is always the expected one.
LEMMA NeverRefused ==
  ASSUME NEW o, OptionsOK(o), NEW kd, NEW tr, NEW th, NEW ck, NEW cs, NEW fr,
         ThreadOK(o, kd, tr, th, ck, cs, fr), fr # <<>>, ~o.Careless
  PROVE  Agrees(o, tr, th, cs, fr)
<1> DEFINE n == Deep(tr, th)  f == Last(fr)
<1>1. /\ FramesOK(o, kd, tr, th, fr) /\ StackOK(o, tr, th, cs) /\ tr \in Trees(o)
      /\ TreeShape(tr, th)
  BY DEF ThreadOK, TreeOK
<1>2. FrameOK(o, kd, tr, th, f) /\ f.node = n
  BY <1>1, LastFrame
<1>3. n \in 1 .. n /\ f.handle = IF o.CstkLen = 0 THEN tr[n].key ELSE <<0, n - 1>>
  BY <1>2 DEF FrameOK
<1>4. n \in Nat \ {0} /\ n = th /\ tr[th].active
  <2>1. n \in Nat /\ (n > 0 => n = th) /\ (n = 0 <=> ~tr[th].active)
    BY <1>1, DeepIs
  <2> QED
    BY <1>3, <2>1
<1> HIDE DEF n, f
<1>5. CASE o.CstkLen = 0
  BY <1>3, <1>4, <1>5 DEF Agrees, f
<1>6. CASE o.CstkLen > 0
  <2>1. cs.next = n /\ \A i \in 1 .. n : cs.key[i - 1] = tr[i].key
    BY <1>1, <1>6 DEF StackOK, n
  <2>2. f.handle[2] = n - 1 /\ cs.key[n - 1] = tr[n].key
    BY <1>3, <1>6, <2>1
  <2> QED
    BY <1>4, <1>6, <2>1, <2>2 DEF Agrees, f
<1> QED
  BY <1>5, <1>6 DEF OptionsOK

\* An accepted call closes the node of its own routine.
LEMMA ItsOwnNode ==
  ASSUME NEW o, OptionsOK(o), NEW kd, NEW tr, NEW th, NEW ck, NEW cs, NEW fr,
         ThreadOK(o, kd, tr, th, ck, cs, fr), fr # <<>>, Agrees(o, tr, th, cs, fr),
         o.CstkLen > 0 \/ ~o.Recursive \/ ~o.Careless
  PROVE  Last(fr).node = th
<1> DEFINE n == Deep(tr, th)  f == Last(fr)
<1>1. /\ FramesOK(o, kd, tr, th, fr) /\ StackOK(o, tr, th, cs) /\ tr \in Trees(o)
      /\ TreeShape(tr, th)
  BY DEF ThreadOK, TreeOK
<1>2. FrameOK(o, kd, tr, th, f) /\ (~o.Careless => f.node = n)
  BY <1>1, LastFrame
<1>3. n = th /\ n \in Nat \ {0}
  <2>1. th \in Nat \ {0}
    BY <1>1, DeepIs
  <2> QED
    BY <2>1 DEF Agrees, Deep
<1>4. f.node \in 1 .. n
  BY <1>2 DEF FrameOK
<1>5. CASE o.CstkLen > 0
  <2>1. f.handle = <<0, f.node - 1>>
    BY <1>2, <1>5 DEF FrameOK
  <2>2. cs.next = n /\ cs.next - 1 = f.handle[2]
    BY <1>1, <1>5 DEF StackOK, Agrees
  <2> HIDE DEF n, f
  <2>3. f.handle[2] = f.node - 1
    BY <2>1
  <2> QED
    BY <1>3, <1>4, <2>2, <2>3 DEF f
<1>6. CASE o.CstkLen = 0 /\ ~o.Careless
  BY <1>2, <1>3, <1>6
<1>7. CASE o.CstkLen = 0 /\ ~o.Recursive
  <2>1. f.handle = tr[f.node].key /\ tr[th].key = f.handle /\ NameAt(kd, tr, f.node) = f.name
    BY <1>2, <1>7 DEF FrameOK, Agrees
  <2>2. NameAt(kd, tr, th) = f.name
    BY <2>1 DEF NameAt
  <2>3. \A k \in 1 .. n : k > f.node => NameAt(kd, tr, k) # f.name
    BY <1>2, <1>7 DEF FrameOK
  <2> HIDE DEF n, f
  <2>4. ~(th > f.node)
    BY <1>3, <2>2, <2>3
  <2> QED
    BY <1>3, <1>4, <2>4 DEF f
<1> QED
  BY <1>5, <1>6, <1>7 DEF OptionsOK

-----------------------------------------------------------------------------
(* The times of one thread. *)

LEMMA OwnNumbers ==
  ASSUME NEW o, NEW kd, TableOK(o, kd), NEW r
  PROVE  /\ IsFiniteSet(KeysNamed(kd, r)) /\ KeysNamed(kd, r) \subseteq KeysOf(kd)
         /\ \A q \in KeysOf(kd) : OwnOf(kd, q) \in Int
         /\ Summable([q \in KeysNamed(kd, r) |-> OwnOf(kd, q)])
         /\ OwnSum(kd, r) \in Int
<1> DEFINE f == [q \in KeysNamed(kd, r) |-> OwnOf(kd, q)]
<1>1. KeysNamed(kd, r) \subseteq KeysOf(kd)
  BY DEF KeysNamed
<1>2. IsFiniteSet(KeysNamed(kd, r))
  BY <1>1, FS_Subset DEF TableOK
<1>3. ASSUME NEW q \in KeysOf(kd) PROVE OwnOf(kd, q) \in Int
  BY NumbersOf DEF OwnOf, TableOK
<1>4. Summable(f)
  BY <1>1, <1>2, <1>3 DEF Summable
<1>5. SumFunction(f) \in Int
  BY <1>4, SumInt
<1> QED
  BY <1>1, <1>2, <1>3, <1>4, <1>5 DEF OwnSum

LEMMA OwnSame ==
  ASSUME NEW o, NEW kd, TableOK(o, kd), NEW w, NEW r, KeysNamed(w, r) = KeysNamed(kd, r),
         \A q \in KeysNamed(kd, r) : OwnOf(w, q) = OwnOf(kd, q)
  PROVE  OwnSum(w, r) = OwnSum(kd, r)
<1> DEFINE f == [q \in KeysNamed(kd, r) |-> OwnOf(kd, q)]
           g == [q \in KeysNamed(w, r) |-> OwnOf(w, q)]
<1>1. IsFiniteSet(DOMAIN f)
  BY OwnNumbers
<1>2. DOMAIN g = DOMAIN f /\ \A q \in DOMAIN f : g[q] = f[q]
  OBVIOUS
<1> HIDE DEF f, g
<1>3. SumFunction(g) = SumFunction(f)
  BY <1>1, <1>2, SumSame
<1> QED
  BY <1>3 DEF OwnSum, f, g

LEMMA OwnChanged ==
  ASSUME NEW o, NEW kd, TableOK(o, kd), NEW w, TableOK(o, w), NEW r,
         KeysNamed(w, r) = KeysNamed(kd, r),
         NEW x \in KeysNamed(kd, r), NEW by \in Int, OwnOf(w, x) = OwnOf(kd, x) + by,
         \A q \in KeysNamed(kd, r) : q # x => OwnOf(w, q) = OwnOf(kd, q)
  PROVE  OwnSum(w, r) = OwnSum(kd, r) + by
<1> DEFINE f == [q \in KeysNamed(kd, r) |-> OwnOf(kd, q)]
           g == [q \in KeysNamed(w, r) |-> OwnOf(w, q)]
<1>1. Summable(f) /\ Summable(g)
  BY OwnNumbers
<1>2. /\ DOMAIN g = DOMAIN f /\ x \in DOMAIN f /\ g[x] = f[x] + by /\ f[x] \in Int
      /\ \A q \in DOMAIN f : q # x => g[q] = f[q]
  BY OwnNumbers
<1> HIDE DEF f, g
<1>3. SumFunction(g) = (SumFunction(f) - f[x]) + g[x]
  BY <1>1, <1>2, SumChange
<1>4. SumFunction(f) \in Int
  BY <1>1, SumInt
<1>5. SumFunction(g) = SumFunction(f) + by
  BY <1>2, <1>3, <1>4
<1> QED
  BY <1>5 DEF OwnSum, f, g

\* An opening call adds no time.
LEMMA OwnEntered ==
  ASSUME NEW o, NEW kd, TableOK(o, kd), NEW w, TableOK(o, w), NEW p, NEW name, NEW path, NEW at,
         EntryMade(o, kd, w, p, name, path, at), NEW r
  PROVE  OwnSum(w, r) = OwnSum(kd, r)
<1>1. /\ KeysOf(w) = KeysOf(kd) \cup {p} /\ KeyAt(w, p).name = name
      /\ \A q \in KeysOf(kd) : KeyAt(w, q).name = KeyAt(kd, q).name
      /\ p \notin KeysOf(kd) => KeyAt(w, p).all = 0 /\ KeyAt(w, p).child = 0
  BY DEF EntryMade
<1>2. ASSUME NEW q \in KeysOf(kd) PROVE OwnOf(w, q) = OwnOf(kd, q)
  BY DEF EntryMade, OwnOf
<1>3. CASE p \in KeysOf(kd) \/ r # name
  <2>1. KeysNamed(w, r) = KeysNamed(kd, r)
    BY <1>1, <1>3 DEF KeysNamed
  <2>2. \A q \in KeysNamed(kd, r) : OwnOf(w, q) = OwnOf(kd, q)
    BY <1>2 DEF KeysNamed
  <2> QED
    BY <2>1, <2>2, OwnSame
<1>4. CASE p \notin KeysOf(kd) /\ r = name
  <2> DEFINE f == [q \in KeysNamed(w, r) |-> OwnOf(w, q)]
             g == [q \in KeysNamed(kd, r) |-> OwnOf(kd, q)]
  <2>1. KeysNamed(w, r) = KeysNamed(kd, r) \cup {p} /\ p \notin KeysNamed(kd, r)
    BY <1>1, <1>4 DEF KeysNamed
  <2>2. Summable(f) /\ Summable(g)
    BY OwnNumbers
  <2>3. f[p] = 0
    BY <1>1, <1>4, <2>1 DEF OwnOf
  <2>4. p \in DOMAIN f /\ DOMAIN g = DOMAIN f \ {p}
    BY <2>1
  <2>5. \A q \in DOMAIN g : g[q] = f[q]
    BY <1>2, <2>1 DEF KeysNamed
  <2> HIDE DEF f, g
  <2>6. SumFunction(f) = f[p] + SumFunction(g)
    BY <2>2, <2>4, <2>5, SumSplit
  <2>7. SumFunction(g) \in Int
    BY <2>2, SumInt
  <2>8. SumFunction(f) = SumFunction(g)
    BY <2>3, <2>6, <2>7
  <2> QED
    BY <2>8 DEF OwnSum, f, g
<1> QED
  BY <1>3, <1>4

\* No routine is active twice.
NamesOnce(kd, tr, th) ==
  \A i, j \in 1 .. Deep(tr, th) : NameAt(kd, tr, i) = NameAt(kd, tr, j) => i = j

LEMMA NamesAreOnce ==
  ASSUME NEW o, NEW kd, NEW tr \in Trees(o), NEW th, TreeShape(tr, th), NEW fr,
         FramesOK(o, kd, tr, th, fr), ~o.Recursive, ~o.Careless
  PROVE  NamesOnce(kd, tr, th)
<1> DEFINE n == Deep(tr, th)
<1>1. n \in Nat
  BY DeepIs
<1>2. Len(fr) = n /\ \A i \in 1 .. n : fr[i].node = i
  BY DEF FramesOK
<1>3. ASSUME NEW i \in 1 .. n, NEW j \in 1 .. n, i < j PROVE NameAt(kd, tr, i) # NameAt(kd, tr, j)
  <2>1. FrameOK(o, kd, tr, th, fr[i]) /\ fr[i].node = i
    BY <1>2 DEF FramesOK
  <2> QED
    BY <1>3, <2>1 DEF FrameOK
<1> HIDE DEF n
<1>4. ASSUME NEW i \in 1 .. n, NEW j \in 1 .. n, NameAt(kd, tr, i) = NameAt(kd, tr, j)
      PROVE  i = j
  BY <1>1, <1>3, <1>4
<1> QED
  BY <1>4 DEF NamesOnce, n

\* The routine a thread is in, "none" outside
InnerOf(fr) == IF fr = <<>> THEN "none" ELSE Last(fr).name
Inner(kd, tr, th, name) ==
  \/ Deep(tr, th) = 0 /\ name = "none"
  \/ Deep(tr, th) > 0 /\ name = NameAt(kd, tr, Deep(tr, th))

LEMMA InnerIs ==
  ASSUME NEW o, NEW kd, NEW tr \in Trees(o), NEW th, TreeShape(tr, th), NEW fr,
         FramesOK(o, kd, tr, th, fr), ~o.Careless
  PROVE  Inner(kd, tr, th, InnerOf(fr)) /\ (fr = <<>> <=> Deep(tr, th) = 0)
<1>1. Len(fr) = Deep(tr, th) /\ Deep(tr, th) \in Nat
  BY DeepIs DEF FramesOK
<1>2. CASE fr = <<>>
  <2>1. Len(fr) = 0
    BY <1>2
  <2> QED
    BY <1>1, <1>2, <2>1 DEF Inner, InnerOf
<1>3. CASE fr # <<>>
  <2>1. FrameOK(o, kd, tr, th, Last(fr)) /\ Last(fr).node = Deep(tr, th) /\ Len(fr) \in Nat \ {0}
    BY <1>3, LastFrame
  <2>2. InnerOf(fr) = NameAt(kd, tr, Deep(tr, th))
    BY <1>3, <2>1 DEF InnerOf, FrameOK
  <2>3. Deep(tr, th) > 0
    BY <1>1, <2>1
  <2> QED
    BY <1>3, <2>2, <2>3 DEF Inner
<1> QED
  BY <1>2, <1>3

\* Time d spent in the routine in
SpentIn(o, sp, in, d) == [s \in Range(o.Canon) |-> sp[s] + IF s = in THEN d ELSE 0]

\* The times and the names of the active calls
LEMMA ActiveIs ==
  ASSUME NEW o, NEW kd, TableOK(o, kd), NEW tr, NEW th, TreeOK(o, kd, tr, th),
         NEW i \in 1 .. Deep(tr, th)
  PROVE  InAt(kd, tr, i) \in Int /\ NameAt(kd, tr, i) \in Range(o.Canon)
<1>1. tr[i].key \in KeysOf(kd) /\ kd \in Tables(o)
  BY DEF TreeOK, TableOK
<1>2. KeyAt(kd, tr[i].key) \in KeyRecs(o)
  BY <1>1, KeysAre
<1> QED
  BY <1>2 DEF KeyRecs, InAt, NameAt

\* A thread computes.
LEMMA TickTimes ==
  ASSUME NEW o, OptionsOK(o), NEW kd, TableOK(o, kd), NEW tr, NEW th, TreeOK(o, kd, tr, th),
         NamesOnce(kd, tr, th), NEW sp \in [Range(o.Canon) -> Int], NEW at \in Int, NEW d \in Int,
         TimeOK(o, kd, tr, th, sp, at), NEW in, Inner(kd, tr, th, in)
  PROVE  TimeOK(o, kd, tr, th, SpentIn(o, sp, in, d), at + d)
<1> DEFINE n == Deep(tr, th)  sp2 == SpentIn(o, sp, in, d)
<1>1. n \in Nat
  BY DeepIs DEF TreeOK
<1>2. SUFFICES ASSUME NEW r \in Range(o.Canon)
               PROVE  /\ \A i \in 1 .. n : NameAt(kd, tr, i) = r =>
                           OwnSum(kd, r) + OpenAt(kd, tr, th, i, at + d) = sp2[r]
                      /\ (\A i \in 1 .. n : NameAt(kd, tr, i) # r) => OwnSum(kd, r) = sp2[r]
  BY DEF TimeOK
<1>3. sp2[r] = sp[r] + (IF r = in THEN d ELSE 0) /\ sp[r] \in Int /\ OwnSum(kd, r) \in Int
  BY OwnNumbers DEF SpentIn
<1>4. ASSUME NEW i \in 1 .. n, NameAt(kd, tr, i) = r
      PROVE  OwnSum(kd, r) + OpenAt(kd, tr, th, i, at + d) = sp2[r]
  <2>1. OwnSum(kd, r) + OpenAt(kd, tr, th, i, at) = sp[r]
    BY <1>4 DEF TimeOK
  <2>2. InAt(kd, tr, i) \in Int
    BY ActiveIs
  <2>3. n > 0 /\ n \in 1 .. n /\ in = NameAt(kd, tr, n)
    BY <1>1 DEF Inner
  <2>4. r = in <=> i = n
    <3>1. NameAt(kd, tr, i) = NameAt(kd, tr, n) => i = n
      BY <2>3 DEF NamesOnce
    <3> QED
      BY <1>4, <2>3, <3>1
  <2>5. CASE i = n
    <3>1. OpenAt(kd, tr, th, i, at) = at - InAt(kd, tr, i)
          /\ OpenAt(kd, tr, th, i, at + d) = (at + d) - InAt(kd, tr, i)
      BY <2>5 DEF OpenAt
    <3> HIDE DEF n, sp2
    <3> QED
      BY <1>3, <2>1, <2>2, <2>4, <2>5, <3>1
  <2>6. CASE i # n
    <3>1. OpenAt(kd, tr, th, i, at + d) = OpenAt(kd, tr, th, i, at)
      BY <2>6 DEF OpenAt
    <3> HIDE DEF n, sp2
    <3> QED
      BY <1>3, <2>1, <2>4, <2>6, <3>1
  <2> QED
    BY <2>5, <2>6
<1>5. ASSUME \A i \in 1 .. n : NameAt(kd, tr, i) # r PROVE OwnSum(kd, r) = sp2[r]
  <2>1. OwnSum(kd, r) = sp[r]
    BY <1>5 DEF TimeOK
  <2>2. r # in
    <3>1. CASE n = 0
      BY <3>1 DEF Inner, OptionsOK
    <3>2. CASE n # 0
      <4>1. n \in 1 .. n /\ in = NameAt(kd, tr, n)
        BY <1>1, <3>2 DEF Inner
      <4> QED
        BY <1>5, <4>1
    <3> QED
      BY <3>1, <3>2
  <2> HIDE DEF n, sp2
  <2> QED
    BY <1>3, <2>1, <2>2
<1> QED
  BY <1>4, <1>5


\* An opening call, for its own thread: time d goes to the routine entered.
LEMMA StartTimes ==
  ASSUME NEW o, OptionsOK(o), NEW kd, TableOK(o, kd), NEW tr, NEW th, TreeOK(o, kd, tr, th),
         NEW sp \in [Range(o.Canon) -> Int], NEW at \in Int, NEW d \in Int,
         TimeOK(o, kd, tr, th, sp, at), NEW name, NEW path, NEW p, NEW w,
         EntryMade(o, kd, w, p, name, path, at), TableOK(o, w),
         NEW tr2, NEW th2, OneMoreNode(tr, th, tr2, th2, p), NamesOnce(w, tr2, th2)
  PROVE  TimeOK(o, w, tr2, th2, SpentIn(o, sp, name, d), at + d)
<1> DEFINE n == Deep(tr, th)  sp2 == SpentIn(o, sp, name, d)
<1>1. n \in Nat /\ Deep(tr2, th2) = n + 1 /\ tr2[n + 1].key = p
  BY DEF OneMoreNode
<1>2. NameAt(w, tr2, n + 1) = name /\ InAt(w, tr2, n + 1) = at
  BY <1>1 DEF NameAt, InAt, EntryMade
<1>3. ASSUME NEW i \in 1 .. n
      PROVE  /\ NameAt(w, tr2, i) = NameAt(kd, tr, i) /\ NameAt(kd, tr, i) # name
             /\ InAt(w, tr2, i) = InAt(kd, tr, i) /\ InAt(kd, tr, i) \in Int
  <2>1. tr2[i].key = tr[i].key /\ tr[i].key \in KeysOf(kd)
    BY DEF OneMoreNode, TreeOK
  <2>2. NameAt(w, tr2, i) = NameAt(kd, tr, i)
    BY <2>1 DEF NameAt, EntryMade
  <2>3. NameAt(w, tr2, i) # name
    <3>1. i \in 1 .. Deep(tr2, th2) /\ n + 1 \in 1 .. Deep(tr2, th2) /\ i # n + 1
      BY <1>1
    <3> QED
      BY <1>2, <3>1 DEF NamesOnce
  <2>4. tr[i].key # p
    BY <1>1, <1>2, <2>1, <2>3 DEF NameAt
  <2>5. InAt(w, tr2, i) = InAt(kd, tr, i)
    BY <2>1, <2>4 DEF InAt, EntryMade
  <2>6. InAt(kd, tr, i) \in Int
    BY ActiveIs
  <2> QED
    BY <2>2, <2>3, <2>5, <2>6
<1>4. SUFFICES ASSUME NEW r \in Range(o.Canon)
               PROVE  /\ \A i \in 1 .. n + 1 : NameAt(w, tr2, i) = r =>
                           OwnSum(w, r) + OpenAt(w, tr2, th2, i, at + d) = sp2[r]
                      /\ (\A i \in 1 .. n + 1 : NameAt(w, tr2, i) # r) => OwnSum(w, r) = sp2[r]
  BY <1>1 DEF TimeOK
<1>5. /\ sp2[r] = sp[r] + (IF r = name THEN d ELSE 0) /\ sp[r] \in Int /\ OwnSum(kd, r) \in Int
      /\ OwnSum(w, r) = OwnSum(kd, r)
  <2>1. OwnSum(w, r) = OwnSum(kd, r)
    BY OwnEntered
  <2>2. OwnSum(kd, r) \in Int
    BY OwnNumbers
  <2>3. sp2[r] = sp[r] + (IF r = name THEN d ELSE 0) /\ sp[r] \in Int
    BY DEF SpentIn
  <2> QED
    BY <2>1, <2>2, <2>3
<1>6. (\A i \in 1 .. n : NameAt(kd, tr, i) # r) => OwnSum(kd, r) = sp[r]
  BY DEF TimeOK
<1>7. ASSUME NEW i \in 1 .. n, NameAt(kd, tr, i) = r
      PROVE  OwnSum(kd, r) + OpenAt(kd, tr, th, i, at) = sp[r]
  BY <1>7 DEF TimeOK
<1>8. Deep(tr2, th2) = n + 1 /\ Deep(tr, th) = n
  BY <1>1
<1> HIDE DEF n, sp2
<1>9. ASSUME NEW i \in 1 .. n + 1, NameAt(w, tr2, i) = r
      PROVE  OwnSum(w, r) + OpenAt(w, tr2, th2, i, at + d) = sp2[r]
  <2>1. CASE i = n + 1
    <3>1. r = name
      BY <1>2, <1>9, <2>1
    <3>2. OwnSum(kd, r) = sp[r]
      BY <1>3, <1>6, <3>1
    <3>3. OpenAt(w, tr2, th2, i, at + d) = (at + d) - at
      BY <1>2, <1>8, <2>1 DEF OpenAt
    <3> QED
      BY <1>5, <3>1, <3>2, <3>3
  <2>2. CASE i # n + 1
    <3>1. i \in 1 .. n
      BY <1>1, <2>2
    <3>2. NameAt(kd, tr, i) = r /\ r # name /\ InAt(w, tr2, i) = InAt(kd, tr, i)
      BY <1>3, <1>9, <3>1
    <3>3. OwnSum(kd, r) + OpenAt(kd, tr, th, i, at) = sp[r]
      BY <1>7, <3>1, <3>2
    <3>4. OpenAt(w, tr2, th2, i, at + d) = InAt(w, tr2, i + 1) - InAt(w, tr2, i)
      BY <1>8, <2>2 DEF OpenAt
    <3>5. OpenAt(w, tr2, th2, i, at + d) = OpenAt(kd, tr, th, i, at)
      <4>1. CASE i = n
        <5>1. OpenAt(kd, tr, th, i, at) = at - InAt(kd, tr, i)
          BY <1>8, <4>1 DEF OpenAt
        <5> QED
          BY <1>2, <3>2, <3>4, <4>1, <5>1
      <4>2. CASE i # n
        <5>1. OpenAt(kd, tr, th, i, at) = InAt(kd, tr, i + 1) - InAt(kd, tr, i)
          BY <1>8, <4>2 DEF OpenAt
        <5>2. i + 1 \in 1 .. n
          BY <1>1, <3>1, <4>2
        <5>3. InAt(w, tr2, i + 1) = InAt(kd, tr, i + 1)
          BY <1>3, <5>2
        <5> QED
          BY <3>2, <3>4, <5>1, <5>3
      <4> QED
        BY <4>1, <4>2
    <3> QED
      BY <1>5, <3>2, <3>3, <3>5
  <2> QED
    BY <2>1, <2>2
<1>10. ASSUME \A i \in 1 .. n + 1 : NameAt(w, tr2, i) # r PROVE OwnSum(w, r) = sp2[r]
  <2>1. r # name
    <3>1. n + 1 \in 1 .. n + 1
      BY <1>1
    <3> QED
      BY <1>2, <1>10, <3>1
  <2>2. ASSUME NEW i \in 1 .. n PROVE NameAt(kd, tr, i) # r
    <3>1. i \in 1 .. n + 1
      BY <1>1
    <3> QED
      BY <1>3, <1>10, <3>1
  <2> QED
    BY <1>5, <1>6, <2>1, <2>2
<1> QED
  BY <1>9, <1>10

\* The own times after a closing call of key p, called from that of key c
TimesLeft(kd, w, p, c, nested, hasSelf, delta, d) ==
  \A q \in KeysOf(kd) :
    OwnOf(w, q) = OwnOf(kd, q) + ((By(q = p, delta) - By(nested /\ q = c, delta))
                                                    - By(hasSelf /\ q = p, d))

LEMMA LeftTimes ==
  ASSUME NEW o, NEW kd \in Tables(o), NEW p \in KeysOf(kd), NEW at \in Int, NEW d \in Int,
         NEW hasSelf \in BOOLEAN, NEW nested \in BOOLEAN, NEW c, nested => c \in KeysOf(kd),
         NEW w, w = LeftIn(hasSelf, nested, kd, p, c, at, d),
         NEW delta, delta = at + d - KeyAt(kd, p).in
  PROVE  TimesLeft(kd, w, p, c, nested, hasSelf, delta, d) /\ delta \in Int
<1>1. delta \in Int /\ FieldsLeft(kd, w, p, c, nested, hasSelf, delta, d)
  BY LeftIs
<1>2. ASSUME NEW q \in KeysOf(kd)
      PROVE  OwnOf(w, q) = OwnOf(kd, q) + ((By(q = p, delta) - By(nested /\ q = c, delta))
                                                             - By(hasSelf /\ q = p, d))
  <2> DEFINE a == By(q = p, delta)  b == By(nested /\ q = c, delta)  e == By(hasSelf /\ q = p, d)
  <2>1. a \in Int /\ b \in Int /\ e \in Int
    BY <1>1 DEF By
  <2>2. KeyAt(w, q).all = KeyAt(kd, q).all + a /\ KeyAt(w, q).child = (KeyAt(kd, q).child + b) + e
    BY <1>1 DEF FieldsLeft
  <2>3. KeyAt(kd, q).all \in Int /\ KeyAt(kd, q).child \in Int
    BY NumbersOf
  <2> HIDE DEF a, b, e
  <2>4. OwnOf(w, q) = OwnOf(kd, q) + ((a - b) - e)
    BY <2>1, <2>2, <2>3 DEF OwnOf
  <2> QED
    BY <2>4 DEF a, b, e
<1> QED
  BY <1>1, <1>2 DEF TimesLeft


\* A closing call, for its own thread: what was open of the routine is added to
\* its key, and taken from that of its caller; time d goes to in.
LEMMA EndTimes ==
  ASSUME NEW o, OptionsOK(o), NEW kd, TableOK(o, kd), NEW tr, NEW th, TreeOK(o, kd, tr, th),
         NamesOnce(kd, tr, th), tr[th].active, Deep(tr, th) = th,
         NEW sp \in [Range(o.Canon) -> Int], NEW at \in Int, NEW d \in Int,
         TimeOK(o, kd, tr, th, sp, at), NEW hasSelf \in BOOLEAN,
         NEW nested \in BOOLEAN, nested <=> th # 1, NEW p, p = tr[th].key,
         NEW c, c = tr[th - 1].key, NEW w, Alike(o, kd, w), TableOK(o, w),
         NEW delta, delta = at + d - KeyAt(kd, p).in,
         TimesLeft(kd, w, p, c, nested, hasSelf, delta, d),
         NEW tr2, NEW th2, OneNodeLess(tr, th, tr2, th2),
         NEW in, in = IF hasSelf THEN "none" ELSE NameAt(kd, tr, th)
  PROVE  TimeOK(o, w, tr2, th2, SpentIn(o, sp, in, d), at + d)
<1> DEFINE sp2 == SpentIn(o, sp, in, d)
<1>1. th \in Nat \ {0} /\ Deep(tr2, th2) = th - 1
  BY DEF OneNodeLess
<1>2. ASSUME NEW i \in 1 .. th
      PROVE  /\ NameAt(w, tr2, i) = NameAt(kd, tr, i) /\ NameAt(kd, tr, i) \in Range(o.Canon)
             /\ InAt(w, tr2, i) = InAt(kd, tr, i) /\ InAt(kd, tr, i) \in Int
             /\ tr[i].key \in KeysNamed(kd, NameAt(kd, tr, i))
             /\ \A j \in 1 .. th : NameAt(kd, tr, j) = NameAt(kd, tr, i) => j = i
  <2>1. tr2[i].key = tr[i].key /\ tr[i].key \in KeysOf(kd)
    BY DEF OneNodeLess, TreeOK
  <2>2. NameAt(w, tr2, i) = NameAt(kd, tr, i) /\ InAt(w, tr2, i) = InAt(kd, tr, i)
    BY <2>1 DEF NameAt, InAt, Alike
  <2>3. InAt(kd, tr, i) \in Int /\ NameAt(kd, tr, i) \in Range(o.Canon)
    BY ActiveIs
  <2>4. tr[i].key \in KeysNamed(kd, NameAt(kd, tr, i))
    BY <2>1 DEF KeysNamed, NameAt
  <2>5. \A j \in 1 .. th : NameAt(kd, tr, j) = NameAt(kd, tr, i) => j = i
    BY DEF NamesOnce
  <2> QED
    BY <2>2, <2>3, <2>4, <2>5
<1>3. th \in 1 .. th /\ delta \in Int /\ delta = (at + d) - InAt(kd, tr, th)
  <2>1. th \in 1 .. th
    BY <1>1
  <2>2. KeyAt(kd, p).in = InAt(kd, tr, th) /\ InAt(kd, tr, th) \in Int
    BY <1>2, <2>1 DEF InAt
  <2> QED
    BY <2>1, <2>2
<1>4. ASSUME NEW r, NEW q \in KeysNamed(kd, r)
      PROVE  /\ q = p => r = NameAt(kd, tr, th)
             /\ nested /\ q = c => r = NameAt(kd, tr, th - 1)
             /\ OwnOf(kd, q) \in Int
             /\ OwnOf(w, q) = OwnOf(kd, q) + ((By(q = p, delta) - By(nested /\ q = c, delta))
                                                             - By(hasSelf /\ q = p, d))
  <2>1. q \in KeysOf(kd) /\ KeyAt(kd, q).name = r
    BY DEF KeysNamed
  <2>2. OwnOf(kd, q) \in Int
    BY <2>1, OwnNumbers
  <2> QED
    BY <2>1, <2>2 DEF NameAt, TimesLeft
<1>5. \A r : KeysNamed(w, r) = KeysNamed(kd, r)
  BY DEF KeysNamed, Alike
<1>6. SUFFICES ASSUME NEW r \in Range(o.Canon)
               PROVE  /\ \A i \in 1 .. th - 1 : NameAt(w, tr2, i) = r =>
                           OwnSum(w, r) + OpenAt(w, tr2, th2, i, at + d) = sp2[r]
                      /\ (\A i \in 1 .. th - 1 : NameAt(w, tr2, i) # r) => OwnSum(w, r) = sp2[r]
  BY <1>1 DEF TimeOK
<1>7. sp2[r] = sp[r] + (IF r = in THEN d ELSE 0) /\ sp[r] \in Int /\ OwnSum(kd, r) \in Int
  BY OwnNumbers DEF SpentIn
<1>8. (\A i \in 1 .. th : NameAt(kd, tr, i) # r) => OwnSum(kd, r) = sp[r]
  BY DEF TimeOK
<1>9. ASSUME NEW i \in 1 .. th, NameAt(kd, tr, i) = r
      PROVE  OwnSum(kd, r) + OpenAt(kd, tr, th, i, at) = sp[r]
  BY <1>9 DEF TimeOK
<1> HIDE DEF sp2
<1>10. ASSUME NEW i \in 1 .. th - 1, NameAt(w, tr2, i) = r
       PROVE  OwnSum(w, r) + OpenAt(w, tr2, th2, i, at + d) = sp2[r]
  <2>1. i \in 1 .. th /\ i # th
    BY <1>1
  <2>2. /\ NameAt(kd, tr, i) = r /\ r # NameAt(kd, tr, th)
        /\ InAt(w, tr2, i) = InAt(kd, tr, i) /\ InAt(kd, tr, i) \in Int
    BY <1>2, <1>3, <1>10, <2>1
  <2>3. r # in
    BY <2>2 DEF OptionsOK
  <2>4. OwnSum(kd, r) + OpenAt(kd, tr, th, i, at) = sp[r]
    BY <1>9, <2>1, <2>2
  <2>5. OpenAt(kd, tr, th, i, at) = InAt(kd, tr, i + 1) - InAt(kd, tr, i)
    BY <2>1 DEF OpenAt
  <2>6. \A q \in KeysNamed(kd, r) : q # p
    BY <1>4, <2>2
  <2>7. CASE i = th - 1
    <3>1. nested /\ OpenAt(w, tr2, th2, i, at + d) = (at + d) - InAt(kd, tr, i)
      BY <1>1, <2>1, <2>2, <2>7 DEF OpenAt
    <3>2. c \in KeysNamed(kd, r)
      BY <1>2, <2>1, <2>2, <2>7
    <3>3. OwnOf(w, c) = OwnOf(kd, c) + (-delta)
      <4>1. /\ OwnOf(kd, c) \in Int
            /\ OwnOf(w, c) = OwnOf(kd, c) + ((By(c = p, delta) - By(nested /\ c = c, delta))
                                                             - By(hasSelf /\ c = p, d))
        BY <1>4, <3>2
      <4>2. By(c = p, delta) = 0 /\ By(nested /\ c = c, delta) = delta /\ By(hasSelf /\ c = p, d) = 0
        BY <2>6, <3>1, <3>2 DEF By
      <4> QED
        BY <1>3, <4>1, <4>2
    <3>4. ASSUME NEW q \in KeysNamed(kd, r), q # c PROVE OwnOf(w, q) = OwnOf(kd, q)
      <4>1. /\ OwnOf(kd, q) \in Int
            /\ OwnOf(w, q) = OwnOf(kd, q) + ((By(q = p, delta) - By(nested /\ q = c, delta))
                                                             - By(hasSelf /\ q = p, d))
        BY <1>4
      <4>2. By(q = p, delta) = 0 /\ By(nested /\ q = c, delta) = 0 /\ By(hasSelf /\ q = p, d) = 0
        BY <2>6, <3>4 DEF By
      <4> QED
        BY <4>1, <4>2
    <3>5. KeysNamed(w, r) = KeysNamed(kd, r) /\ -delta \in Int
      BY <1>3, <1>5
    <3>6. OwnSum(w, r) = OwnSum(kd, r) + (-delta)
      BY <3>2, <3>3, <3>4, <3>5, OwnChanged
    <3>7. InAt(kd, tr, i + 1) = InAt(kd, tr, th) /\ InAt(kd, tr, th) \in Int
      <4>1. i + 1 = th
        BY <1>1, <2>7
      <4> QED
        BY <1>2, <1>3, <4>1
    <3> QED
      BY <1>3, <1>7, <2>2, <2>3, <2>4, <2>5, <3>1, <3>6, <3>7
  <2>8. CASE i # th - 1
    <3>1. i + 1 \in 1 .. th /\ OpenAt(w, tr2, th2, i, at + d) = InAt(w, tr2, i + 1) - InAt(kd, tr, i)
      BY <1>1, <2>1, <2>2, <2>8 DEF OpenAt
    <3>2. OpenAt(w, tr2, th2, i, at + d) = OpenAt(kd, tr, th, i, at)
      BY <1>2, <2>5, <3>1
    <3>3. ASSUME NEW q \in KeysNamed(kd, r) PROVE OwnOf(w, q) = OwnOf(kd, q)
      <4>1. /\ OwnOf(kd, q) \in Int
            /\ OwnOf(w, q) = OwnOf(kd, q) + ((By(q = p, delta) - By(nested /\ q = c, delta))
                                                             - By(hasSelf /\ q = p, d))
        BY <1>4
      <4>2. ~(nested /\ q = c)
        <5>1. ASSUME nested, q = c PROVE FALSE
          <6>1. th - 1 \in 1 .. th /\ r = NameAt(kd, tr, th - 1)
            BY <1>1, <1>4, <5>1
          <6> QED
            BY <1>2, <2>1, <2>2, <2>8, <6>1
        <5> QED
          BY <5>1
      <4>3. By(q = p, delta) = 0 /\ By(nested /\ q = c, delta) = 0 /\ By(hasSelf /\ q = p, d) = 0
        BY <2>6, <4>2 DEF By
      <4> QED
        BY <4>1, <4>3
    <3>4. OwnSum(w, r) = OwnSum(kd, r)
      BY <1>5, <3>3, OwnSame
    <3> QED
      BY <1>7, <2>3, <2>4, <3>2, <3>4
  <2> QED
    BY <2>7, <2>8
<1>11. ASSUME \A i \in 1 .. th - 1 : NameAt(w, tr2, i) # r PROVE OwnSum(w, r) = sp2[r]
  <2>1. ASSUME NEW i \in 1 .. th, i # th PROVE NameAt(kd, tr, i) # r
    <3>1. i \in 1 .. th - 1
      BY <1>1, <2>1
    <3> QED
      BY <1>2, <1>11, <3>1
  <2>2. ASSUME NEW q \in KeysNamed(kd, r) PROVE ~(nested /\ q = c)
    <3>1. ASSUME nested, q = c PROVE FALSE
      <4>1. th - 1 \in 1 .. th /\ th - 1 # th /\ r = NameAt(kd, tr, th - 1)
        BY <1>1, <1>4, <3>1
      <4> QED
        BY <2>1, <4>1
    <3> QED
      BY <3>1
  <2>3. CASE r = NameAt(kd, tr, th)
    <3>1. OwnSum(kd, r) + (at - InAt(kd, tr, th)) = sp[r]
      <4>1. OpenAt(kd, tr, th, th, at) = at - InAt(kd, tr, th)
        BY DEF OpenAt
      <4> QED
        BY <1>3, <1>9, <2>3, <4>1
    <3>2. p \in KeysNamed(kd, r)
      BY <1>2, <1>3, <2>3
    <3>3. PICK by : by = delta - (IF hasSelf THEN d ELSE 0)
      OBVIOUS
    <3>4. by \in Int
      BY <1>3, <3>3
    <3>5. OwnOf(w, p) = OwnOf(kd, p) + by
      <4>1. /\ OwnOf(kd, p) \in Int
            /\ OwnOf(w, p) = OwnOf(kd, p) + ((By(p = p, delta) - By(nested /\ p = c, delta))
                                                             - By(hasSelf /\ p = p, d))
        BY <1>4, <3>2
      <4>2. /\ By(p = p, delta) = delta /\ By(nested /\ p = c, delta) = 0
            /\ By(hasSelf /\ p = p, d) = IF hasSelf THEN d ELSE 0
        BY <2>2, <3>2 DEF By
      <4> QED
        BY <1>3, <3>3, <4>1, <4>2
    <3>6. ASSUME NEW q \in KeysNamed(kd, r), q # p PROVE OwnOf(w, q) = OwnOf(kd, q)
      <4>1. /\ OwnOf(kd, q) \in Int
            /\ OwnOf(w, q) = OwnOf(kd, q) + ((By(q = p, delta) - By(nested /\ q = c, delta))
                                                             - By(hasSelf /\ q = p, d))
        BY <1>4
      <4>2. By(q = p, delta) = 0 /\ By(nested /\ q = c, delta) = 0 /\ By(hasSelf /\ q = p, d) = 0
        BY <2>2, <3>6 DEF By
      <4> QED
        BY <4>1, <4>2
    <3>7. OwnSum(w, r) = OwnSum(kd, r) + by
      <4>1. KeysNamed(w, r) = KeysNamed(kd, r)
        BY <1>5
      <4> QED
        BY <3>2, <3>4, <3>5, <3>6, <4>1, OwnChanged
    <3>8. InAt(kd, tr, th) \in Int
      BY <1>2, <1>3
    <3>9. CASE hasSelf
      <4>1. r # in
        BY <3>9 DEF OptionsOK
      <4> QED
        BY <1>3, <1>7, <3>1, <3>3, <3>7, <3>8, <3>9, <4>1
    <3>10. CASE ~hasSelf
      <4>1. r = in
        BY <2>3, <3>10
      <4> QED
        BY <1>3, <1>7, <3>1, <3>3, <3>7, <3>8, <3>10, <4>1
    <3> QED
      BY <3>9, <3>10
  <2>4. CASE r # NameAt(kd, tr, th)
    <3>1. OwnSum(kd, r) = sp[r]
      BY <1>8, <2>1, <2>4
    <3>2. r # in
      BY <2>4 DEF OptionsOK
    <3>3. ASSUME NEW q \in KeysNamed(kd, r) PROVE OwnOf(w, q) = OwnOf(kd, q)
      <4>1. /\ OwnOf(kd, q) \in Int /\ q # p
            /\ OwnOf(w, q) = OwnOf(kd, q) + ((By(q = p, delta) - By(nested /\ q = c, delta))
                                                             - By(hasSelf /\ q = p, d))
        BY <1>4, <2>4
      <4>2. By(q = p, delta) = 0 /\ By(nested /\ q = c, delta) = 0 /\ By(hasSelf /\ q = p, d) = 0
        BY <2>2, <4>1 DEF By
      <4> QED
        BY <4>1, <4>2
    <3>4. OwnSum(w, r) = OwnSum(kd, r)
      BY <1>5, <3>3, OwnSame
    <3> QED
      BY <1>7, <3>1, <3>2, <3>4
  <2> QED
    BY <2>3, <2>4
<1> QED
  BY <1>10, <1>11

-----------------------------------------------------------------------------
(* The steps of the program. *)

LEMMA OptionsAre ==
  ASSUME opts \in Options
  PROVE  OptionsOK(opts)
BY DrHookAssumption DEF OptionsOK

ThreadInv(t) == ThreadOK(opts, keydata[t], tree[t], this[t], curkey[t], cstk[t], routines[t])

\* The threads other than t keep their state.
OthersRest(t) ==
  \A u \in CallThreads \ {t} :
    /\ keydata'[u] = keydata[u] /\ tree'[u] = tree[u] /\ this'[u] = this[u]
    /\ curkey'[u] = curkey[u] /\ cstk'[u] = cstk[u] /\ routines'[u] = routines[u]

DomainsOK ==
  /\ DOMAIN keydata = CallThreads /\ DOMAIN tree = CallThreads /\ DOMAIN this = CallThreads
  /\ DOMAIN curkey = CallThreads /\ DOMAIN cstk = CallThreads /\ DOMAIN routines = CallThreads

\* What an opening call does
StartedAs(t, name, path, p, f, d) ==
  /\ opts.Recursive \/ (\A i \in 1 .. Len(routines[t]) : routines[t][i].name # name)
  /\ path = PathIn(opts, tree[t], this[t])
  /\ p = KeyFor(opts, keydata[t], name, path)
  /\ keydata'[t] = EnteredIn(keydata[t], name, path, p, now)
  /\ tree'[t] = WithNode(tree[t], this[t], p) /\ this'[t] = FreeIn(tree[t], this[t])
  /\ curkey'[t] = p
  /\ cstk'[t] = IF opts.CstkLen = 0 THEN cstk[t] ELSE PushedIn(cstk[t], p)
  /\ f = [name |-> name, node |-> this'[t],
          handle |-> IF opts.CstkLen = 0 THEN p ELSE <<0, cstk[t].next>>]
  /\ routines'[t] = Append(routines[t], f)
  /\ Pass(t, name, d)

LEMMA StartIs ==
  ASSUME CallsInv, NEW t \in CallThreads, NEW n \in Names, NEW d, Start(t, n, d), opts' = opts
  PROVE  /\ DomainsOK' /\ OthersRest(t) /\ aborted' = aborted
         /\ \E name \in Range(opts.Canon) : \E path, p, f : StartedAs(t, name, path, p, f, d)
<1> DEFINE name == Canon[n]
           path == Path(t)
           p == GetKey(t, name)
           f == [name |-> name, node |-> FreeNode(t),
                 handle |-> IF CstkLen = 0 THEN p ELSE <<0, cstk[t].next>>]
<1>1. DomainsOK
  BY DEF CallsInv, DomainsOK
<1>2. name \in Range(opts.Canon)
  BY DEF Names, Canon, Range
<1>3. /\ keydata' = [keydata EXCEPT ![t] = Entered(t, name, p, now)]
      /\ tree' = [tree EXCEPT ![t] = Inserted(t, p)]
      /\ this' = [this EXCEPT ![t] = FreeNode(t)]
      /\ curkey' = [curkey EXCEPT ![t] = p]
      /\ cstk' = IF CstkLen = 0 THEN cstk ELSE [cstk EXCEPT ![t] = Pushed(t, p)]
      /\ routines' = [routines EXCEPT ![t] = Append(@, f)]
      /\ Pass(t, name, d)
      /\ aborted' = aborted
      /\ Recursive \/ (\A i \in DOMAIN routines[t] : routines[t][i].name # name)
  BY DEF Start
<1>4. path = PathIn(opts, tree[t], this[t])
  BY DEF Path, PathIn, CallPath, TopNode
<1>5. p = KeyFor(opts, keydata[t], name, path)
  BY DEF GetKey, KeyFor, Hash
<1>6. Entered(t, name, p, now) = EnteredIn(keydata[t], name, path, p, now)
  BY DEF Entered, EnteredIn, Added
<1>7. FreeNode(t) = FreeIn(tree[t], this[t])
  BY DEF FreeNode, FreeIn
<1>8. Inserted(t, p) = WithNode(tree[t], this[t], p)
  BY <1>7 DEF Inserted, WithNode
<1>9. Pushed(t, p) = PushedIn(cstk[t], p)
  BY DEF Pushed, PushedIn
<1>10. DOMAIN routines[t] = 1 .. Len(routines[t])
  BY DEF CallsInv, ThreadOK, FramesOK, Frames
<1> HIDE DEF name, path, p, f
<1>11. /\ keydata'[t] = Entered(t, name, p, now) /\ tree'[t] = Inserted(t, p)
       /\ this'[t] = FreeNode(t) /\ curkey'[t] = p /\ routines'[t] = Append(routines[t], f)
       /\ cstk'[t] = IF CstkLen = 0 THEN cstk[t] ELSE Pushed(t, p)
  BY <1>1, <1>3 DEF DomainsOK
<1>12. OthersRest(t)
  BY <1>1, <1>3 DEF DomainsOK, OthersRest
<1>13. DomainsOK'
  BY <1>1, <1>3 DEF DomainsOK, CallThreads
<1>14. f = [name |-> name, node |-> this'[t],
            handle |-> IF opts.CstkLen = 0 THEN p ELSE <<0, cstk[t].next>>]
  BY <1>11 DEF f, CstkLen
<1>15. opts.Recursive \/ (\A i \in 1 .. Len(routines[t]) : routines[t][i].name # name)
  BY <1>3, <1>10 DEF Recursive
<1>16. cstk'[t] = IF opts.CstkLen = 0 THEN cstk[t] ELSE PushedIn(cstk[t], p)
  BY <1>9, <1>11 DEF CstkLen
<1>17. StartedAs(t, name, path, p, f, d)
  BY <1>3, <1>4, <1>5, <1>6, <1>7, <1>8, <1>11, <1>14, <1>15, <1>16 DEF StartedAs
<1> QED
  BY <1>2, <1>3, <1>12, <1>13, <1>17

\* What a closing call does
LEMMA EndIs ==
  ASSUME CallsInv, NEW t \in CallThreads, NEW d, End(t, d), opts' = opts
  PROVE  /\ DomainsOK' /\ OthersRest(t) /\ aborted' = aborted
         /\ Agrees(opts, tree[t], this[t], cstk[t], routines[t]) /\ routines[t] # <<>>
         /\ keydata'[t] = LeftIn(HasSelf, this[t] # 1, keydata[t], tree[t][this[t]].key,
                                 tree[t][this[t] - 1].key, now, d)
         /\ tree'[t] = Closing(tree[t], this[t]) /\ this'[t] = Max({1, this[t] - 1})
         /\ curkey'[t] = tree[t][this'[t]].key
         /\ cstk'[t] = IF opts.CstkLen = 0 THEN cstk[t] ELSE [cstk[t] EXCEPT !.next = @ - 1]
         /\ routines'[t] = Front(routines[t])
         /\ Pass(t, IF HasSelf THEN "none" ELSE Last(routines[t]).name, d)
<1> DEFINE p == Resolved(t)
           below == Max({1, this[t] - 1})
<1>1. DomainsOK
  BY DEF CallsInv, DomainsOK
<1>2. /\ keydata' = [keydata EXCEPT ![t] = Left(t, p, d)]
      /\ tree' = [tree EXCEPT ![t][this[t]].active = FALSE]
      /\ this' = [this EXCEPT ![t] = below]
      /\ curkey' = [curkey EXCEPT ![t] = tree[t][below].key]
      /\ cstk' = IF CstkLen = 0 THEN cstk ELSE [cstk EXCEPT ![t].next = @ - 1]
      /\ routines' = [routines EXCEPT ![t] = Front(@)]
      /\ Pass(t, IF HasSelf THEN "none" ELSE Last(routines[t]).name, d)
      /\ StackAgrees(t) /\ OnTop(t, p) /\ routines[t] # <<>> /\ aborted' = aborted
  BY DEF End
<1>3. p = tree[t][this[t]].key
  BY <1>2 DEF OnTop, TopNode
<1>4. Left(t, p, d) = LeftIn(HasSelf, this[t] # 1, keydata[t], p, tree[t][this[t] - 1].key, now, d)
  BY DEF Left, LeftIn
<1>5. Agrees(opts, tree[t], this[t], cstk[t], routines[t])
  BY <1>2 DEF StackAgrees, OnTop, TopNode, Resolved, Handle, Agrees, CstkLen
<1> HIDE DEF p, below
<1>6. /\ keydata'[t] = Left(t, p, d) /\ this'[t] = below /\ curkey'[t] = tree[t][below].key
      /\ routines'[t] = Front(routines[t])
  BY <1>1, <1>2 DEF DomainsOK
<1>7. tree'[t] = Closing(tree[t], this[t])
  BY <1>1, <1>2 DEF DomainsOK, Closing
<1>8. cstk'[t] = IF opts.CstkLen = 0 THEN cstk[t] ELSE [cstk[t] EXCEPT !.next = @ - 1]
  BY <1>1, <1>2 DEF DomainsOK, CstkLen
<1>9. OthersRest(t)
  BY <1>1, <1>2 DEF DomainsOK, OthersRest
<1>10. DomainsOK'
  BY <1>1, <1>2 DEF DomainsOK, CallThreads
<1> QED
  BY <1>2, <1>3, <1>4, <1>5, <1>6, <1>7, <1>8, <1>9, <1>10 DEF below

\* A routine left without the closing call
LEMMA ForgetIs ==
  ASSUME CallsInv, NEW t \in CallThreads, Forget(t), opts' = opts
  PROVE  /\ DomainsOK' /\ OthersRest(t) /\ aborted' = aborted /\ routines[t] # <<>> /\ Careless
         /\ keydata'[t] = keydata[t] /\ tree'[t] = tree[t] /\ this'[t] = this[t]
         /\ curkey'[t] = curkey[t] /\ cstk'[t] = cstk[t] /\ routines'[t] = Front(routines[t])
<1>1. DomainsOK
  BY DEF CallsInv, DomainsOK
<1>2. /\ routines' = [routines EXCEPT ![t] = Front(@)] /\ UNCHANGED <<code, aborted>>
      /\ routines[t] # <<>> /\ Careless
  BY DEF Forget
<1> QED
  BY <1>1, <1>2 DEF DomainsOK, OthersRest, CallThreads, code


LEMMA EmptyTable ==
  ASSUME NEW o, NEW kd, kd = [b \in Range(o.Hash) |-> <<>>]
  PROVE  TableOK(o, kd) /\ KeysOf(kd) = {}
<1>1. kd \in Tables(o)
  BY DEF Tables
<1>2. KeysOf(kd) = {}
  BY DEF KeysOf
<1>3. IsFiniteSet(KeysOf(kd))
  BY <1>2, FS_EmptySet
<1> QED
  BY <1>1, <1>2, <1>3 DEF TableOK

\* A thread that has not called
LEMMA FirstThread ==
  ASSUME NEW o, OptionsOK(o), NEW kd, kd = [b \in Range(o.Hash) |-> <<>>],
         NEW cs, cs = [key |-> [i \in 0..(o.CstkLen - 1) |-> Null], next |-> 0, maxdepth |-> o.CstkLen]
  PROVE  ThreadOK(o, kd, <<Root>>, 1, Null, cs, <<>>)
<1> DEFINE tr == <<Root>>  th == 1
<1>1. TableOK(o, kd) /\ KeysOf(kd) = {}
  BY EmptyTable
<1>2. ~Root.active /\ Root.key = Null /\ Root \in [active : BOOLEAN, key : Ptrs(o)]
  BY DEF Root, Ptrs, Null
<1>3. tr \in Trees(o) /\ Len(tr) = 1 /\ tr[1] = Root
  <2> DEFINE R == [active : BOOLEAN, key : Ptrs(o)]
  <2>1. Root \in R
    BY <1>2
  <2> HIDE DEF R
  <2>2. <<Root>> \in Seq(R)
    BY <2>1
  <2> QED
    BY <2>2 DEF Trees, R
<1>4. Deep(tr, th) = 0
  BY <1>2, <1>3 DEF Deep
<1>5. TreeShape(tr, th)
  BY <1>2, <1>3, <1>4 DEF TreeShape
<1>6. TreeOK(o, kd, tr, th)
  <2>1. \A i \in 1 .. Len(tr) : tr[i].key \in Pointed(kd)
    BY <1>2, <1>3 DEF Pointed
  <2> HIDE DEF tr, th
  <2> QED
    BY <1>1, <1>3, <1>4, <1>5, <2>1 DEF TreeOK
<1>7. StackOK(o, tr, th, cs)
  <2> HIDE DEF tr, th
  <2> QED
    BY <1>4 DEF StackOK, OptionsOK
<1>8. FramesOK(o, kd, tr, th, <<>>)
  <2> HIDE DEF tr, th
  <2> QED
    BY <1>4 DEF FramesOK, Frames
<1> QED
  BY <1>1, <1>6, <1>7, <1>8 DEF ThreadOK, Pointed

LEMMA CallsInvInit ==
  ASSUME CallsInit
  PROVE  CallsInv
<1>1. opts \in Options /\ OptionsOK(opts)
  BY OptionsAre DEF CallsInit
<1>2. DomainsOK
  BY DEF CallsInit, DomainsOK
<1>3. ASSUME NEW t \in CallThreads PROVE ThreadInv(t)
  <2>1. keydata[t] = [b \in Range(opts.Hash) |-> <<>>]
    BY DEF CallsInit, Buckets, Hash
  <2>2. cstk[t] = [key |-> [i \in 0..(opts.CstkLen - 1) |-> Null], next |-> 0,
                   maxdepth |-> opts.CstkLen]
    BY DEF CallsInit, EmptyStack, CstkLen
  <2>3. /\ tree[t] = <<Root>> /\ this[t] = 1 /\ curkey[t] = Null /\ routines[t] = <<>>
    BY DEF CallsInit
  <2> QED
    BY <1>1, <2>1, <2>2, <2>3, FirstThread DEF ThreadInv
<1> QED
  BY <1>1, <1>2, <1>3 DEF CallsInv, DomainsOK, ThreadInv, CallsInit

\* The threads together
LEMMA OneThreadSteps ==
  ASSUME CallsInv, opts' = opts, NEW t \in CallThreads, DomainsOK', OthersRest(t), ThreadInv(t)',
         aborted' => Careless
  PROVE  CallsInv'
<1>1. ASSUME NEW u \in CallThreads PROVE ThreadInv(u)'
  <2>1. CASE u = t
    BY <2>1
  <2>2. CASE u # t
    <3>1. ThreadInv(u)
      BY DEF CallsInv, ThreadInv
    <3>2. /\ keydata'[u] = keydata[u] /\ tree'[u] = tree[u] /\ this'[u] = this[u]
          /\ curkey'[u] = curkey[u] /\ cstk'[u] = cstk[u] /\ routines'[u] = routines[u]
      BY <2>2 DEF OthersRest
    <3> QED
      BY <3>1, <3>2 DEF ThreadInv
  <2> QED
    BY <2>1, <2>2
<1>2. opts' \in Options /\ CallThreads' = CallThreads /\ (aborted' => Careless')
  BY DEF CallsInv, CallThreads, Careless
<1> QED
  BY <1>1, <1>2 DEF CallsInv, DomainsOK, ThreadInv

\* An opening call keeps the invariant, and this is what it means for the times.
LEMMA StartStep ==
  ASSUME CallsInv, now \in Int, NEW t \in CallThreads, NEW n \in Names, NEW d, Start(t, n, d),
         opts' = opts
  PROVE  /\ CallsInv' /\ OthersRest(t)
         /\ \E name \in Range(opts.Canon) : \E path, p :
              /\ EntryMade(opts, keydata[t], keydata'[t], p, name, path, now)
              /\ OneMoreNode(tree[t], this[t], tree'[t], this'[t], p)
              /\ Pass(t, name, d)
<1>1. DomainsOK' /\ OthersRest(t) /\ aborted' = aborted
  BY StartIs
<1>2. PICK name \in Range(opts.Canon) : \E path, p, f : StartedAs(t, name, path, p, f, d)
  BY StartIs
<1>3. PICK path, p, f : StartedAs(t, name, path, p, f, d)
  BY <1>2
<1>4. OptionsOK(opts) /\ ThreadOK(opts, keydata[t], tree[t], this[t], curkey[t], cstk[t], routines[t])
  BY OptionsAre DEF CallsInv
<1>5. /\ ThreadOK(opts, keydata'[t], tree'[t], this'[t], p, cstk'[t], Append(routines[t], f))
      /\ EntryMade(opts, keydata[t], keydata'[t], p, name, path, now)
      /\ OneMoreNode(tree[t], this[t], tree'[t], this'[t], p)
  BY <1>3, <1>4, StartOK DEF StartedAs
<1>6. ThreadInv(t)'
  <2>1. ThreadOK(opts', keydata'[t], tree'[t], this'[t], curkey'[t], cstk'[t], routines'[t])
    BY <1>3, <1>5 DEF StartedAs
  <2> QED
    BY <2>1 DEF ThreadInv
<1>7. CallsInv'
  <2>1. aborted' => Careless
    BY <1>1 DEF CallsInv
  <2> QED
    BY <1>1, <1>6, <2>1, OneThreadSteps
<1> QED
  BY <1>1, <1>3, <1>5, <1>7 DEF StartedAs

LEMMA EndStep ==
  ASSUME CallsInv, now \in Int, NEW t \in CallThreads, NEW d \in Int, End(t, d), opts' = opts
  PROVE  /\ CallsInv' /\ OthersRest(t)
         /\ tree[t][this[t]].active /\ Deep(tree[t], this[t]) = this[t]
         /\ Alike(opts, keydata[t], keydata'[t])
         /\ OneNodeLess(tree[t], this[t], tree'[t], this'[t])
<1>1. /\ DomainsOK' /\ OthersRest(t) /\ aborted' = aborted
      /\ Agrees(opts, tree[t], this[t], cstk[t], routines[t]) /\ routines[t] # <<>>
      /\ keydata'[t] = LeftIn(HasSelf, this[t] # 1, keydata[t], tree[t][this[t]].key,
                              tree[t][this[t] - 1].key, now, d)
      /\ tree'[t] = Closing(tree[t], this[t]) /\ this'[t] = Max({1, this[t] - 1})
      /\ curkey'[t] = tree[t][this'[t]].key
      /\ cstk'[t] = IF opts.CstkLen = 0 THEN cstk[t] ELSE [cstk[t] EXCEPT !.next = @ - 1]
      /\ routines'[t] = Front(routines[t])
  BY EndIs
<1>2. OptionsOK(opts) /\ ThreadOK(opts, keydata[t], tree[t], this[t], curkey[t], cstk[t], routines[t])
  BY OptionsAre DEF CallsInv
<1>3. tree[t][this[t]].active
  BY <1>1 DEF Agrees
<1>4. HasSelf \in BOOLEAN
  BY DEF HasSelf
<1>5. PICK nested \in BOOLEAN : nested <=> this[t] # 1
  OBVIOUS
<1>6. PICK p, c : p = tree[t][this[t]].key /\ c = tree[t][this[t] - 1].key
  OBVIOUS
<1>7. ClosedInto(opts, keydata[t], keydata'[t], tree[t], this[t], tree'[t], this'[t], cstk'[t],
                 routines[t])
  <2>1. nested = (this[t] # 1)
    BY <1>5
  <2>2. keydata'[t] = LeftIn(HasSelf, nested, keydata[t], p, c, now, d)
    BY <1>1, <1>6, <2>1
  <2>3. PICK hasSelf \in BOOLEAN : keydata'[t] = LeftIn(hasSelf, nested, keydata[t], p, c, now, d)
    BY <1>4, <2>2
  <2>4. PICK kd, tr, th, ck, cs, fr :
           /\ kd = keydata[t] /\ tr = tree[t] /\ th = this[t] /\ ck = curkey[t] /\ cs = cstk[t]
           /\ fr = routines[t]
    OBVIOUS
  <2>5. PICK w, tr2, th2, cs2 :
           w = keydata'[t] /\ tr2 = tree'[t] /\ th2 = this'[t] /\ cs2 = cstk'[t]
    OBVIOUS
  <2>6. /\ ThreadOK(opts, kd, tr, th, ck, cs, fr) /\ OptionsOK(opts) /\ fr # <<>> /\ tr[th].active
        /\ (nested <=> th # 1) /\ p = tr[th].key /\ c = tr[th - 1].key
        /\ w = LeftIn(hasSelf, nested, kd, p, c, now, d)
        /\ tr2 = Closing(tr, th) /\ th2 = Max({1, th - 1})
        /\ cs2 = IF opts.CstkLen = 0 THEN cs ELSE [cs EXCEPT !.next = @ - 1]
    BY <1>1, <1>2, <1>3, <1>5, <1>6, <2>3, <2>4, <2>5
  <2>7. ClosedInto(opts, kd, w, tr, th, tr2, th2, cs2, fr)
    BY ONLY <2>6, EndOK, now \in Int, d \in Int, hasSelf \in BOOLEAN, nested \in BOOLEAN
  <2> QED
    BY <2>4, <2>5, <2>7
<1>8. ThreadInv(t)'
  <2>1. ThreadOK(opts', keydata'[t], tree'[t], this'[t], curkey'[t], cstk'[t], routines'[t])
    BY <1>1, <1>7 DEF ClosedInto
  <2> QED
    BY <2>1 DEF ThreadInv
<1>9. CallsInv'
  <2>1. aborted' => Careless
    BY <1>1 DEF CallsInv
  <2> QED
    BY <1>1, <1>8, <2>1, OneThreadSteps
<1> QED
  BY <1>1, <1>3, <1>7, <1>9 DEF ClosedInto

LEMMA AbortStep ==
  ASSUME CallsInv, NEW t \in CallThreads, Abort(t), opts' = opts
  PROVE  CallsInv' /\ UNCHANGED <<code, now, routines, spent>>
<1>1. UNCHANGED <<code, now, routines, spent>> /\ routines[t] # <<>>
      /\ ~(StackAgrees(t) /\ OnTop(t, Resolved(t)))
  BY DEF Abort
<1>2. ~Agrees(opts, tree[t], this[t], cstk[t], routines[t])
  BY <1>1 DEF StackAgrees, OnTop, TopNode, Resolved, Handle, Agrees, CstkLen
<1>3. Careless
  <2>1. ASSUME ~opts.Careless PROVE FALSE
    <3>1. OptionsOK(opts)
          /\ ThreadOK(opts, keydata[t], tree[t], this[t], curkey[t], cstk[t], routines[t])
      BY OptionsAre DEF CallsInv
    <3> QED
      BY <1>1, <1>2, <2>1, <3>1, NeverRefused
  <2> QED
    BY <2>1 DEF Careless
<1>4. Careless' /\ CallThreads' = CallThreads
  BY <1>3 DEF Careless, CallThreads
<1> QED
  BY <1>1, <1>4 DEF CallsInv, code

LEMMA ForgetStep ==
  ASSUME CallsInv, NEW t \in CallThreads, Forget(t), opts' = opts
  PROVE  CallsInv'
<1>1. /\ DomainsOK' /\ OthersRest(t) /\ aborted' = aborted /\ routines[t] # <<>> /\ Careless
      /\ keydata'[t] = keydata[t] /\ tree'[t] = tree[t] /\ this'[t] = this[t]
      /\ curkey'[t] = curkey[t] /\ cstk'[t] = cstk[t] /\ routines'[t] = Front(routines[t])
  BY ForgetIs
<1>2. ThreadOK(opts, keydata[t], tree[t], this[t], curkey[t], cstk[t], Front(routines[t]))
  BY <1>1, ForgetOK DEF CallsInv, Careless
<1>3. ThreadInv(t)'
  BY <1>1, <1>2 DEF ThreadInv
<1> QED
  BY <1>1, <1>3, OneThreadSteps

LEMMA StutterStep ==
  ASSUME CallsInv, UNCHANGED <<opts, code, aborted, routines>>
  PROVE  CallsInv'
BY DEF CallsInv, code, CallThreads, Careless

-----------------------------------------------------------------------------
(* The times of the program. *)

LEMMA PassIs ==
  ASSUME TimesInv, NEW t, NEW r, NEW d \in Int, Pass(t, r, d)
  PROVE  /\ now' = now + d /\ now' \in Int /\ spent' \in [CallThreads -> [CalledRoutines -> Int]]
         /\ \A u \in CallThreads :
              spent'[u] = SpentIn(opts, spent[u], IF u = t THEN r ELSE InnerOf(routines[u]), d)
<1> DEFINE S(u) == SpentIn(opts, spent[u], IF u = t THEN r ELSE InnerOf(routines[u]), d)
<1>1. now' = now + d /\ now' \in Int
  BY DEF Pass, TimesInv
<1>2. spent' = [u \in CallThreads |-> S(u)]
  BY DEF Pass, SpentIn, InnerOf, CalledRoutines, Canon
<1>3. ASSUME NEW u \in CallThreads PROVE S(u) \in [CalledRoutines -> Int]
  BY DEF TimesInv, SpentIn, CalledRoutines, Canon
<1> HIDE DEF S
<1>4. spent' \in [CallThreads -> [CalledRoutines -> Int]] /\ \A u \in CallThreads : spent'[u] = S(u)
  BY <1>2, <1>3
<1> QED
  BY <1>1, <1>4 DEF S

\* A program that makes both calls and enters no routine twice
Plain == ~Recursive /\ ~Careless
ThreadTimes(t) == TimeOK(opts, keydata[t], tree[t], this[t], spent[t], now)

LEMMA PlainThread ==
  ASSUME CallsInv, TimesInv, Plain, NEW t \in CallThreads
  PROVE  /\ OptionsOK(opts) /\ TableOK(opts, keydata[t]) /\ TreeOK(opts, keydata[t], tree[t], this[t])
         /\ NamesOnce(keydata[t], tree[t], this[t])
         /\ Inner(keydata[t], tree[t], this[t], InnerOf(routines[t]))
         /\ (routines[t] = <<>> <=> Deep(tree[t], this[t]) = 0)
         /\ ThreadTimes(t) /\ spent[t] \in [Range(opts.Canon) -> Int] /\ now \in Int
<1>1. /\ OptionsOK(opts) /\ TableOK(opts, keydata[t]) /\ TreeOK(opts, keydata[t], tree[t], this[t])
      /\ FramesOK(opts, keydata[t], tree[t], this[t], routines[t])
  BY OptionsAre DEF CallsInv, ThreadOK
<1>2. tree[t] \in Trees(opts) /\ TreeShape(tree[t], this[t])
  BY <1>1 DEF TreeOK
<1>3. ~opts.Recursive /\ ~opts.Careless
  BY DEF Plain, Recursive, Careless
<1>4. NamesOnce(keydata[t], tree[t], this[t])
  BY <1>1, <1>2, <1>3, NamesAreOnce
<1>5. /\ Inner(keydata[t], tree[t], this[t], InnerOf(routines[t]))
      /\ (routines[t] = <<>> <=> Deep(tree[t], this[t]) = 0)
  BY <1>1, <1>2, <1>3, InnerIs
<1>6. ThreadTimes(t) /\ spent[t] \in [Range(opts.Canon) -> Int] /\ now \in Int
  BY DEF TimesInv, Plain, ThreadTimes, CalledRoutines, Canon
<1> QED
  BY <1>1, <1>4, <1>5, <1>6

\* The next state of a plain program
LEMMA PlainNext ==
  ASSUME CallsInv', opts' = opts, Plain, NEW t \in CallThreads
  PROVE  TableOK(opts, keydata'[t]) /\ NamesOnce(keydata'[t], tree'[t], this'[t])
<1>1. /\ TableOK(opts, keydata'[t]) /\ TreeOK(opts, keydata'[t], tree'[t], this'[t])
      /\ FramesOK(opts, keydata'[t], tree'[t], this'[t], routines'[t])
  BY DEF CallsInv, ThreadOK, CallThreads
<1>2. tree'[t] \in Trees(opts) /\ TreeShape(tree'[t], this'[t])
  BY <1>1 DEF TreeOK
<1>3. ~opts.Recursive /\ ~opts.Careless
  BY DEF Plain, Recursive, Careless
<1>4. NamesOnce(keydata'[t], tree'[t], this'[t])
  BY <1>1, <1>2, <1>3, NamesAreOnce
<1> QED
  BY <1>1, <1>4

\* A thread that makes no call spends the time where it is.
LEMMA OtherTimes ==
  ASSUME CallsInv, TimesInv, opts' = opts, Plain, NEW u \in CallThreads, NEW d \in Int,
         now' = now + d, spent'[u] = SpentIn(opts, spent[u], InnerOf(routines[u]), d),
         keydata'[u] = keydata[u], tree'[u] = tree[u], this'[u] = this[u]
  PROVE  ThreadTimes(u)'
<1>1. /\ OptionsOK(opts) /\ TableOK(opts, keydata[u]) /\ TreeOK(opts, keydata[u], tree[u], this[u])
      /\ NamesOnce(keydata[u], tree[u], this[u])
      /\ Inner(keydata[u], tree[u], this[u], InnerOf(routines[u]))
      /\ ThreadTimes(u) /\ spent[u] \in [Range(opts.Canon) -> Int] /\ now \in Int
  BY PlainThread
<1>2. TimeOK(opts, keydata[u], tree[u], this[u], SpentIn(opts, spent[u], InnerOf(routines[u]), d),
             now + d)
  BY <1>1, TickTimes DEF ThreadTimes
<1> QED
  BY <1>2 DEF ThreadTimes

LEMMA StartPasses ==
  ASSUME CallsInv, TimesInv, NEW t \in CallThreads, NEW n \in Names, NEW d \in Int,
         Start(t, n, d), opts' = opts
  PROVE  TimesInv'
<1>0. now \in Int
  BY DEF TimesInv
<1>1. CallsInv' /\ OthersRest(t)
  BY <1>0, StartStep
<1>2. PICK name \in Range(opts.Canon) : \E path, p :
         /\ EntryMade(opts, keydata[t], keydata'[t], p, name, path, now)
         /\ OneMoreNode(tree[t], this[t], tree'[t], this'[t], p)
         /\ Pass(t, name, d)
  BY <1>0, StartStep
<1>3. PICK path, p : /\ EntryMade(opts, keydata[t], keydata'[t], p, name, path, now)
                     /\ OneMoreNode(tree[t], this[t], tree'[t], this'[t], p)
                     /\ Pass(t, name, d)
  BY <1>2
<1>4. /\ now' = now + d /\ now' \in Int /\ spent' \in [CallThreads -> [CalledRoutines -> Int]]
      /\ \A u \in CallThreads :
           spent'[u] = SpentIn(opts, spent[u], IF u = t THEN name ELSE InnerOf(routines[u]), d)
  BY <1>3, PassIs
<1>5. ASSUME Plain, NEW u \in CallThreads PROVE ThreadTimes(u)'
  <2>1. CASE u = t
    <3>1. /\ OptionsOK(opts) /\ TableOK(opts, keydata[t])
          /\ TreeOK(opts, keydata[t], tree[t], this[t])
          /\ ThreadTimes(t) /\ spent[t] \in [Range(opts.Canon) -> Int] /\ now \in Int
      BY <1>5, PlainThread
    <3>2. TableOK(opts, keydata'[t]) /\ NamesOnce(keydata'[t], tree'[t], this'[t])
      BY <1>1, <1>5, PlainNext
    <3>3. TimeOK(opts, keydata'[t], tree'[t], this'[t], SpentIn(opts, spent[t], name, d), now + d)
      BY <1>3, <3>1, <3>2, StartTimes DEF ThreadTimes
    <3>4. spent'[t] = SpentIn(opts, spent[t], name, d) /\ now' = now + d
      BY <1>4
    <3> QED
      BY <2>1, <3>3, <3>4 DEF ThreadTimes
  <2>2. CASE u # t
    <3>1. /\ keydata'[u] = keydata[u] /\ tree'[u] = tree[u] /\ this'[u] = this[u]
          /\ spent'[u] = SpentIn(opts, spent[u], InnerOf(routines[u]), d)
      BY <1>1, <1>4, <2>2 DEF OthersRest
    <3> QED
      BY <1>4, <1>5, <3>1, OtherTimes
  <2> QED
    BY <2>1, <2>2
<1> QED
  BY <1>4, <1>5 DEF TimesInv, Plain, ThreadTimes, CallThreads, CalledRoutines, Canon, Recursive, Careless

LEMMA EndPasses ==
  ASSUME CallsInv, TimesInv, NEW t \in CallThreads, NEW d \in Int, End(t, d), opts' = opts
  PROVE  TimesInv'
<1>0. now \in Int
  BY DEF TimesInv
<1>1. /\ CallsInv' /\ OthersRest(t)
      /\ tree[t][this[t]].active /\ Deep(tree[t], this[t]) = this[t]
      /\ Alike(opts, keydata[t], keydata'[t])
      /\ OneNodeLess(tree[t], this[t], tree'[t], this'[t])
  BY <1>0, EndStep
<1>2. /\ routines[t] # <<>>
      /\ keydata'[t] = LeftIn(HasSelf, this[t] # 1, keydata[t], tree[t][this[t]].key,
                              tree[t][this[t] - 1].key, now, d)
      /\ Pass(t, IF HasSelf THEN "none" ELSE Last(routines[t]).name, d)
  BY EndIs
<1>3. PICK in : in = IF HasSelf THEN "none" ELSE Last(routines[t]).name
  OBVIOUS
<1>4. /\ now' = now + d /\ now' \in Int /\ spent' \in [CallThreads -> [CalledRoutines -> Int]]
      /\ \A u \in CallThreads :
           spent'[u] = SpentIn(opts, spent[u], IF u = t THEN in ELSE InnerOf(routines[u]), d)
  BY <1>2, <1>3, PassIs
<1>5. ASSUME Plain, NEW u \in CallThreads PROVE ThreadTimes(u)'
  <2>1. CASE u = t
    <3>1. /\ OptionsOK(opts) /\ TableOK(opts, keydata[t])
          /\ TreeOK(opts, keydata[t], tree[t], this[t])
          /\ NamesOnce(keydata[t], tree[t], this[t])
          /\ Inner(keydata[t], tree[t], this[t], InnerOf(routines[t]))
          /\ ThreadTimes(t) /\ spent[t] \in [Range(opts.Canon) -> Int] /\ now \in Int
      BY <1>5, PlainThread
    <3>2. TableOK(opts, keydata'[t])
      BY <1>1, <1>5, PlainNext
    <3>3. PICK kd, tr, th, sp, w, tr2, th2 :
            /\ kd = keydata[t] /\ tr = tree[t] /\ th = this[t] /\ sp = spent[t]
            /\ w = keydata'[t] /\ tr2 = tree'[t] /\ th2 = this'[t]
      OBVIOUS
    <3>4. PICK nested \in BOOLEAN : nested <=> th # 1
      OBVIOUS
    <3>5. PICK p, c : p = tr[th].key /\ c = tr[th - 1].key
      OBVIOUS
    <3>6. PICK hasSelf \in BOOLEAN : hasSelf <=> HasSelf
      OBVIOUS
    <3>7. w = LeftIn(hasSelf, nested, kd, p, c, now, d)
      <4>1. nested = (th # 1) /\ hasSelf = HasSelf
        BY <3>4, <3>6 DEF HasSelf
      <4> QED
        BY <1>2, <3>3, <3>5, <4>1
    <3>8. PICK delta : delta = now + d - KeyAt(kd, p).in
      OBVIOUS
    <3>9. kd \in Tables(opts) /\ p \in KeysOf(kd) /\ (nested => c \in KeysOf(kd))
      <4>1. \A i \in 1 .. th : tr[i].key \in KeysOf(kd)
        BY <1>1, <3>1, <3>3 DEF TreeOK
      <4>2. th \in Nat \ {0}
        BY <1>1, <3>3 DEF OneNodeLess
      <4>3. th \in 1 .. th /\ (nested => th - 1 \in 1 .. th)
        BY <3>4, <4>2
      <4> QED
        BY <3>1, <3>3, <3>5, <4>1, <4>3 DEF TableOK
    <3>10. TimesLeft(kd, w, p, c, nested, hasSelf, delta, d)
      BY <1>0, <3>7, <3>8, <3>9, LeftTimes
    <3>11. in = IF hasSelf THEN "none" ELSE NameAt(kd, tr, th)
      <4>1. Last(routines[t]).name = NameAt(kd, tr, th)
        <5>1. th \in Nat \ {0} /\ Deep(tr, th) = th
          BY <1>1, <3>3 DEF OneNodeLess
        <5>2. InnerOf(routines[t]) = NameAt(kd, tr, th)
          BY <3>1, <3>3, <5>1 DEF Inner
        <5> QED
          BY <1>2, <5>2 DEF InnerOf
      <4> QED
        BY <1>3, <3>6, <4>1
    <3>12. /\ OptionsOK(opts) /\ TableOK(opts, kd) /\ TreeOK(opts, kd, tr, th)
           /\ NamesOnce(kd, tr, th) /\ tr[th].active /\ Deep(tr, th) = th
           /\ sp \in [Range(opts.Canon) -> Int] /\ TimeOK(opts, kd, tr, th, sp, now)
           /\ Alike(opts, kd, w) /\ TableOK(opts, w) /\ OneNodeLess(tr, th, tr2, th2)
      BY <1>1, <3>1, <3>2, <3>3 DEF ThreadTimes
    <3>13. TimeOK(opts, w, tr2, th2, SpentIn(opts, sp, in, d), now + d)
      BY ONLY <1>0, d \in Int, <3>4, <3>5, <3>8, <3>10, <3>11, <3>12, EndTimes,
              hasSelf \in BOOLEAN, nested \in BOOLEAN
    <3>14. spent'[t] = SpentIn(opts, sp, in, d) /\ now' = now + d
      BY <1>4, <3>3
    <3> QED
      BY <2>1, <3>3, <3>13, <3>14 DEF ThreadTimes
  <2>2. CASE u # t
    <3>1. /\ keydata'[u] = keydata[u] /\ tree'[u] = tree[u] /\ this'[u] = this[u]
          /\ spent'[u] = SpentIn(opts, spent[u], InnerOf(routines[u]), d)
      BY <1>1, <1>4, <2>2 DEF OthersRest
    <3> QED
      BY <1>4, <1>5, <3>1, OtherTimes
  <2> QED
    BY <2>1, <2>2
<1> QED
  BY <1>4, <1>5 DEF TimesInv, Plain, ThreadTimes, CallThreads, CalledRoutines, Canon, Recursive, Careless

LEMMA TickPasses ==
  ASSUME CallsInv, TimesInv, Tick, opts' = opts
  PROVE  TimesInv'
<1>1. Pass(0, "none", 1) /\ UNCHANGED <<code, routines>>
  BY DEF Tick
<1>2. /\ now' = now + 1 /\ now' \in Int /\ spent' \in [CallThreads -> [CalledRoutines -> Int]]
      /\ \A u \in CallThreads :
           spent'[u] = SpentIn(opts, spent[u], IF u = 0 THEN "none" ELSE InnerOf(routines[u]), 1)
  BY <1>1, PassIs
<1>3. ASSUME Plain, NEW u \in CallThreads PROVE ThreadTimes(u)'
  <2>1. u # 0
    BY OptionsAre DEF OptionsOK, CallThreads, CallsInv
  <2>2. /\ keydata'[u] = keydata[u] /\ tree'[u] = tree[u] /\ this'[u] = this[u]
        /\ spent'[u] = SpentIn(opts, spent[u], InnerOf(routines[u]), 1)
    BY <1>1, <1>2, <2>1 DEF code
  <2> QED
    BY <1>2, <1>3, <2>2, OtherTimes
<1> QED
  BY <1>2, <1>3 DEF TimesInv, Plain, ThreadTimes, CallThreads, CalledRoutines, Canon, Recursive, Careless

LEMMA RestPasses ==
  ASSUME TimesInv, UNCHANGED <<opts, keydata, tree, this, now, spent>>
  PROVE  TimesInv'
BY DEF TimesInv, CallThreads, CalledRoutines, Canon, Recursive, Careless


LEMMA TimesInvInit ==
  ASSUME CallsInit
  PROVE  TimesInv
<1>1. now = 0 /\ spent \in [CallThreads -> [CalledRoutines -> Int]]
  BY DEF CallsInit
<1>2. ASSUME NEW t \in CallThreads PROVE ThreadTimes(t)
  <2>1. /\ keydata[t] = [b \in Range(opts.Hash) |-> <<>>] /\ tree[t] = <<Root>> /\ this[t] = 1
        /\ \A r \in Range(opts.Canon) : spent[t][r] = 0
    BY DEF CallsInit, Buckets, Hash, CalledRoutines, Canon
  <2>2. KeysOf(keydata[t]) = {}
    BY <2>1, EmptyTable
  <2>3. Deep(tree[t], this[t]) = 0
    BY <2>1 DEF Deep, Root
  <2>4. ASSUME NEW r \in Range(opts.Canon) PROVE OwnSum(keydata[t], r) = 0
    <3>1. KeysNamed(keydata[t], r) = {}
      BY <2>2 DEF KeysNamed
    <3> DEFINE f == [p \in KeysNamed(keydata[t], r) |-> OwnOf(keydata[t], p)]
    <3>2. DOMAIN f = {}
      BY <3>1
    <3> HIDE DEF f
    <3>3. SumFunction(f) = 0
      BY <3>2, SumEmpty
    <3> QED
      BY <3>3 DEF OwnSum, f
  <2> QED
    BY <2>1, <2>3, <2>4 DEF ThreadTimes, TimeOK
<1> QED
  BY <1>1, <1>2 DEF TimesInv, ThreadTimes

LEMMA InvariantsStep ==
  ASSUME CallsInv, TimesInv, [CallsNext]_callVars
  PROVE  CallsInv' /\ TimesInv'
<1>1. CASE UNCHANGED callVars
  <2>1. UNCHANGED <<opts, code, aborted, routines>> /\ UNCHANGED <<opts, keydata, tree, this, now, spent>>
    BY <1>1 DEF callVars, code
  <2> QED
    BY <2>1, StutterStep, RestPasses
<1>2. CASE CallsNext
  <2>0. opts' = opts
    BY <1>2 DEF CallsNext
  <2>1. CASE Tick
    <3>1. UNCHANGED <<opts, code, aborted, routines>>
      BY <2>0, <2>1 DEF Tick
    <3> QED
      BY <2>0, <2>1, <3>1, StutterStep, TickPasses
  <2>2. ASSUME NEW t \in CallThreads, NEW n \in Names, NEW d \in 0..1, Start(t, n, d)
        PROVE  CallsInv' /\ TimesInv'
    <3>1. d \in Int /\ now \in Int
      BY DEF TimesInv
    <3> QED
      BY <2>0, <2>2, <3>1, StartStep, StartPasses
  <2>3. ASSUME NEW t \in CallThreads, NEW d \in 0..1, End(t, d)
        PROVE  CallsInv' /\ TimesInv'
    <3>1. d \in Int /\ now \in Int
      BY DEF TimesInv
    <3> QED
      BY <2>0, <2>3, <3>1, EndStep, EndPasses
  <2>4. ASSUME NEW t \in CallThreads, Abort(t)
        PROVE  CallsInv' /\ TimesInv'
    <3>1. CallsInv' /\ UNCHANGED <<code, now, routines, spent>>
      BY <2>0, <2>4, AbortStep
    <3>2. UNCHANGED <<opts, keydata, tree, this, now, spent>>
      BY <2>0, <3>1 DEF code
    <3> QED
      BY <3>1, <3>2, RestPasses
  <2>5. ASSUME NEW t \in CallThreads, Forget(t)
        PROVE  CallsInv' /\ TimesInv'
    <3>1. UNCHANGED <<opts, keydata, tree, this, now, spent>>
      BY <2>0, <2>5 DEF Forget, code
    <3> QED
      BY <2>0, <2>5, <3>1, ForgetStep, RestPasses
  <2> QED
    BY <1>2, <2>1, <2>2, <2>3, <2>4, <2>5 DEF CallsNext, Calls
<1> QED
  BY <1>1, <1>2

\* The inductive invariant of the calls of DR_HOOK, and of their times
THEOREM CallsInvHolds == CallsSpec => [](CallsInv /\ TimesInv)
<1>1. CallsInit => CallsInv /\ TimesInv
  BY CallsInvInit, TimesInvInit
<1>2. CallsInv /\ TimesInv /\ [CallsNext]_callVars => (CallsInv /\ TimesInv)'
  BY InvariantsStep
<1> QED
  BY <1>1, <1>2, PTL DEF CallsSpec

-----------------------------------------------------------------------------
(* What it means. *)

LEMMA TreeFollows ==
  ASSUME CallsInv
  PROVE  StatusIsNesting
<1> SUFFICES ASSUME NEW t \in CallThreads
             PROVE  /\ \A i \in DOMAIN tree[t] : tree[t][i].active <=> i <= this[t] /\ TopNode(t).active
                    /\ \A p \in Keys(t) : KeyAt(keydata[t], p).status =
                         Cardinality({i \in DOMAIN tree[t] : tree[t][i].active /\ tree[t][i].key = p})
  BY DEF StatusIsNesting
<1> DEFINE tr == tree[t]  th == this[t]  n == Deep(tr, th)
<1>1. TreeOK(opts, keydata[t], tr, th) /\ tr \in Trees(opts) /\ TreeShape(tr, th)
  BY DEF CallsInv, ThreadOK, TreeOK
<1>2. DOMAIN tr = 1 .. Len(tr) /\ n \in 0 .. Len(tr) /\ Len(tr) \in Nat
  BY <1>1, DeepIs DEF Trees
<1>3. \A i \in 1 .. Len(tr) : tr[i].active <=> i <= n
  BY <1>1 DEF TreeShape
<1>4. ASSUME NEW i \in DOMAIN tr PROVE tr[i].active <=> i <= th /\ tr[th].active
  <2>1. CASE tr[th].active
    <3>1. n = th
      BY <2>1 DEF Deep
    <3> QED
      BY <1>2, <1>3, <2>1, <3>1
  <2>2. CASE ~tr[th].active
    <3>1. n = 0
      BY <2>2 DEF Deep
    <3> QED
      BY <1>2, <1>3, <2>2, <3>1
  <2> QED
    BY <2>1, <2>2
<1>5. ASSUME NEW p \in Keys(t)
      PROVE  KeyAt(keydata[t], p).status = Cardinality({i \in DOMAIN tr : tr[i].active /\ tr[i].key = p})
  <2>1. KeyAt(keydata[t], p).status = Cardinality(Holding(tr, th, p))
    BY <1>1 DEF TreeOK, Keys
  <2>2. Holding(tr, th, p) = {i \in 1 .. n : tr[i].key = p}
    BY DEF Holding
  <2> HIDE DEF tr, th, n
  <2>3. {i \in 1 .. n : tr[i].key = p} = {i \in DOMAIN tr : tr[i].active /\ tr[i].key = p}
    BY <1>2, <1>3
  <2> QED
    BY <2>1, <2>2, <2>3
<1> QED
  BY <1>4, <1>5 DEF TopNode

LEMMA PointersAre ==
  ASSUME CallsInv
  PROVE  PointersKept
<1> SUFFICES ASSUME NEW t \in CallThreads
             PROVE  /\ this[t] \in DOMAIN tree[t] /\ curkey[t] \in Pointers(t)
                    /\ \A i \in DOMAIN tree[t] : tree[t][i].key \in Pointers(t)
                    /\ \A p \in Keys(t) : Range(KeyAt(keydata[t], p).path) \subseteq Pointers(t)
  BY DEF PointersKept
<1>1. /\ TableOK(opts, keydata[t]) /\ TreeOK(opts, keydata[t], tree[t], this[t])
      /\ curkey[t] \in Pointed(keydata[t]) /\ tree[t] \in Trees(opts) /\ TreeShape(tree[t], this[t])
  BY DEF CallsInv, ThreadOK, TreeOK
<1>2. DOMAIN tree[t] = 1 .. Len(tree[t]) /\ this[t] \in 1 .. Len(tree[t])
  BY <1>1 DEF Trees, TreeShape
<1>3. Pointers(t) = Pointed(keydata[t]) /\ Keys(t) = KeysOf(keydata[t])
  BY DEF Pointers, Pointed, Keys
<1> QED
  BY <1>1, <1>2, <1>3 DEF TreeOK, TableOK

LEMMA KeysAreOne ==
  ASSUME CallsInv
  PROVE  OneKeyEach
BY DEF CallsInv, ThreadOK, TableOK, OneKeyEach, Keys

LEMMA TimesFollow ==
  ASSUME CallsInv, TimesInv
  PROVE  OwnTimeIsSpent
<1> SUFFICES ASSUME Plain, NEW t \in CallThreads, NEW r \in CalledRoutines,
                    \A p \in KeysNamed(keydata[t], r) : KeyAt(keydata[t], p).status = 0
             PROVE  OwnSum(keydata[t], r) = spent[t][r]
  <2>1. ASSUME NEW t \in CallThreads, NEW r \in CalledRoutines
        PROVE  {p \in Keys(t) : KeyAt(keydata[t], p).name = r} = KeysNamed(keydata[t], r)
    BY DEF Keys, KeysNamed
  <2>2. ASSUME NEW t \in CallThreads, NEW r \in CalledRoutines
        PROVE  OwnSum(keydata[t], r) = SumFunction([p \in KeysNamed(keydata[t], r) |-> OwnTime(t, p)])
    BY DEF OwnSum, OwnTime, OwnOf
  <2> QED
    BY <2>1, <2>2 DEF OwnTimeIsSpent, Plain
<1> DEFINE kd == keydata[t]  tr == tree[t]  th == this[t]  n == Deep(tr, th)
<1>1. TreeOK(opts, kd, tr, th) /\ TableOK(opts, kd) /\ ThreadTimes(t)
  BY PlainThread
<1>2. ASSUME NEW i \in 1 .. n PROVE NameAt(kd, tr, i) # r
  <2>1. tr[i].key \in KeysOf(kd)
    BY <1>1 DEF TreeOK
  <2>2. ASSUME NameAt(kd, tr, i) = r PROVE FALSE
    <3> DEFINE p == tr[i].key
    <3>1. p \in KeysNamed(kd, r)
      BY <2>1, <2>2 DEF KeysNamed, NameAt
    <3>2. Cardinality(Holding(tr, th, p)) = 0
      BY <1>1, <2>1, <3>1 DEF TreeOK
    <3>3. IsFiniteSet(Holding(tr, th, p))
      <4>1. n \in Nat
        BY <1>1, DeepIs DEF TreeOK
      <4>2. IsFiniteSet(1 .. n)
        BY <4>1, FS_Interval
      <4> QED
        BY <4>2, FS_Subset DEF Holding
    <3>4. Holding(tr, th, p) = {}
      BY <3>2, <3>3, FS_EmptySet
    <3>5. i \in Holding(tr, th, p)
      BY DEF Holding
    <3> QED
      BY <3>4, <3>5
  <2> QED
    BY <2>2
<1>3. r \in Range(opts.Canon)
  BY DEF CalledRoutines, Canon
<1> QED
  BY <1>1, <1>2, <1>3 DEF ThreadTimes, TimeOK

\* The tree, the table of the routines and their times follow the calls, and a
\* program whose routines make both calls is never aborted (drhook_lib, getkey,
\* putkey, remove_calltree): for every program, order of calls and hash function.
THEOREM CallsFollowedHolds == CallsSpec => []CallsFollowed
<1>1. CallsInv /\ TimesInv => CallsFollowed
  <2> SUFFICES ASSUME CallsInv, TimesInv PROVE CallsFollowed
    OBVIOUS
  <2>1. NoFalseAlarm
    BY DEF CallsInv, NoFalseAlarm
  <2> QED
    BY <2>1, TreeFollows, PointersAre, KeysAreOne, TimesFollow DEF CallsFollowed
<1> QED
  BY <1>1, CallsInvHolds, PTL

\* A step that closes a node of the tree closes that of the routine left.
LEMMA ClosesOwnStep ==
  ASSUME CallsInv, TimesInv, [CallsNext]_callVars
  PROVE  ClosedItsOwn
<1> SUFFICES ASSUME NEW t \in CallThreads, HandlesTell,
                    (this'[t] < this[t]) \/ (tree[t][1].active /\ ~tree'[t][1].active)
             PROVE  this[t] = Last(routines[t]).node
  BY DEF ClosedItsOwn
<1>0. /\ OptionsOK(opts) /\ now \in Int /\ tree[t] \in Trees(opts) /\ TreeShape(tree[t], this[t])
      /\ ThreadOK(opts, keydata[t], tree[t], this[t], curkey[t], cstk[t], routines[t])
  BY OptionsAre DEF CallsInv, TimesInv, ThreadOK, TreeOK
<1>1. this[t] \in Int
  BY <1>0 DEF TreeShape
<1>2. ~(this'[t] = this[t] /\ tree'[t] = tree[t])
  BY <1>1
<1>3. ~UNCHANGED <<this, tree>>
  BY <1>2
<1>4. opts' = opts /\ CallsNext
  <2>1. ~UNCHANGED callVars
    BY <1>3 DEF callVars, code
  <2> QED
    BY <2>1 DEF CallsNext
<1>5. ~Tick /\ \A u \in CallThreads : ~Abort(u) /\ ~Forget(u)
  BY <1>3 DEF Tick, Abort, Forget, code
<1>6. ASSUME NEW u \in CallThreads, NEW n \in Names, NEW d, Start(u, n, d)
      PROVE  FALSE
  <2>1. CallsInv' /\ OthersRest(u)
    BY <1>0, <1>4, <1>6, StartStep
  <2>2. CASE u # t
    BY <1>2, <2>1, <2>2 DEF OthersRest
  <2>3. CASE u = t
    <3>1. Deep(tree'[t], this'[t]) = Deep(tree[t], this[t]) + 1
      <4>1. PICK name \in Range(opts.Canon) : \E path, p :
              /\ EntryMade(opts, keydata[t], keydata'[t], p, name, path, now)
              /\ OneMoreNode(tree[t], this[t], tree'[t], this'[t], p)
              /\ Pass(t, name, d)
        BY <1>0, <1>4, <1>6, <2>3, StartStep
      <4> QED
        BY <4>1 DEF OneMoreNode
    <3>2. tree'[t] \in Trees(opts) /\ TreeShape(tree'[t], this'[t])
      BY <1>4, <2>1 DEF CallsInv, ThreadOK, TreeOK, CallThreads
    <3>3. Deep(tree[t], this[t]) \in Nat /\ Deep(tree[t], this[t]) \in {this[t] - 1, this[t]}
      BY <1>0, DeepIs
    <3>4. /\ Deep(tree'[t], this'[t]) > 0 => Deep(tree'[t], this'[t]) = this'[t]
          /\ Len(tree'[t]) \in Nat /\ Deep(tree'[t], this'[t]) \in 0 .. Len(tree'[t])
      BY <3>2, DeepIs
    <3>5. this'[t] = Deep(tree[t], this[t]) + 1 /\ this'[t] >= this[t]
      BY <1>1, <3>1, <3>3, <3>4
    <3>6. tree'[t][1].active
      <4>1. 1 \in 1 .. Len(tree'[t]) /\ 1 <= Deep(tree'[t], this'[t])
        BY <3>1, <3>3, <3>4
      <4> QED
        BY <3>2, <4>1 DEF TreeShape
    <3> QED
      BY <1>1, <3>3, <3>5, <3>6
  <2> QED
    BY <2>2, <2>3
<1>7. PICK u \in CallThreads, d \in 0..1 : End(u, d)
  BY <1>4, <1>5, <1>6 DEF CallsNext, Calls
<1>8. u = t
  <2>1. OthersRest(u)
    BY <1>4, <1>7, EndIs
  <2> QED
    BY <1>2, <2>1 DEF OthersRest
<1>9. Agrees(opts, tree[t], this[t], cstk[t], routines[t]) /\ routines[t] # <<>>
  BY <1>4, <1>7, <1>8, EndIs
<1>10. opts.CstkLen > 0 \/ ~opts.Recursive \/ ~opts.Careless
  BY DEF HandlesTell, CstkLen, Recursive, Careless
<1> QED
  BY <1>0, <1>9, <1>10, ItsOwnNode

\* An accepted closing call closes the entry of its own routine, never another
\* left open above it (callstack(), putkey).
THEOREM ClosesItsOwnHolds == CallsSpec => ClosesItsOwn
<1>1. CallsInv /\ TimesInv /\ [CallsNext]_callVars => [ClosedItsOwn]_callVars
  BY ClosesOwnStep
<1> QED
  BY <1>1, CallsInvHolds, PTL DEF CallsSpec, ClosesItsOwn

=============================================================================
