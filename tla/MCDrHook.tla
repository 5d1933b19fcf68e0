------------------------------ MODULE MCDrHook ------------------------------
(* Instances of Dr.Hook: the signals (DrHookSignals), the calls of DR_HOOK    *)
(* and their profile (DrHookProfile) and the memory (DrHookMemProfile).  They *)
(* share no state: in each behaviour one of them runs and the others rest in  *)
(* an initial state.                                                          *)
EXTENDS DrHookSignals, DrHookProfile, DrHookMemProfile

VARIABLE part      \* the component that runs

-----------------------------------------------------------------------------
(* Routines a and b share a bucket of the table; with TRIM A and a are one.   *)
Three      == [n \in {"a", "b", "c"} |-> n]
TrimCanon  == [n \in {"A", "a", "b"} |-> IF n = "A" THEN "a" ELSE n]
OneBucket  == [n \in {"a", "b"} |-> 1]
TwoBuckets == [n \in {"a", "b", "c"} |-> IF n = "c" THEN 2 ELSE 1]

TwoThreads ==
  [Threads |-> {1, 2}, Canon |-> TrimCanon, Hash |-> OneBucket, CallPath |-> FALSE,
   CstkLen |-> 0, Self |-> 2, Recursive |-> FALSE, Careless |-> FALSE,
   MaxDepth |-> 2, MaxTime |-> 1, MaxCalls |-> 2, CpuProf |-> FALSE, CpuTime |-> FALSE]
LongerRoutines == [TwoThreads EXCEPT !.Threads = {1}, !.MaxDepth = 3, !.MaxTime = 3, !.MaxCalls = 3]
\* The single precision build, and routines that return without the closing call
HandleOfFour ==
  [Threads |-> {1}, Canon |-> Three, Hash |-> TwoBuckets, CallPath |-> FALSE,
   CstkLen |-> 1, Self |-> 0, Recursive |-> TRUE, Careless |-> TRUE,
   MaxDepth |-> 4, MaxTime |-> 0, MaxCalls |-> 5, CpuProf |-> TRUE, CpuTime |-> TRUE]
Paths ==
  [Threads |-> {1}, Canon |-> Three, Hash |-> TwoBuckets, CallPath |-> TRUE,
   CstkLen |-> 0, Self |-> 0, Recursive |-> FALSE, Careless |-> FALSE,
   MaxDepth |-> 3, MaxTime |-> 1, MaxCalls |-> 4, CpuProf |-> FALSE, CpuTime |-> FALSE]
MCOptions == {TwoThreads, LongerRoutines, HandleOfFour, Paths}

(* The library of the message passing has its own handlers for SIGSEGV;       *)
(* SIGUSR1 is in no list of Dr.Hook.                                          *)
Threaded ==
  [Threads |-> {1, 2}, Before |-> [s \in {"SEGV", "XCPU", "ALRM"} |-> IF s = "SEGV" THEN "lib" ELSE "dfl"],
   InitSignals |-> TRUE, IgnoreList |-> {}, RestoreList |-> {}, CatchList |-> {},
   GenCore |-> "none", TrapFpe |-> FALSE, Propagate |-> TRUE, Atp |-> FALSE, AtpIgnoresTerm |-> TRUE,
   OpenMP |-> TRUE, ProgramCritical |-> FALSE, Profile |-> TRUE, TimedKill |-> {}, MaxSignals |-> 3]
Timed == {<<-1, "SEGV">>, <<1, "ALRM">>}
WithLists ==
  [Threaded EXCEPT
     !.Before = [s \in {"SEGV", "FPE", "TERM", "USR1", "ALRM"} |->
                   IF s = "SEGV" THEN "lib" ELSE IF s = "TERM" THEN "ign" ELSE "dfl"],
     !.IgnoreList = {"FPE"}, !.RestoreList = {"FPE", "USR1"}, !.CatchList = {"all"},
     !.GenCore = "TERM", !.TrapFpe = TRUE, !.Atp = TRUE, !.AtpIgnoresTerm = FALSE,
     !.ProgramCritical = TRUE, !.Profile = FALSE, !.TimedKill = Timed, !.MaxSignals = 1]
Serial ==
  [Threaded EXCEPT !.Threads = {1}, !.RestoreList = {"XCPU"}, !.OpenMP = FALSE,
     !.TimedKill = Timed, !.MaxSignals = 2]
MCEnvironments == {Threaded, WithLists, Serial}

(* Words of two bytes: a block of one byte does not fill its last word.       *)
WithProfile ==
  [Threads |-> {1, 2}, Routines |-> {"main", "r"}, Sizes |-> {1, 4}, NecSx |-> FALSE,
   NansFill |-> TRUE, MemTrace |-> TRUE, MemProf |-> TRUE, Timeline |-> FALSE,
   ProfileHeap |-> TRUE, WillAbort |-> FALSE, MaxOps |-> 4]
OnlyNans  == [WithProfile EXCEPT !.Routines = {"main"}, !.MemTrace = FALSE, !.MemProf = FALSE,
                !.ProfileHeap = FALSE, !.WillAbort = TRUE, !.MaxOps = 4]
MoreCalls == [WithProfile EXCEPT !.Sizes = {1}, !.NansFill = FALSE, !.ProfileHeap = FALSE,
                !.MaxOps = 6]
MCBuilds == {WithProfile, OnlyNans, MoreCalls}
-----------------------------------------------------------------------------
CallsRest   == CallsInit /\ opts = HandleOfFour
SignalsRest == Init /\ env = Threaded
MemoryRests == HeapInit /\ build = WithProfile

MCInit ==
  \/ part = "calls" /\ CallsInit /\ SignalsRest /\ MemoryRests
  \/ part = "signals" /\ Init /\ CallsRest /\ MemoryRests
  \/ part = "memory" /\ HeapInit /\ CallsRest /\ SignalsRest

MCNext ==
  /\ UNCHANGED part
  /\ \/ part = "calls" /\ CallsNext /\ UNCHANGED <<vars, heapVars>>
     \/ part = "signals" /\ Next /\ UNCHANGED <<callVars, heapVars>>
     \/ part = "memory" /\ HeapNext /\ UNCHANGED <<callVars, vars>>

\* A thread with a signal goes on and an alarm expires.
MCFairness ==
  /\ WF_vars(part = "signals" /\ Expires)
  /\ \A t \in {1, 2} : WF_vars(part = "signals" /\ GoesOn(t))

\* The two reports of c_drhook_print_: the profile by time and the one by memory.
ReportsAreRight == ProfileIsRight /\ MemoryReported

MCSpec == MCInit /\ [][MCNext]_<<part, vars, callVars, heapVars>> /\ MCFairness
=============================================================================
