--------------------------- MODULE DrHookSignals ---------------------------
(* Dr.Hook (support/drhook.c): who handles which signal, and what happens     *)
(* from a signal to the end of the process: signal_drhook_init installs the   *)
(* handlers, signal_drhook counts the signals, lets the first one print the   *)
(* tracebacks under an alarm (the Harakiri-alarm) and the others wait.        *)
(*                                                                            *)
(* A handler is a frame on the thread the signal was delivered to; a signal   *)
(* is blocked on a thread while its handler runs there (sa_mask is empty).    *)
(* Time is left out: an alarm armed may expire, a spin may end.               *)
EXTENDS Integers, Sequences, FiniteSets, SequencesExt

CONSTANT Environments    \* how programs are built, started and run

VARIABLE env                           \* of this program:
Threads         == env.Threads         \* OpenMP threads; 1 is the master
Before          == env.Before          \* [signals -> handler found by signal_drhook_init]
Signals         == DOMAIN Before       \* the signals, all ending a process by default
InitSignals     == env.InitSignals     \* DR_HOOK_INIT_SIGNALS is not 0
IgnoreList      == env.IgnoreList      \* DR_HOOK_IGNORE_SIGNALS: signals, or "all" for -1
RestoreList     == env.RestoreList     \* DR_HOOK_RESTORE_DEFAULT_SIGNALS
CatchList       == env.CatchList       \* DR_HOOK_CATCH_SIGNALS
GenCore         == env.GenCore         \* opt_gencore_signal, or "none"
TrapFpe         == env.TrapFpe         \* drhook_trapfpe
Propagate       == env.Propagate       \* opt_propagate_signals
Atp             == env.Atp             \* atp_enabled, with atp_max_cores > 0
AtpIgnoresTerm  == env.AtpIgnoresTerm  \* atp_ignore_sigterm
OpenMP          == env.OpenMP          \* compiled with OpenMP
ProgramCritical == env.ProgramCritical \* the program has unnamed OpenMP critical regions
Profile         == env.Profile         \* do_prof was given to atexit()
TimedKill       == env.TimedKill       \* drhook_timed_kill: pairs of a thread (or -1) and a signal
MaxSignals      == env.MaxSignals      \* bound: signals the process is sent

ASSUME SignalsAssumption ==
  \A e \in Environments :
    /\ 1 \in e.Threads /\ "ALRM" \in DOMAIN e.Before /\ "none" \notin DOMAIN e.Before
    /\ e.Before \in [DOMAIN e.Before -> {"dfl", "ign", "lib"}]

\* Without OpenMP a program has one thread.
ASSUME ThreadsAssumption == \A e \in Environments : e.OpenMP \/ e.Threads = {1}

VARIABLES step,       \* where signal_drhook_init is
          active,     \* siglist[].active: 0, 1, -1 ignored, -2 restored
          handler,    \* the handler of each signal, as sigaction() set it
          old,        \* siglist[].old
          quiet,      \* the signals with siglist[].ignore_atexit
          trap,       \* floating point traps: "untouched", "on", "off"
          gencore,    \* opt_gencore > 0
          called,     \* signal_handler_called
          ignore,     \* signal_handler_ignore_atexit
          alarm,      \* "off", "armed" or "due"
          owner,      \* thread in the unnamed critical region, 0 if none
          frames,     \* [Threads -> the handlers running there, the last one on top]
          timers,     \* timers of set_timed_kill not yet expired
          profile,    \* do_prof: "no", "writing" or "written"
          status,     \* how the process ended, or Running
          first,      \* the signal counted first
          budget      \* signals left to send

init_vars == <<step, active, handler, old, quiet, trap, gencore>>
vars == <<env, init_vars, called, ignore, alarm, owner, frames, timers, profile, status, first, budget>>

Running == <<"running">>
Asked(list) == IF "all" \in list THEN Signals ELSE list \cap Signals

\* The signals signal_drhook_init asks for on its own (SETSIG).
Standard ==
  {"ABRT", "BUS", "SEGV", "STKFLT", "FPE", "ILL", "TRAP", "INT", "XCPU", "XFSZ", "SYS"}
    \cup (IF ~Atp THEN {"QUIT", "TERM"} ELSE IF AtpIgnoresTerm THEN {"TERM"} ELSE {})

Quiet == {"XCPU"}                       \* SETSIG(SIGXCPU,1)
AtpSignals == {"FPE", "ILL", "TRAP", "ABRT", "BUS", "SEGV", "SYS", "XCPU", "XFSZ"}
                \cup (IF AtpIgnoresTerm THEN {} ELSE {"TERM"})

Treatment(set) == IF "FPE" \in set THEN (IF TrapFpe THEN "on" ELSE "off") ELSE trap

Init ==
  /\ env \in Environments
  /\ step = IF InitSignals THEN "ignore" ELSE "timers"   \* signals_set = 2
  /\ handler = Before
  /\ active = [s \in Signals |-> 0] /\ old = [s \in Signals |-> "dfl"]
  /\ quiet = {} /\ trap = "untouched" /\ gencore = (GenCore # "none")
  /\ called = 0 /\ ignore = 0 /\ alarm = "off" /\ owner = 0 /\ first = "none"
  /\ frames = [t \in Threads |-> <<>>] /\ timers = {}
  /\ profile = "no" /\ status = Running /\ budget = MaxSignals

(* ------------------------------ the set up ------------------------------ *)
Idle(t) == status = Running /\ frames[t] = <<>>
\* Mutant: a later list overrules an earlier one
UntouchedAny(set) == set

Untouched(set) == {s \in set : active[s] = 0}
after_init == <<called, ignore, alarm, owner, frames, profile, status, first, budget>>

\* Handlers are installed on the signals of set that nothing has claimed.
Install(set) ==
  LET new == Untouched(set) IN
  /\ active'  = [s \in Signals |-> IF s \in new THEN 1 ELSE active[s]]
  /\ old'     = [s \in Signals |-> IF s \in new THEN handler[s] ELSE old[s]]
  /\ handler' = [s \in Signals |-> IF s \in new THEN "drhook" ELSE handler[s]]
  /\ trap'    = Treatment(new)

IgnoreSignals ==
  /\ step = "ignore" /\ Idle(1) /\ step' = "restore"
  /\ active' = [s \in Signals |-> IF s \in Asked(IgnoreList) THEN -1 ELSE active[s]]
  /\ UNCHANGED <<handler, old, quiet, trap, gencore, timers, after_init>>

RestoreDefaultSignals ==
  LET set == Untouched(Asked(RestoreList)) IN
  /\ step = "restore" /\ Idle(1) /\ step' = "standard"
  /\ active'  = [s \in Signals |-> IF s \in set THEN -2 ELSE active[s]]
  /\ handler' = [s \in Signals |-> IF s \in set THEN "dfl" ELSE handler[s]]
  /\ trap'    = Treatment(set)
  /\ UNCHANGED <<old, quiet, gencore, timers, after_init>>

SetSignals ==
  LET set == Standard \cap Signals IN
  /\ step = "standard" /\ Idle(1) /\ step' = "catch"
  /\ Install(set) /\ quiet' = Untouched(set) \cap Quiet
  /\ UNCHANGED <<gencore, timers, after_init>>

CatchSignals ==
  /\ step = "catch" /\ Idle(1) /\ step' = "gencore"
  /\ Install(Asked(CatchList))
  /\ UNCHANGED <<quiet, gencore, timers, after_init>>

GenCoreAndFlag ==
  /\ step = "gencore" /\ Idle(1) /\ step' = "timers"
  /\ handler' = [s \in Signals |-> IF s = GenCore THEN "gencore" ELSE handler[s]]
  /\ UNCHANGED <<active, old, quiet, trap, gencore, timers, after_init>>

\* set_timed_kill: one timer for each thread a valid entry names.
SetTimedKill ==
  /\ step = "timers" /\ Idle(1) /\ step' = "done"
  /\ timers' = {k \in Threads \X Signals : k \in TimedKill \/ <<-1, k[2]>> \in TimedKill}
  /\ UNCHANGED <<active, handler, old, quiet, trap, gencore, after_init>>

SetUp == \/ IgnoreSignals \/ RestoreDefaultSignals \/ SetSignals \/ CatchSignals
         \/ GenCoreAndFlag \/ SetTimedKill
SignalsSet == step \in {"timers", "done"}

(* ---------------------------- delivered signals ------------------------- *)
Blocked(s, t) == \E i \in DOMAIN frames[t] : frames[t][i].sig = s
Ends(how) == status' = how /\ UNCHANGED <<init_vars, called, ignore, owner, frames, profile, first>>

Deliver(s, t) ==
  /\ status = Running /\ ~Blocked(s, t)
  /\ \/ /\ handler[s] = "dfl" /\ Ends(<<"killed", s>>)
     \/ /\ handler[s] = "harakiri" /\ Ends(<<"killed", "KILL">>)
     \/ /\ handler[s] = "drhook"
        /\ frames' = [frames EXCEPT ![t] = Append(@, [sig |-> s, at |-> "entered", n |-> 0])]
        /\ UNCHANGED <<init_vars, called, ignore, owner, profile, status, first>>
     \/ \* signal_gencore: the core, or the exit where the core limit cannot be raised
        /\ handler[s] = "gencore" /\ gencore
        /\ \E how \in {<<"core", s>>, <<"exit", s>>} : Ends(how)
     \/ /\ \/ handler[s] \in {"ign", "lib"}
           \/ handler[s] = "gencore" /\ ~gencore
        /\ UNCHANGED <<init_vars, called, ignore, owner, frames, profile, status, first>>

\* The system, the user or a fault of the thread.
Raise(s, t) == budget > 0 /\ budget' = budget - 1 /\ Deliver(s, t) /\ UNCHANGED <<alarm, timers>>
Timer(s, t) == <<t, s>> \in timers /\ timers' = timers \ {<<t, s>>} /\ Deliver(s, t) /\ UNCHANGED <<alarm, budget>>
Expire == alarm = "armed" /\ status = Running /\ alarm' = "due"
          /\ UNCHANGED <<init_vars, called, ignore, owner, frames, timers, profile, status, first, budget>>
DeliverAlarm(t) == alarm = "due" /\ alarm' = "off" /\ Deliver("ALRM", t) /\ UNCHANGED <<timers, budget>>

(* ----------------------------- signal_drhook ---------------------------- *)
At(t, place) == status = Running /\ frames[t] # <<>> /\ Last(frames[t]).at = place
Sig(t) == Last(frames[t]).sig
Goes(t, place) == frames' = [frames EXCEPT ![t][Len(frames[t])].at = place]
rest == <<alarm, owner, timers, profile, status, budget>>

\* Before the flag is set, or with a number out of range: _exit at once.
TooEarly(t) ==
  /\ At(t, "entered") /\ ~SignalsSet /\ Ends(<<"exit", Sig(t)>>) /\ UNCHANGED <<alarm, timers, budget>>

\* nsigs = ++signal_handler_called, in a critical region or in two steps.
CriticalIsFree == owner = 0
Counted(t, n) ==
  /\ called' = n
  /\ ignore' = ignore + (IF Sig(t) \in quiet THEN 1 ELSE 0)
  /\ first' = IF first = "none" THEN Sig(t) ELSE first
  /\ frames' = [frames EXCEPT ![t][Len(frames[t])] = [sig |-> Sig(t), at |-> IF n = 1 THEN "first" ELSE "later", n |-> n]]
  /\ UNCHANGED <<init_vars, rest>>
Count(t) == At(t, "entered") /\ SignalsSet /\ OpenMP /\ CriticalIsFree /\ Counted(t, called + 1)

ReadCount(t) ==
  /\ At(t, "entered") /\ SignalsSet /\ ~OpenMP
  /\ frames' = [frames EXCEPT ![t][Len(frames[t])] = [sig |-> Sig(t), at |-> "read", n |-> called + 1]]
  /\ UNCHANGED <<init_vars, called, ignore, first, rest>>
StoreCount(t) == At(t, "read") /\ Counted(t, Last(frames[t]).n)

\* Mutant: no alarm limits the tracebacks
HarakiriNoAlarm(t) ==
  /\ At(t, "first") /\ Goes(t, "trace")
  /\ handler' = [handler EXCEPT !["ALRM"] = "harakiri"]
  /\ UNCHANGED <<step, active, old, quiet, trap, gencore, called, ignore, first, rest>>
\* JSETSIG(SIGALRM,1), whatever the options say of that signal, and alarm().
Harakiri(t) ==
  /\ At(t, "first") /\ Goes(t, "trace")
  /\ active' = [active EXCEPT !["ALRM"] = 1]
  /\ old' = [old EXCEPT !["ALRM"] = handler["ALRM"]]
  /\ handler' = [handler EXCEPT !["ALRM"] = "harakiri"]
  /\ quiet' = quiet \cup {"ALRM"} /\ alarm' = "armed"
  /\ UNCHANGED <<step, trap, gencore, called, ignore, owner, timers, profile, status, first, budget>>

\* The tracebacks; they may never return.
Traceback(t) ==
  /\ At(t, "trace") /\ Goes(t, "chain")
  /\ UNCHANGED <<init_vars, called, ignore, first, rest>>

\* The handler found at set up is called, or it cannot be.
CanChain(s) == Propagate /\ old[s] = "lib"
CallPrevious(t) ==
  /\ At(t, "chain") /\ CanChain(Sig(t)) /\ Goes(t, "lib")
  /\ handler' = IF Atp /\ Sig(t) \in AtpSignals THEN [handler EXCEPT !["SEGV"] = "dfl"] ELSE handler
  /\ UNCHANGED <<step, active, old, quiet, trap, gencore, called, ignore, first, rest>>
PreviousEnds(t) ==
  /\ At(t, "lib") /\ Ends(<<"lib", Sig(t)>>) /\ UNCHANGED <<alarm, timers, budget>>
PreviousReturns(t) ==
  /\ At(t, "lib")
  /\ IF Atp /\ Sig(t) \notin {"ABRT", "TERM"}
       THEN Ends(<<"core", Sig(t)>>)
       ELSE Goes(t, "exit") /\ UNCHANGED <<init_vars, called, ignore, owner, profile, status, first>>
  /\ UNCHANGED <<alarm, timers, budget>>
CannotChain(t) ==
  /\ At(t, "chain") /\ ~CanChain(Sig(t)) /\ Goes(t, "exit")
  /\ UNCHANGED <<init_vars, called, ignore, first, rest>>
Exit(t) == At(t, "exit") /\ Ends(<<"exit", Sig(t)>>) /\ UNCHANGED <<alarm, timers, budget>>

\* Mutant: the later signals do not wait
SpinNot(t) == At(t, "later") /\ Goes(t, "exit") /\ UNCHANGED <<init_vars, called, ignore, first, rest>>
\* The second and later signals spin, then end the process.
Spin(t) == At(t, "later") /\ Goes(t, "spins") /\ UNCHANGED <<init_vars, called, ignore, first, rest>>
SpinEnds(t) == At(t, "spins") /\ Ends(<<"killed", "KILL">>) /\ UNCHANGED <<alarm, timers, budget>>

SignalDrhook(t) ==
  \/ TooEarly(t) \/ Count(t) \/ ReadCount(t) \/ StoreCount(t) \/ Harakiri(t) \/ CallPrevious(t)
  \/ CannotChain(t) \/ Exit(t) \/ Spin(t) \/ SpinEnds(t)

(* ------------------------------ the program ----------------------------- *)
unless_critical == <<init_vars, called, ignore, alarm, frames, timers, profile, status, first, budget>>
EnterCritical(t) ==
  /\ ProgramCritical /\ step = "done" /\ Idle(t) /\ profile = "no" /\ owner = 0 /\ owner' = t /\ UNCHANGED unless_critical
LeaveCritical(t) == Idle(t) /\ owner = t /\ owner' = 0 /\ UNCHANGED unless_critical

\* The end of the program: do_prof from atexit, then the exit itself.
DoProf ==
  /\ step = "done" /\ Idle(1) /\ owner = 0 /\ profile = "no" /\ Profile /\ ignore = 0
  /\ profile' = "writing"
  /\ UNCHANGED <<init_vars, called, ignore, alarm, owner, frames, timers, status, first, budget>>
EndOfProgram ==
  /\ step = "done" /\ Idle(1) /\ owner = 0
  /\ profile = "writing" \/ (profile = "no" /\ (~Profile \/ ignore > 0))
  /\ profile' = IF profile = "writing" THEN "written" ELSE profile
  /\ status' = <<"end">>
  /\ UNCHANGED <<init_vars, called, ignore, alarm, owner, frames, timers, first, budget>>

Events ==
  \/ SetUp \/ Expire \/ DoProf \/ EndOfProgram
  \/ \E t \in Threads :
       \/ SignalDrhook(t) \/ Traceback(t) \/ PreviousEnds(t) \/ PreviousReturns(t)
       \/ DeliverAlarm(t) \/ EnterCritical(t) \/ LeaveCritical(t)
       \/ \E s \in Signals : Raise(s, t) \/ Timer(s, t)

Next == Events /\ UNCHANGED env

Spec == Init /\ [][Next]_vars

\* A thread goes on and an alarm expires; the tracebacks and the handlers of
\* libraries may hang, and so may the program itself.
Expires     == Expire /\ UNCHANGED env
GoesOn(t)   == /\ t \in Threads /\ UNCHANGED env
               /\ SignalDrhook(t) \/ DeliverAlarm(t) \/ LeaveCritical(t)
-----------------------------------------------------------------------------
Places == {"entered", "read", "first", "later", "trace", "chain", "lib", "exit", "spins"}
TypeOK ==
  /\ active \in [Signals -> {0, 1, -1, -2}]
  /\ {handler, old} \subseteq [Signals -> {"dfl", "ign", "lib", "drhook", "harakiri", "gencore"}]
  /\ quiet \subseteq Signals
  /\ trap \in {"untouched", "on", "off"} /\ timers \subseteq Threads \X Signals
  /\ called \in Nat /\ ignore \in 0..called
  /\ alarm \in {"off", "armed", "due"} /\ owner \in Threads \cup {0}
  /\ \A t \in Threads : \A i \in DOMAIN frames[t] :
       frames[t][i].sig \in Signals /\ frames[t][i].at \in Places /\ frames[t][i].n \in Nat

\* Until the first signal every signal has the handler the lists ask for, the
\* first list that names it being followed, and the floating point traps are
\* touched exactly when SIGFPE is restored or caught.
HandlersAsAsked ==
  step = "done" /\ InitSignals /\ called = 0 =>
    \A s \in Signals :
      LET wants == IF s \in Asked(IgnoreList) THEN Before[s]
                   ELSE IF s \in Asked(RestoreList) THEN "dfl"
                   ELSE IF s \in Standard \cup Asked(CatchList) THEN "drhook" ELSE Before[s]
      IN /\ handler[s] = IF s = GenCore THEN "gencore" ELSE wants
         /\ s = "FPE" => trap = IF s \in Asked(IgnoreList) THEN "untouched" ELSE IF TrapFpe THEN "on" ELSE "off"

\* At most one signal is taken for the first one, whatever threads the signals
\* arrive on: two threads never print their tracebacks at once.
OneTraceback ==
  LET Firsts(t) == {i \in DOMAIN frames[t] : frames[t][i].at # "read" /\ frames[t][i].n = 1}
  IN Cardinality(UNION {{t} \X Firsts(t) : t \in Threads}) <= 1

\* The exit code, the core and the previous handler are those of the signal
\* counted first, so that a batch system is told why the program failed.
CodeOfTheFirst ==
  (SignalsSet /\ status[1] \in {"exit", "lib"} /\ handler[status[2]] # "gencore") => status[2] = first

\* Signals have the handler asked for; one of them prints the tracebacks and
\* gives the process its exit code (signal_drhook_init, signal_drhook).
FirstSignalDecides == TypeOK /\ HandlersAsAsked /\ OneTraceback /\ CodeOfTheFirst

\* A signal that Dr.Hook handles ends the process, whatever the tracebacks do,
\* where the program has no unnamed critical regions (signal_drhook).
HandledEnds == (~ProgramCritical /\ \E t \in Threads : frames[t] # <<>>) ~> (status # Running)

(* ----------------- what comments say and the code does not -------------- *)
\* "exit (which includes atexits)": the profile of a program ended by its
\* first signal is written.
ExitIncludesAtexits == status[1] = "exit" /\ Profile /\ SignalsSet /\ status[2] \notin Quiet => profile # "no"

\* "spin ... (to give 1st interrupt time to complete tracebacks)": the spin does
\* not keep the first signal from completing them.
FirstCanComplete ==
  \A t \in Threads : At(t, "spins") => \A i \in DOMAIN frames[t] : frames[t][i].n # 1

\* "call alarm(10) to try to make sure 2nd interrupt received".
AlarmReceived == (alarm = "due") ~> (status # Running)

\* "These signals will not be handled by DR_HOOK".
IgnoredUntouched == \A s \in Asked(IgnoreList) : handler[s] = Before[s]
=============================================================================
