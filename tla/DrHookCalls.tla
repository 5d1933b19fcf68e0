---------------------------- MODULE DrHookCalls ----------------------------
(* Dr.Hook (support/drhook.c): what the calls of DR_HOOK at the entry and at  *)
(* the exit of every routine keep per thread: the table of the routines       *)
(* called (keydata), the calling tree (calltree, thiscall), the stack of      *)
(* handles of the single precision build (cstk) and the times of a routine    *)
(* with and without its callees.                                              *)
(*                                                                            *)
(* A pointer to a key is <<bucket, rank in the chain of the bucket>>.  One    *)
(* clock stands for the wall clock or the CPU clock, whichever is profiled.   *)
EXTENDS Integers, FiniteSets, SequencesExt

CONSTANTS Depth,       \* callpath_depth
          Inc,         \* inc of callstack()
          Options      \* how programs are built and started, and the bounds of the runs

VARIABLE opts          \* the build and the options of this program
CallThreads == opts.Threads   \* the threads 1..numthreads
Names     == DOMAIN opts.Canon    \* what is passed as the name of a routine
Canon     == opts.Canon       \* trim and upper case, with the option TRIM
Hash      == opts.Hash        \* hashfunc, a function of the names in Canon
CallPath  == opts.CallPath    \* opt_callpath
CstkLen   == opts.CstkLen     \* cstklen: 0 when the handle of 8 bytes holds the pointer
Self      == opts.Self        \* opt_self: 0, 1 or 2
Recursive == opts.Recursive   \* may a routine be entered while it is active
Careless  == opts.Careless    \* may a routine return without the closing call
MaxDepth  == opts.MaxDepth
MaxTime   == opts.MaxTime
MaxCalls  == opts.MaxCalls

ASSUME DrHookAssumption ==
  /\ Inc \in Nat \ {0} /\ Depth \in Nat
  /\ \A o \in Options : /\ DOMAIN o.Hash = Range(o.Canon) /\ "none" \notin Range(o.Canon)
                         /\ o.Threads \subseteq Nat \ {0}
                         /\ o.CstkLen \in Nat /\ o.Self \in 0..2

VARIABLES keydata,   \* [CallThreads -> [buckets -> sequence of keys]]
          tree,      \* [CallThreads -> sequence of nodes]: calltree, linked by next and prev
          this,      \* [CallThreads -> index in tree]: thiscall
          curkey,    \* [CallThreads -> pointer or Null]: curkeyptr
          cstk,      \* [CallThreads -> handles, next and maxdepth of the call stack]
          self,      \* [CallThreads -> time of the key $drhook]: keyself
          overhead,  \* [CallThreads -> Dr.Hook's own time]
          now,       \* the clock
          aborted,   \* RAISE(SIGABRT) has ended the program
          routines,  \* [CallThreads -> the routines the program is really in]
          spent,     \* [CallThreads -> [routine -> time the program really spent in it]]
          inhook     \* [CallThreads -> time the program really spent in Dr.Hook]

code  == <<keydata, tree, this, curkey, cstk, self, overhead>>
callVars == <<opts, code, now, aborted, routines, spent, inhook>>

Null     == <<0, 0>>
CalledRoutines == Range(Canon)
Buckets  == Range(Hash)
HasSelf  == Self > 0

Key(name, path) == [name |-> name, path |-> path, in |-> 0, all |-> 0, child |-> 0,
                    calls |-> 0, status |-> 0]

KeyAt(kd, p) == kd[p[1]][p[2]]
KeysOf(kd) == UNION {{b} \X DOMAIN kd[b] : b \in DOMAIN kd}
Keys(t) == KeysOf(keydata[t])

\* The tree's nodes: the root is there from init_drhook on, the others are
\* made when they are first needed and never freed.
Node(key) == [active |-> TRUE, key |-> key]
Root      == [active |-> FALSE, key |-> Null]
TopNode(t)    == tree[t][this[t]]

Put(kd, p, key) == [kd EXCEPT ![p[1]][p[2]] = key]
Bump(kd, p, field, by) == Put(kd, p, [KeyAt(kd, p) EXCEPT ![field] = @ + by])
-----------------------------------------------------------------------------
(* getkey, with get_callpath: the key of a routine called from where the      *)
(* thread is.  A path is the active calls from the innermost on, cut at the   *)
(* depth; outside any routine there is none, and then the name alone decides. *)
Path(t) ==
  IF ~CallPath \/ ~TopNode(t).active THEN <<>>
  ELSE [i \in 1..Min({Depth, this[t]}) |-> tree[t][this[t] + 1 - i].key]

\* The code compares names as they are, paths by their length and a hash of 32
\* bits: two paths that have both in common are left out.
Matches(key, name, path) == key.name = name /\ (path = <<>> \/ key.path = path)

\* Mutant: the search stops at the first key of the chain
SlotShort(chain, name, path) ==
  IF chain # <<>> /\ Matches(chain[1], name, path) THEN 1 ELSE Len(chain) + 1

\* The first key of the chain that matches, or a free slot at its end
Slot(chain, name, path) ==
  Min({i \in DOMAIN chain : Matches(chain[i], name, path)} \cup {Len(chain) + 1})

GetKey(t, name) == <<Hash[name], Slot(keydata[t][Hash[name]], name, Path(t))>>

\* Mutant: the status is set, not counted
EnteredOnce(key, at) == [key EXCEPT !.in = at, !.calls = @ + 1, !.status = 1]

\* A key when its routine is entered at time at
EnteredKey(key, at) == [key EXCEPT !.in = at, !.calls = @ + 1, !.status = @ + 1]

\* The new contents of the table: a free slot is first given the new key
Entered(t, name, p, at) ==
  LET kd == IF p[2] \in DOMAIN keydata[t][p[1]] THEN keydata[t]
            ELSE [keydata[t] EXCEPT ![p[1]] = Append(@, Key(name, Path(t)))]
  IN Put(kd, p, EnteredKey(KeyAt(kd, p), at))

\* insert_calltree: the first node from thiscall on that is not active
FreeNode(t) == Min({i \in this[t]..Len(tree[t]) : ~tree[t][i].active} \cup {Len(tree[t]) + 1})


Inserted(t, p) ==
  IF FreeNode(t) \in DOMAIN tree[t] THEN [tree[t] EXCEPT ![FreeNode(t)] = Node(p)]
  ELSE Append(tree[t], Node(p))

\* callstack(), on entry: the handle is the index, the array grows by Inc
Pushed(t, p) ==
  LET c == cstk[t]
      room == IF c.next >= c.maxdepth THEN c.next + Inc ELSE c.maxdepth
  IN [key |-> [i \in 0..(room - 1) |-> IF i = c.next THEN p
                                       ELSE IF i < c.maxdepth THEN c.key[i] ELSE Null],
      next |-> c.next + 1, maxdepth |-> room]

EmptyStack == [key |-> [i \in 0..(CstkLen - 1) |-> Null], next |-> 0, maxdepth |-> CstkLen]
-----------------------------------------------------------------------------
CallsInit ==
  /\ opts \in Options
  /\ keydata = [t \in CallThreads |-> [b \in Buckets |-> <<>>]]
  /\ tree = [t \in CallThreads |-> <<Root>>]
  /\ this = [t \in CallThreads |-> 1]
  /\ curkey = [t \in CallThreads |-> Null]
  /\ cstk = [t \in CallThreads |-> EmptyStack]
  /\ self = [t \in CallThreads |-> 0]
  /\ overhead = [t \in CallThreads |-> 0]
  /\ now = 0 /\ aborted = FALSE
  /\ routines = [t \in CallThreads |-> <<>>]
  /\ spent = [t \in CallThreads |-> [r \in CalledRoutines |-> 0]]
  /\ inhook = [t \in CallThreads |-> 0]

\* Time d passes: every thread spends it in the routine it is in, thread t in r
Pass(t, r, d) ==
  /\ now' = now + d /\ now' <= MaxTime
  /\ spent' = [u \in CallThreads |->
       LET in == IF u = t THEN r ELSE IF routines[u] = <<>> THEN "none" ELSE Last(routines[u]).name
       IN [s \in CalledRoutines |-> spent[u][s] + IF s = in THEN d ELSE 0]]

\* The program computes
Tick == /\ ~aborted /\ Pass(0, "none", 1)
        /\ UNCHANGED <<code, aborted, routines, inhook>>

\* c_drhook_start_: the program enters a routine; the call takes the time d.
\* The time of the key $drhook is read from the clock of the entry again, and
\* is 0; without $drhook the overhead is d.
Start(t, n, d) ==
  /\ ~aborted /\ Len(routines[t]) < MaxDepth
  /\ Recursive \/ \A i \in DOMAIN routines[t] : routines[t][i].name # Canon[n]
  /\ \E name \in {Canon[n]} : \E p \in {GetKey(t, name)} :
       /\ SumFunction([q \in Keys(t) |-> KeyAt(keydata[t], q).calls]) < MaxCalls
       /\ keydata' = [keydata EXCEPT ![t] = Entered(t, name, p, now)]
       /\ tree' = [tree EXCEPT ![t] = Inserted(t, p)]
       /\ this' = [this EXCEPT ![t] = FreeNode(t)]
       /\ curkey' = [curkey EXCEPT ![t] = p]
       /\ cstk' = IF CstkLen = 0 THEN cstk ELSE [cstk EXCEPT ![t] = Pushed(t, p)]
       /\ overhead' = [overhead EXCEPT ![t] = @ + IF HasSelf THEN 0 ELSE d]
       /\ inhook' = [inhook EXCEPT ![t] = @ + d]
       /\ routines' = [routines EXCEPT ![t] =
            Append(@, [name |-> name, node |-> FreeNode(t),
                       handle |-> IF CstkLen = 0 THEN p ELSE <<0, cstk[t].next>>])]
       /\ Pass(t, name, d)
  /\ UNCHANGED <<self, aborted>>

\* The key a handle stands for: the pointer itself, or what callstack() pops
Handle(t) == Last(routines[t]).handle
\* Mutant: the index is not checked
StackAgreesAlways(t) == TRUE

StackAgrees(t) == CstkLen = 0 \/ cstk[t].next - 1 = Handle(t)[2]
Resolved(t) == IF CstkLen = 0 THEN Handle(t) ELSE cstk[t].key[cstk[t].next - 1]

\* putkey, its first check: the handle is that of the call on top of the tree
OnTop(t, p) == TopNode(t).active /\ TopNode(t).key = p

\* Mutant: the time of the call itself stays in the routine
LeftWhole(t, p, d) ==
  LET delta == now + d - KeyAt(keydata[t], p).in
      own   == Bump(Bump(keydata[t], p, "all", delta), p, "status", -1)
  IN IF this[t] = 1 THEN own ELSE Bump(own, tree[t][this[t] - 1].key, "child", delta)

\* putkey, then remove_calltree: the time since the last entry of the routine
\* is added to it and to the children of the routine below; with $drhook, the
\* time d of this call is one of its children.
Left(t, p, d) ==
  LET delta == now + d - KeyAt(keydata[t], p).in
      own   == Bump(Bump(keydata[t], p, "all", delta), p, "status", -1)
      below == IF this[t] = 1 THEN own ELSE Bump(own, tree[t][this[t] - 1].key, "child", delta)
  IN IF HasSelf THEN Bump(below, p, "child", d) ELSE below

\* c_drhook_end_: the program leaves a routine
End(t, d) ==
  /\ ~aborted /\ routines[t] # <<>>
  /\ StackAgrees(t) /\ OnTop(t, Resolved(t))
  /\ \E p \in {Resolved(t)} : \E below \in {Max({1, this[t] - 1})} :
       /\ keydata' = [keydata EXCEPT ![t] = Left(t, p, d)]
       /\ tree' = [tree EXCEPT ![t][this[t]].active = FALSE]
       /\ this' = [this EXCEPT ![t] = below]
       /\ curkey' = [curkey EXCEPT ![t] = tree[t][below].key]
       /\ cstk' = IF CstkLen = 0 THEN cstk ELSE [cstk EXCEPT ![t].next = @ - 1]
       /\ self' = [self EXCEPT ![t] = @ + IF HasSelf THEN d ELSE 0]
       /\ overhead' = [overhead EXCEPT ![t] = @ + IF HasSelf THEN d ELSE 0]
       /\ inhook' = [inhook EXCEPT ![t] = @ + d]
       /\ Pass(t, IF HasSelf THEN "none" ELSE Last(routines[t]).name, d)
  /\ routines' = [routines EXCEPT ![t] = Front(@)]
  /\ UNCHANGED aborted

\* c_drhook_end_ with a handle that is not the expected one
Abort(t) ==
  /\ ~aborted /\ routines[t] # <<>>
  /\ ~(StackAgrees(t) /\ OnTop(t, Resolved(t)))
  /\ aborted' = TRUE
  /\ UNCHANGED <<code, now, routines, spent, inhook>>

\* The program returns from a routine without calling DR_HOOK
Forget(t) ==
  /\ ~aborted /\ Careless /\ routines[t] # <<>>
  /\ routines' = [routines EXCEPT ![t] = Front(@)]
  /\ UNCHANGED <<code, now, aborted, spent, inhook>>

Calls == \/ Tick
         \/ \E t \in CallThreads : \/ \E n \in Names, d \in 0..1 : Start(t, n, d)
                               \/ \E d \in 0..1 : End(t, d)
                               \/ Abort(t) \/ Forget(t)

CallsNext == Calls /\ UNCHANGED opts

CallsSpec == CallsInit /\ [][CallsNext]_callVars
-----------------------------------------------------------------------------
(* Properties *)

Pointers(t) == {Null} \cup Keys(t)

\* Every pointer kept is Null or that of a key of the same thread.
PointersKept ==
  \A t \in CallThreads :
    /\ this[t] \in DOMAIN tree[t] /\ curkey[t] \in Pointers(t)
    /\ \A i \in DOMAIN tree[t] : tree[t][i].key \in Pointers(t)
    /\ \A p \in Keys(t) : Range(KeyAt(keydata[t], p).path) \subseteq Pointers(t)

\* A routine has one key per thread, and with CALLPATH one per path to it: no
\* part of its time or of its calls is hidden in a key further down the chain.
OneKeyEach ==
  \A t \in CallThreads : \A p, q \in Keys(t) :
    KeyAt(keydata[t], p).name = KeyAt(keydata[t], q).name
      /\ KeyAt(keydata[t], p).path = KeyAt(keydata[t], q).path => p = q

\* A program whose every routine makes both calls is never aborted, whatever the
\* order of its calls, the collisions of its names and the depth of its stack.
NoFalseAlarm == aborted => Careless

\* A closing call that is accepted closes the entry of its own routine, never
\* another that was left open above it: the tree never drifts from the program.
\* A handle that is the pointer itself cannot tell two calls of one routine.
HandlesTell == CstkLen > 0 \/ ~Recursive \/ ~Careless
ClosedItsOwn ==
  \A t \in CallThreads :
    HandlesTell /\ (this'[t] < this[t] \/ (tree[t][1].active /\ ~tree'[t][1].active))
      => this[t] = Last(routines[t]).node
ClosesItsOwn == [][ClosedItsOwn]_callVars

\* The calls that are active are those the tree holds, from the root on, and a
\* key counts how many of them are its own.
StatusIsNesting ==
  \A t \in CallThreads :
    /\ \A i \in DOMAIN tree[t] : tree[t][i].active <=> i <= this[t] /\ TopNode(t).active
    /\ \A p \in Keys(t) : KeyAt(keydata[t], p).status =
         Cardinality({i \in DOMAIN tree[t] : tree[t][i].active /\ tree[t][i].key = p})

OwnTime(t, p) == KeyAt(keydata[t], p).all - KeyAt(keydata[t], p).child

\* The profile is right: once no call of a routine is active, the time of its
\* keys less that of their children is the time the program spent in it (a key has
\* one time of entry: the program makes both calls and enters no routine twice).
OwnTimeIsSpent ==
  ~Recursive /\ ~Careless => \A t \in CallThreads, r \in CalledRoutines :
    LET ps == {p \in Keys(t) : KeyAt(keydata[t], p).name = r}
    IN (\A p \in ps : KeyAt(keydata[t], p).status = 0)
         => SumFunction([p \in ps |-> OwnTime(t, p)]) = spent[t][r]

\* The tree, the table of the routines and their times follow the calls of the
\* program, which is not aborted unless a routine left out its closing call
\* (drhook_lib, getkey, putkey, remove_calltree).
CallsFollowed ==
  StatusIsNesting /\ OneKeyEach /\ NoFalseAlarm /\ PointersKept /\ OwnTimeIsSpent

\* The key of a call is that of the path the thread took to it.
KeyOfThePath ==
  \A t \in CallThreads : \A i \in 1..this[t] : CallPath /\ tree[t][i].active =>
    KeyAt(keydata[t], tree[t][i].key).path =
      [j \in 1..Min({Depth, i - 1}) |-> tree[t][i - j].key]

\* Memory is charged to the routine a thread is in, and to none outside (comment
\* of curkeyptr: "pointers to current keyptr (per thread)").
CurrentKey ==
  \A t \in CallThreads : ~aborted => curkey[t] = IF TopNode(t).active THEN TopNode(t).key ELSE Null

\* The overhead reported is the time spent in Dr.Hook (comment of overhead:
\* "Total Dr.Hook-overhead for every thread").
OverheadIsTotal == \A t \in CallThreads : overhead[t] = inhook[t]
=============================================================================
