---------------------------- MODULE CollectiveIO ----------------------------
(***************************************************************************)
(* What the parallel input/output promises: every task gets, call after    *)
(* call, exactly the columns it asked for, each holding its own points, as *)
(* if each call were one step of the task.  The step can be taken once the *)
(* tasks whose points or columns are needed have reached the call.         *)
(***************************************************************************)
EXTENDS IOCalls

VARIABLES
  calls,   \* the calls the tasks have agreed on
  done,    \* done[r]: number of calls task r has completed
  result   \* result[r]: what the completed calls gave to task r

absVars == <<calls, done, result>>

(* The tasks without which r cannot complete the call. *)
Contributors(call, r) ==
  CASE call.kind = "scalar" -> {NPIO}
    [] call.kind = "read"   -> {call.n}
    [] IsExchange(call)     -> Rank
    [] call.kind = "write"  -> IF r = NPIO THEN Rank ELSE {}
    [] call.kind = "coverH" -> {NPIO} \cup {s \in Rank : HasColumn(call.n, s, 1)}
    [] call.kind = "coverA" ->
         IF r = NPIO THEN {s \in Rank : HasColumn(call.n, s, 1)} ELSE {}

AbsInit ==
  /\ calls = << >>
  /\ done = [r \in Rank |-> 0]
  /\ result = [r \in Rank |-> {}]

Agree(c) ==
  /\ Len(calls) < MaxCalls
  /\ \E r \in Rank : done[r] = Len(calls)
  /\ calls' = Append(calls, c)
  /\ UNCHANGED <<done, result>>

Complete(r) ==
  LET k == done[r] + 1 IN
  /\ k <= Len(calls)
  /\ \A s \in Contributors(calls[k], r) : done[s] >= k - 1
  /\ done' = [done EXCEPT ![r] = k]
  /\ result' = [result EXCEPT ![r] = @ \cup Filled(calls[k], k, r)]
  /\ UNCHANGED calls

AbsNext == (\E c \in CallSet : Agree(c)) \/ (\E r \in Rank : Complete(r))

AbsSpec == AbsInit /\ [][AbsNext]_absVars
=============================================================================
