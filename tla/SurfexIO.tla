------------------------------ MODULE SurfexIO ------------------------------
(***************************************************************************)
(* The parallel input/output protocol of SURFEX: how the calls of IOCalls  *)
(* are carried out by tasks that exchange MPI messages.  In "coverH" and   *)
(* "coverA" the columns of one array are read by different tasks at the    *)
(* same time; with HDIR='H' they are exchanged with MPI_ISEND from the     *)
(* buffer XWORKS that all calls of the task share.                         *)
(***************************************************************************)
EXTENDS IOCalls

CONSTANTS
  NTHREADS,   \* OpenMP threads of a task
  GSPEC       \* NINDEX is kept by every task (INIT_INDEX_MPI)

ASSUME TasksAssumption ==
  /\ NTHREADS \in Nat \ {0}
  /\ GSPEC \in BOOLEAN
  \* TREAT_FIELD is called by PGD only, where every task has NINDEX
  /\ \A c \in CallSet :
       (IsExchange(c) \/ (c.kind = "read" /\ c.n # NPIO)) => GSPEC

VARIABLES
  calls,  \* the calls made so far, the same for all tasks; idxR and idxW
          \* record (for the proofs only) the counters before each call
  op,     \* op[r]: the call task r is in, or will make next
  pc,     \* where task r is in that call
  jp,     \* JP: the pass of the loop over columns; 0 in the other calls
  todo,   \* the tasks the current loop of r has still to serve
  idxR,   \* IDX_R, base of the message tags of reads
  idxW,   \* IDX_W, tag of the messages of writes
  nindex, \* nindex[r]: NINDEX holds the partition on task r
  iflag,  \* IFLAG: NINDEX was already full when READ_SURF_COV was called
  works,  \* works[r][d]: column d of XWORKS of r, the slice sent to d
          \* (of ISIZE in TREAT_FIELD, of IWORKS in TREAT_BATHYFIELD)
  nreq,   \* nreq[r][q]: destination of the request in slot q of NREQ
  sent,   \* sent[r][d]: number of messages posted by r to d
  bcast,  \* the calls whose MPI_BCAST the root has entered
  net,    \* messages posted and not yet received
  got     \* got[r]: what r has stored in the arrays it was given

vars == <<calls, op, pc, jp, todo, idxR, idxW, nindex, iflag, works, nreq,
          sent, bcast, net, got>>

-----------------------------------------------------------------------------
(* Calls and tags. *)

(* What a call adds to the tag counter of reads. *)
StepR(c) == IF c.kind = "read" THEN 1
            ELSE IF IsCover(c) THEN IPAS(c.n) + 1
            ELSE IF c.kind = "exchange" THEN NPROC ELSE 0

(* The driver sets IDX_W to 0 before the first write of an output, on each *)
(* task when it comes to it; then, as w before call c, the tag of the call.*)
OutputW(c, w) == IF c.n = 1 THEN 0 ELSE w
NextW(c, w) == IF c.kind = "write" THEN OutputW(c, w) + 1 ELSE w

Call(r) == calls[op[r]]

(* The tag, for task r, of the message of s in its current call and pass. *)
Tag(r, s) == IF Call(r).kind = "write" THEN idxW[r]
             ELSE IF IsExchange(Call(r)) THEN idxR[r] + 1 + s
             ELSE idxR[r] + jp[r] + 1

(* READ_AND_SEND_MPI is called with KPIO and KDX: it uses MPI_ISEND. *)
AlwaysBlocking(c) == c.kind = "none"   \* mutant
NonBlocking(c) == c.kind = "coverH" \/ IsExchange(c)

(* DO I=0,NPROC-1 *)
AllTasks == 0 .. NPROC-1

(* NREQ slot of the request to d. *)
IREQUnshifted(r, d) == d   \* mutant
IREQ(r, d) == IF d < r THEN d + 1 ELSE d

(* Tasks whose column the loop over JPROC receives on task r. *)
Sources(r, j) == {s \in Rank \ {r} : HasColumn(Call(r).n, s, j)}

-----------------------------------------------------------------------------
(* MPI, as the calls use it: messages of a pair of tasks with the same tag *)
(* are received in the order they were posted.  A blocking send returns at *)
(* once (sync = FALSE) or when its message is received.  A message of an   *)
(* MPI_ISEND (ref = TRUE) has its value in XWORKS until the library copies *)
(* it or the receive matches it.                                           *)

Message(r, d, val, ref, sync) ==
  [src |-> r, dst |-> d, tag |-> Tag(r, r), seq |-> sent[r][d],
   op |-> op[r], jp |-> jp[r], ref |-> ref, sync |-> sync, val |-> val]

Post(m) ==
  /\ net' = net \cup {m}
  /\ sent' = [sent EXCEPT ![m.src][m.dst] = @ + 1]

Blocked(r) == {m \in net : m.src = r /\ m.sync}
PendingTo(r, d) == {m \in net : m.src = r /\ m.dst = d /\ m.ref}

Matching(r, s) == {m \in net : m.src = s /\ m.dst = r /\ m.tag = Tag(r, s)}
Oldest(S) == {m \in S : \A o \in S : m.seq <= o.seq}

Content(m) == IF m.ref THEN works[m.src][m.dst] ELSE m.val

Store(r, c, v) == got' = [got EXCEPT ![r] = @ \cup {[op |-> op[r], col |-> c, val |-> v]}]

-----------------------------------------------------------------------------
Init ==
  /\ calls = << >>
  /\ op = [r \in Rank |-> 1]
  /\ pc = [r \in Rank |-> "idle"]
  /\ jp = [r \in Rank |-> 0]
  /\ todo = [r \in Rank |-> {}]
  /\ idxR = [r \in Rank |-> 0]
  /\ idxW = [r \in Rank |-> 0]
  /\ nindex = [r \in Rank |-> r = NPIO \/ GSPEC]
  /\ iflag = [r \in Rank |-> FALSE]
  /\ works = [r \in Rank |-> [d \in Rank |-> Zero]]
  /\ nreq = [r \in Rank |-> [q \in 1 .. NPROC-1 |-> NPROC]]
  /\ sent = [r \in Rank |-> [d \in Rank |-> 0]]
  /\ bcast = {}
  /\ net = {}
  /\ got = [r \in Rank |-> {}]

(* A call is entered.  The first task to arrive fixes which call it is. *)
EnterCall(r, c) ==
  /\ pc[r] = "idle"
  /\ pc' = [pc EXCEPT ![r] =
       CASE c.kind = "scalar" -> "bcast"
         [] c.kind = "read"   -> IF r = c.n THEN "send" ELSE "recv"
         [] c.kind = "write"  -> IF r = NPIO THEN "recv" ELSE "send"
         [] c.kind = "coverH" -> IF NPROC > 1 THEN "bcast" ELSE "pass"
         [] c.kind = "coverA" -> "pass"
         [] IsExchange(c)     -> "send"]
  /\ todo' = [todo EXCEPT ![r] =
       CASE c.kind = "read"  -> IF r = c.n THEN AllTasks ELSE {c.n}
         [] c.kind = "write" -> IF r = NPIO THEN AllTasks ELSE {NPIO}
         [] c.kind = "exchange" -> AllTasks \ {r}
         [] c.kind = "bathy"    -> AllTasks
         [] OTHER -> {}]
  /\ jp' = [jp EXCEPT ![r] = IF IsCover(c) THEN 1 ELSE 0]
  /\ idxW' = [idxW EXCEPT ![r] = NextW(c, @)]
  /\ iflag' = [iflag EXCEPT ![r] = c.kind = "coverH" /\ r # NPIO /\ nindex[r]]
  /\ UNCHANGED <<op, idxR, nindex, works, nreq, sent, bcast, net, got>>

FirstCall(r) ==
  /\ op[r] = Len(calls) + 1
  /\ op[r] <= MaxCalls
  /\ \E c \in CallSet :
       /\ calls' = Append(calls, [kind |-> c.kind, n |-> c.n,
                                  idxR |-> idxR[r], idxW |-> idxW[r]])
       /\ EnterCall(r, c)

NextCall(r) ==
  /\ op[r] \in 1 .. Len(calls)
  /\ EnterCall(r, Call(r))
  /\ UNCHANGED calls

(* Task r leaves the call. *)
LeaveCallRootCounts(r) ==   \* mutant: only NPIO advances IDX_R
  /\ op' = [op EXCEPT ![r] = @ + 1]
  /\ pc' = [pc EXCEPT ![r] = "idle"]
  /\ jp' = [jp EXCEPT ![r] = 0]
  /\ idxR' = [idxR EXCEPT ![r] = IF r = NPIO THEN @ + StepR(Call(r)) ELSE @]

LeaveCall(r) ==
  /\ op' = [op EXCEPT ![r] = @ + 1]
  /\ pc' = [pc EXCEPT ![r] = "idle"]
  /\ jp' = [jp EXCEPT ![r] = 0]
  /\ idxR' = [idxR EXCEPT ![r] = @ + StepR(Call(r))]

(* MPI_BCAST from NPIO: the root does not wait, the others wait for it.  It *)
(* carries the value of a scalar, or NINDEX before the columns are read.    *)
Broadcast(r) ==
  /\ pc[r] = "bcast"
  /\ IF r = NPIO THEN bcast' = bcast \cup {op[r]}
                 ELSE op[r] \in bcast /\ UNCHANGED bcast
  /\ IF Call(r).kind = "scalar"
       THEN /\ Store(r, 1, Slice(op[r], 1, Whole))
            /\ LeaveCall(r)
            /\ UNCHANGED nindex
       ELSE /\ nindex' = [nindex EXCEPT ![r] = TRUE]
            /\ pc' = [pc EXCEPT ![r] = "pass"]
            /\ UNCHANGED <<op, jp, idxR, got>>
  /\ UNCHANGED <<calls, todo, idxW, iflag, works, nreq, sent, net>>

(* One pass of the loop over JP: the task reads its column, if it has one, *)
(* and sends it; a task without a column goes straight to the receives.    *)
ReadColumn(r) ==
  /\ pc[r] = "pass"
  /\ jp[r] <= IPAS(Call(r).n)
  /\ HasColumn(Call(r).n, r, jp[r])
  /\ IF Call(r).kind = "coverA" /\ r = NPIO
       THEN /\ Store(r, Column(Call(r).n, r, jp[r]),
                     Slice(op[r], Column(Call(r).n, r, jp[r]), Whole))
            /\ pc' = [pc EXCEPT ![r] = "recv"]
            /\ todo' = [todo EXCEPT ![r] = Sources(r, jp[r])]
       ELSE /\ pc' = [pc EXCEPT ![r] = "send"]
            /\ todo' = [todo EXCEPT ![r] =
                          IF Call(r).kind = "coverH" THEN AllTasks ELSE {NPIO}]
            /\ UNCHANGED got
  /\ UNCHANGED <<calls, op, jp, idxR, idxW, nindex, iflag, works, nreq, sent,
                 bcast, net>>

NoColumn(r) ==
  /\ pc[r] = "pass"
  /\ jp[r] <= IPAS(Call(r).n)
  /\ ~HasColumn(Call(r).n, r, jp[r])
  /\ IF Call(r).kind = "coverH" \/ r = NPIO
       THEN /\ pc' = [pc EXCEPT ![r] = "recv"]
            /\ todo' = [todo EXCEPT ![r] = Sources(r, jp[r])]
            /\ UNCHANGED jp
       ELSE /\ jp' = [jp EXCEPT ![r] = @ + 1]
            /\ UNCHANGED <<pc, todo>>
  /\ UNCHANGED <<calls, op, idxR, idxW, nindex, iflag, works, nreq, sent,
                 bcast, net, got>>

EndColumns(r) ==
  /\ pc[r] = "pass"
  /\ jp[r] > IPAS(Call(r).n)
  /\ LeaveCall(r)
  /\ nindex' = [nindex EXCEPT ![r] =
       @ /\ ~(r # NPIO /\ Call(r).kind = "coverH" /\ ~iflag[r])]
  /\ UNCHANGED <<calls, todo, idxW, iflag, works, nreq, sent, bcast, net, got>>

(* Column sent by r in its current call; 1 where the field has only one. *)
OwnColumn(r) ==
  CASE IsCover(Call(r))    -> Column(Call(r).n, r, jp[r])
    [] IsExchange(Call(r)) -> r
    [] OTHER               -> 1

(* The OpenMP loop of READ_AND_SEND_MPI: a thread packs column d of XWORKS *)
(* with the points of task d (nothing if NINDEX is not known) and sends it.*)
(* Threads take the iterations in order; one blocked in MPI_SEND keeps its *)
(* thread.                                                                 *)
ThreadFree(r, d) ==
  Cardinality(Blocked(r)) + Cardinality({x \in todo[r] : x < d}) < NTHREADS

PackAndSend(r, d) ==
  /\ pc[r] = "send"
  /\ Call(r).kind \in {"read", "coverH", "exchange", "bathy"}
  /\ d \in todo[r]
  /\ ThreadFree(r, d)
  /\ todo' = [todo EXCEPT ![r] = @ \ {d}]
  /\ LET packed == IF nindex[r] THEN Slice(op[r], OwnColumn(r), d) ELSE Zero
     IN /\ works' = [works EXCEPT ![r][d] = packed]
        /\ IF d = r THEN UNCHANGED <<net, sent, nreq>>
           ELSE IF NonBlocking(Call(r))
             THEN /\ Post(Message(r, d, Zero, TRUE, FALSE))
                  /\ nreq' = [nreq EXCEPT ![r][IREQ(r, d)] = d]
             ELSE /\ \E sync \in BOOLEAN : Post(Message(r, d, packed, FALSE, sync))
                  /\ UNCHANGED nreq
  /\ UNCHANGED <<calls, op, pc, jp, idxR, idxW, nindex, iflag, bcast, got>>

(* MPI_SEND of the points of r (a write) or of the whole column (HDIR='A'). *)
SendToPIO(r) ==
  /\ pc[r] = "send"
  /\ Call(r).kind \in {"write", "coverA"}
  /\ todo[r] = {NPIO}
  /\ todo' = [todo EXCEPT ![r] = {}]
  /\ \E sync \in BOOLEAN :
       Post(Message(r, NPIO,
                    Slice(op[r], OwnColumn(r), IF Call(r).kind = "write" THEN r ELSE Whole),
                    FALSE, sync))
  /\ UNCHANGED <<calls, op, pc, jp, idxR, idxW, nindex, iflag, works, nreq,
                 bcast, got>>

(* All the sends of the call, or of the pass, have returned. *)
EndSend(r) ==
  /\ pc[r] = "send"
  /\ todo[r] = {}
  /\ Blocked(r) = {}
  /\ CASE Call(r).kind = "read" ->
            /\ Store(r, 1, works[r][r])
            /\ LeaveCall(r)
            /\ UNCHANGED todo
       [] Call(r).kind = "write" ->
            /\ LeaveCall(r)
            /\ UNCHANGED <<todo, got>>
       [] Call(r).kind = "coverH" ->
            /\ Store(r, OwnColumn(r), works[r][r])
            /\ pc' = [pc EXCEPT ![r] = "recv"]
            /\ todo' = [todo EXCEPT ![r] = Sources(r, jp[r])]
            /\ UNCHANGED <<op, jp, idxR>>
       [] IsExchange(Call(r)) ->
            /\ pc' = [pc EXCEPT ![r] = "recv"]
            /\ todo' = [todo EXCEPT ![r] = AllTasks]
            /\ UNCHANGED <<op, jp, idxR, got>>
       [] Call(r).kind = "coverA" ->
            /\ pc' = [pc EXCEPT ![r] = "pass"]
            /\ jp' = [jp EXCEPT ![r] = @ + 1]
            /\ UNCHANGED <<op, todo, idxR, got>>
  /\ UNCHANGED <<calls, idxW, nindex, iflag, works, nreq, sent, bcast, net>>

(* Blocking receives.  The loop of GATHER_AND_WRITE_MPI is sequential, the *)
(* loop over JPROC of READ_SURF_COV is shared between the threads.         *)
ReceiveOrder(r, s) ==
  Cardinality({x \in todo[r] : x < s}) < (IF IsCover(Call(r)) THEN NTHREADS ELSE 1)

(* The column of the array in which what comes from s is stored. *)
TargetOwnColumn(r, s) ==   \* mutant: IVAL computed from NRANK, not from JPROC
  CASE Call(r).kind = "write" \/ IsExchange(Call(r)) -> r
    [] IsCover(Call(r))       -> Column(Call(r).n, r, jp[r])
    [] OTHER                  -> 1

TargetColumn(r, s) ==
  CASE Call(r).kind = "write" \/ IsExchange(Call(r)) -> s
    [] IsCover(Call(r))       -> Column(Call(r).n, s, jp[r])
    [] OTHER                  -> 1

Receive(r, s) ==
  /\ pc[r] = "recv"
  /\ s \in todo[r]
  /\ ReceiveOrder(r, s)
  /\ todo' = [todo EXCEPT ![r] = @ \ {s}]
  /\ IF s = r   \* its own points are not sent
       THEN /\ Store(r, s, Slice(op[r], OwnColumn(r), r))
            /\ UNCHANGED net
       ELSE \E m \in Oldest(Matching(r, s)) :
              /\ Store(r, TargetColumn(r, s), Content(m))
              /\ net' = net \ {m}
  /\ UNCHANGED <<calls, op, pc, jp, idxR, idxW, nindex, iflag, works, nreq,
                 sent, bcast>>

(* End of the receives; a task that sent a column waits for its requests. *)
NoWaitAll(r) == r \in Rank   \* mutant
WaitAll(r) ==
  (IsExchange(Call(r)) \/ (Call(r).kind = "coverH" /\ HasColumn(Call(r).n, r, jp[r])))
    => \A q \in 1 .. NPROC-1 : PendingTo(r, nreq[r][q]) = {}

EndReceive(r) ==
  /\ pc[r] = "recv"
  /\ todo[r] = {}
  /\ WaitAll(r)
  /\ IF IsCover(Call(r))
       THEN /\ pc' = [pc EXCEPT ![r] = "pass"]
            /\ jp' = [jp EXCEPT ![r] = @ + 1]
            /\ UNCHANGED <<op, idxR>>
       ELSE LeaveCall(r)
  /\ UNCHANGED <<calls, todo, idxW, nindex, iflag, works, nreq, sent, bcast,
                 net, got>>

(* The MPI library copies the buffer of a pending MPI_ISEND. *)
CopyOut(m) ==
  /\ m.ref
  /\ net' = (net \ {m}) \cup {[m EXCEPT !.ref = FALSE, !.val = works[m.src][m.dst]]}
  /\ UNCHANGED <<calls, op, pc, jp, todo, idxR, idxW, nindex, iflag, works,
                 nreq, sent, bcast, got>>

(* TREAT_BATHYFIELD sends with READ_AND_SEND_MPI_N1D, whose buffer IWORKS is *)
(* an automatic array: after the return its storage is used for other data, *)
(* at any time.                                                             *)
StorageReused(r) ==
  /\ pc[r] = "recv"
  /\ Call(r).kind = "bathy"
  /\ works' = [works EXCEPT ![r] = [d \in Rank |-> Zero]]
  /\ UNCHANGED <<calls, op, pc, jp, todo, idxR, idxW, nindex, iflag, nreq,
                 sent, bcast, net, got>>

(* All tasks have made their calls: MPI_FINALIZE. *)
Finalize ==
  /\ \A r \in Rank : pc[r] = "idle" /\ op[r] = MaxCalls + 1
  /\ UNCHANGED vars

TaskStep(r) ==
  \/ FirstCall(r)
  \/ NextCall(r)
  \/ Broadcast(r)
  \/ ReadColumn(r)
  \/ NoColumn(r)
  \/ EndColumns(r)
  \/ \E d \in Rank : PackAndSend(r, d)
  \/ SendToPIO(r)
  \/ EndSend(r)
  \/ \E s \in Rank : Receive(r, s)
  \/ EndReceive(r)

Next ==
  \/ \E r \in Rank : TaskStep(r)
  \/ \E m \in net : CopyOut(m)
  \/ \E r \in Rank : StorageReused(r)
  \/ Finalize

Spec == Init /\ [][Next]_vars

(* A task that can continue does; the MPI library needs no other fairness, *)
(* a posted message can be received.                                       *)
FairSpec == Spec /\ \A r \in Rank : WF_vars(TaskStep(r))

-----------------------------------------------------------------------------
(* Properties. *)

CallRecords == [kind : Kinds, n : Nat, idxR : Nat, idxW : Nat]
Entries == [op : Nat, col : Nat, val : Slices]
Messages == [src : Rank, dst : Rank, tag : Nat, seq : Nat, op : Nat, jp : Nat,
             ref : BOOLEAN, sync : BOOLEAN, val : Slices]

(* Every variable has its type (one invariant for all of them). *)
TypeOK ==
  /\ calls \in Seq(CallRecords)
  /\ op \in [Rank -> Nat \ {0}]
  /\ pc \in [Rank -> {"idle", "bcast", "pass", "send", "recv"}]
  /\ jp \in [Rank -> Nat]
  /\ todo \in [Rank -> SUBSET Rank]
  /\ idxR \in [Rank -> Nat]
  /\ idxW \in [Rank -> Nat]
  /\ nindex \in [Rank -> BOOLEAN]
  /\ iflag \in [Rank -> BOOLEAN]
  /\ works \in [Rank -> [Rank -> Slices]]
  /\ nreq \in [Rank -> [1 .. NPROC-1 -> 0 .. NPROC]]
  /\ sent \in [Rank -> [Rank -> Nat]]
  /\ bcast \subseteq Nat
  /\ net \subseteq Messages
  /\ got \in [Rank -> SUBSET Entries]

(* What a task stores in a column of the array of a call is its own part of *)
(* that column of that call, whatever the other tasks are doing: a receive  *)
(* never takes the message of another call or pass, although reads and      *)
(* writes number their tags independently.                                  *)
Placement ==
  \A r \in Rank : \A e \in got[r] :
    e.op \in 1 .. Len(calls) /\ e.val = Expected(calls[e.op], e.op, r, e.col)

(* What treat_bathyfield.F90 says of its exchange of counts: "each task     *)
(* receives each ISIZE from each task".                                     *)
PartsExchanged ==
  \A r \in Rank : \A e \in got[r] :
    calls[e.op].kind = "bathy" => e.val = Slice(e.op, e.col, r)

(* When a task leaves a call, every column it asked for has arrived. *)
Completeness ==
  \A r \in Rank : \A k \in 1 .. op[r] - 1 : \A c \in Columns(calls[k], r) :
    \E e \in got[r] : e.op = k /\ e.col = c

(* No column of XWORKS is overwritten while an MPI_ISEND from it is pending. *)
BufferIntact ==
  [][\A m \in net : m.ref /\ m \in net' =>
        works'[m.src][m.dst] = works[m.src][m.dst]]_vars

(* Between two calls that all tasks are at, no message is left in the      *)
(* network and the tag counters of reads agree.                            *)
Synchronised ==
  \A k \in 1 .. MaxCalls + 1 :
    (\A r \in Rank : pc[r] = "idle" /\ op[r] = k) =>
       /\ net = {}
       /\ \A r, s \in Rank : idxR[r] = idxR[s] /\ idxW[r] = idxW[s]

(* Every program terminates, even if every MPI_SEND waits for its receive. *)
Termination == <>(\A r \in Rank : op[r] = MaxCalls + 1)

(* The protocol implements what CollectiveIO promises: a call of a task is *)
(* complete when the task leaves it.                                       *)
Abstract == INSTANCE CollectiveIO WITH
  calls  <- [k \in 1 .. Len(calls) |-> [kind |-> calls[k].kind, n |-> calls[k].n]],
  done   <- [r \in Rank |-> op[r] - 1],
  result <- [r \in Rank |-> {e \in got[r] : e.op < op[r]}]

Refinement == Abstract!AbsSpec
=============================================================================
