--------------------------- MODULE SurfexIO_proof ---------------------------
(***************************************************************************)
(* Proofs about SurfexIO, for any number of tasks, threads and calls.      *)
(*                                                                         *)
(* A message is identified by its source, its destination and its round:   *)
(* the call and the pass (op, jp) it was posted in.  The inductive         *)
(* invariant says where each message of a round is, from the positions of  *)
(* its source and destination in the program; the order of the messages of *)
(* a pair of tasks in the network is the order of their rounds, so a       *)
(* receive, which takes the oldest message with its tag, takes the one of  *)
(* its own round.                                                          *)
(***************************************************************************)
EXTENDS SurfexIO, TLAPS

-----------------------------------------------------------------------------
(* The variables have their types.  Types are not inductive alone: which      *)
(* branch a task takes when its sends or receives end depends on the call it  *)
(* is in, so the invariant Base also says which calls a task can be in at     *)
(* each place (Control).                                                      *)

(* Every call made is one of CallSet. *)
CallsOK == \A k \in 1 .. Len(calls) :
             [kind |-> calls[k].kind, n |-> calls[k].n] \in CallSet

PositionOK == \A r \in Rank : /\ op[r] <= Len(calls) + 1
                              /\ pc[r] # "idle" => op[r] <= Len(calls)

(* What the place of a task in its call says of the call. *)
Sending(r) ==
  \/ Call(r).kind = "read" /\ r = Call(r).n
  \/ Call(r).kind = "write" /\ r # NPIO /\ todo[r] \subseteq {NPIO}
  \/ Call(r).kind = "coverH" /\ HasColumn(Call(r).n, r, jp[r])
  \/ Call(r).kind = "coverA" /\ HasColumn(Call(r).n, r, jp[r]) /\ r # NPIO /\ todo[r] \subseteq {NPIO}
  \/ IsExchange(Call(r))

Receiving(r) ==
  \/ Call(r).kind = "read" /\ r # Call(r).n /\ todo[r] \subseteq {Call(r).n}
  \/ Call(r).kind = "write" /\ r = NPIO
  \/ Call(r).kind = "coverH" /\ todo[r] \subseteq Sources(r, jp[r])
  \/ Call(r).kind = "coverA" /\ r = NPIO /\ todo[r] \subseteq Sources(r, jp[r])
  \/ IsExchange(Call(r))

Control(r) ==
  /\ pc[r] = "idle"  => jp[r] = 0
  /\ pc[r] = "bcast" => Call(r).kind \in {"scalar", "coverH"}
  /\ pc[r] = "pass"  => IsCover(Call(r))
  /\ pc[r] # "idle"  => (jp[r] >= 1) = IsCover(Call(r))
  /\ (pc[r] \in {"send", "recv"} /\ IsCover(Call(r))) => jp[r] <= IPAS(Call(r).n)
  /\ pc[r] = "send"  => Sending(r)
  /\ pc[r] = "recv"  => Receiving(r)

ControlOK == \A r \in Rank : Control(r)

Base == TypeOK /\ CallsOK /\ PositionOK /\ ControlOK

-----------------------------------------------------------------------------
(* Types of what the model computes. *)

LEMMA IPASType == \A n \in Nat : IPAS(n) \in Nat
  BY CallsAssumption DEF IPAS

LEMMA ColumnType == \A n \in Nat, s \in Rank, j \in Nat : Column(n, s, j) \in Nat
  BY IPASType, CallsAssumption DEF Column, Rank

LEMMA RankType == /\ Rank \subseteq Nat
                  /\ NPIO \in Rank
                  /\ \A r \in Rank : r < NPROC
                  /\ NPROC \in Nat
  BY CallsAssumption DEF Rank

(* A task in a call is in one of the calls made. *)
LEMMA CurrentCall ==
  ASSUME TypeOK, CallsOK, NEW r \in Rank, op[r] <= Len(calls)
  PROVE  /\ op[r] \in 1 .. Len(calls)
         /\ Call(r) \in CallRecords
         /\ Call(r).kind \in Kinds /\ Call(r).n \in Nat
         /\ [kind |-> Call(r).kind, n |-> Call(r).n] \in CallSet
         /\ Call(r).kind = "read" => Call(r).n \in Rank
         /\ StepR(Call(r)) \in Nat
<1>1. op[r] \in 1 .. Len(calls)
  BY DEF TypeOK
<1>2. Call(r) \in CallRecords
  BY <1>1 DEF TypeOK, Call
<1>3. [kind |-> Call(r).kind, n |-> Call(r).n] \in CallSet
  BY <1>1 DEF CallsOK, Call
<1>4. Call(r).kind = "read" => Call(r).n \in Rank
  BY <1>2, <1>3, CallsAssumption DEF CallRecords
<1>5. IPAS(Call(r).n) \in Nat
  BY <1>2, IPASType DEF CallRecords
<1>6. StepR(Call(r)) \in Nat
  BY <1>5, RankType DEF StepR
<1> QED
  BY <1>1, <1>2, <1>3, <1>4, <1>6 DEF CallRecords

(* The place of a task whose variables do not change stays right. *)
LEMMA ControlFrame ==
  ASSUME NEW x \in Rank, Control(x),
         pc'[x] = pc[x], jp'[x] = jp[x], op'[x] = op[x], todo'[x] = todo[x],
         pc[x] # "idle" => calls'[op[x]] = calls[op[x]]
  PROVE  Control(x)'
  BY DEF Control, Sending, Receiving, Sources, Call, IsExchange, IsCover

LEMMA InitBase == Init => Base
<1> SUFFICES ASSUME Init PROVE Base
  OBVIOUS
<1> USE RankType
<1>1. TypeOK
  BY CallsAssumption, TasksAssumption DEF Init, TypeOK, Zero, Slices, Whole, Messages
<1>2. CallsOK /\ PositionOK /\ ControlOK
  BY DEF Init, CallsOK, PositionOK, ControlOK, Control
<1> QED
  BY <1>1, <1>2 DEF Base
-----------------------------------------------------------------------------
(* Every step keeps the types and the control: one lemma per action. *)

LEMMA LengthType == ASSUME NEW S, NEW q \in Seq(S) PROVE Len(q) \in Nat
  OBVIOUS

LEMMA EnterBase ==
  ASSUME Base, NEW r \in Rank, NEW c, EnterCall(r, c),
         c.kind \in Kinds, c.n \in Nat, c.kind = "read" => c.n \in Rank,
         calls' \in Seq(CallRecords),
         CallsOK', Len(calls) <= Len(calls'), op[r] <= Len(calls'),
         \A k \in 1 .. Len(calls) : calls'[k] = calls[k],
         calls'[op[r]].kind = c.kind, calls'[op[r]].n = c.n
  PROVE  Base'
<1> USE RankType DEF Base
<1>0. /\ Len(calls) \in Nat /\ Len(calls') \in Nat
      /\ \A x \in Rank : op[x] \in Nat \ {0} /\ op'[x] = op[x]
      /\ \A x \in Rank \ {r} : pc'[x] = pc[x]
  <2>1. Len(calls) \in Nat /\ Len(calls') \in Nat
    <3>1. calls \in Seq(CallRecords)
      BY DEF TypeOK
    <3> QED
      BY <3>1, LengthType
  <2>2. op \in [Rank -> Nat \ {0}] /\ pc \in [Rank -> {"idle", "bcast", "pass", "send", "recv"}]
    BY DEF TypeOK
  <2>3. UNCHANGED op /\ \A x \in Rank \ {r} : pc'[x] = pc[x]
    BY <2>2 DEF EnterCall
  <2> QED
    BY <2>1, <2>2, <2>3
<1>1. \A w \in Nat : NextW(c, w) \in Nat
  BY DEF NextW, OutputW
<1>2. pc'[r] \in {"bcast", "pass", "send", "recv"} /\ pc' = [pc EXCEPT ![r] = pc'[r]]
  BY DEF EnterCall, TypeOK, Kinds, IsExchange
<1>3. todo'[r] \in SUBSET Rank /\ todo' = [todo EXCEPT ![r] = todo'[r]]
  BY DEF EnterCall, TypeOK, AllTasks, Rank
<1>4. TypeOK'
  <2>1. pc' \in [Rank -> {"idle", "bcast", "pass", "send", "recv"}]
    BY <1>2 DEF TypeOK
  <2>2. todo' \in [Rank -> SUBSET Rank]
    BY <1>3 DEF TypeOK
  <2>3. jp' \in [Rank -> Nat]
    BY DEF EnterCall, TypeOK
  <2>4. idxW' \in [Rank -> Nat]
    <3>1. idxW' = [idxW EXCEPT ![r] = NextW(c, idxW[r])] /\ idxW \in [Rank -> Nat]
      BY DEF EnterCall, TypeOK
    <3>2. NextW(c, idxW[r]) \in Nat
      BY <1>1, <3>1
    <3> QED
      BY <3>1, <3>2
  <2>5. iflag' \in [Rank -> BOOLEAN]
    <3> DEFINE b == c.kind = "coverH" /\ r # NPIO /\ nindex[r]
    <3>1. iflag' = [iflag EXCEPT ![r] = b] /\ iflag \in [Rank -> BOOLEAN]
      BY DEF EnterCall, TypeOK
    <3>2. b \in BOOLEAN
      OBVIOUS
    <3> HIDE DEF b
    <3> QED
      BY <3>1, <3>2
  <2> QED
    BY <2>1, <2>2, <2>3, <2>4, <2>5 DEF EnterCall, TypeOK
<1>5. PositionOK'
  BY <1>0, <1>2 DEF PositionOK
<1>6. Control(r)'
  <2>1. Call(r)'.kind = c.kind /\ Call(r)'.n = c.n
    BY DEF EnterCall, Call
  <2>2. c.kind # "read" \/ c.n \in Rank
    OBVIOUS
  <2>3. jp'[r] = (IF IsCover(c) THEN 1 ELSE 0)
    BY DEF EnterCall, TypeOK
  <2>4. CASE c.kind \in {"scalar", "coverH", "coverA"}
    <3>1. pc'[r] \in {"bcast", "pass"} /\ (pc'[r] = "bcast" => c.kind # "coverA")
                                    /\ (pc'[r] = "pass" => c.kind # "scalar")
      BY <2>4 DEF EnterCall, TypeOK, IsExchange
    <3> QED
      BY <2>1, <2>3, <2>4, <3>1 DEF Control, IsCover
  <2>5. CASE c.kind \in {"read", "write"}
    <3>1. /\ jp'[r] = 0 /\ pc'[r] \in {"send", "recv"}
          /\ c.kind = "read"  => IF r = c.n THEN pc'[r] = "send"
                                ELSE pc'[r] = "recv" /\ todo'[r] = {c.n}
          /\ c.kind = "write" => IF r = NPIO THEN pc'[r] = "recv"
                                ELSE pc'[r] = "send" /\ todo'[r] = {NPIO}
      BY <2>3, <2>5 DEF EnterCall, TypeOK, IsExchange, IsCover
    <3> QED
      BY <2>1, <2>5, <3>1 DEF Control, IsCover, Sending, Receiving
  <2>6. CASE IsExchange(c)
    <3>1. jp'[r] = 0 /\ pc'[r] = "send"
      BY <2>3, <2>6 DEF EnterCall, TypeOK, IsExchange, IsCover
    <3> QED
      BY <2>1, <2>6, <3>1 DEF Control, IsCover, IsExchange, Sending
  <2> QED
    BY <2>4, <2>5, <2>6 DEF Kinds, IsExchange
<1>7. ASSUME NEW x \in Rank, x # r PROVE Control(x)'
  <2>1. pc'[x] = pc[x] /\ jp'[x] = jp[x] /\ op'[x] = op[x] /\ todo'[x] = todo[x]
    BY <1>7 DEF EnterCall, TypeOK
  <2>2. pc[x] # "idle" => calls'[op[x]] = calls[op[x]]
    <3> SUFFICES ASSUME pc[x] # "idle" PROVE calls'[op[x]] = calls[op[x]]
      OBVIOUS
    <3>1. op[x] <= Len(calls)
      BY DEF PositionOK
    <3>2. op[x] \in 1 .. Len(calls)
      BY <1>0, <3>1
    <3> QED
      BY <3>2
  <2> QED
    BY <2>1, <2>2, ControlFrame DEF ControlOK
<1> QED
  BY <1>4, <1>5, <1>6, <1>7 DEF ControlOK

LEMMA FirstCallBase == ASSUME Base, NEW r \in Rank, FirstCall(r) PROVE Base'
<1>1. PICK c \in CallSet :
        /\ calls' = Append(calls, [kind |-> c.kind, n |-> c.n,
                                   idxR |-> idxR[r], idxW |-> idxW[r]])
        /\ EnterCall(r, c)
  BY DEF FirstCall
<1>2. c \in [kind : Kinds, n : Nat] /\ (c.kind = "read" => c.n \in Rank)
  BY CallsAssumption
<1>3. calls \in Seq(CallRecords)
  BY DEF Base, TypeOK
<1>4. [kind |-> c.kind, n |-> c.n, idxR |-> idxR[r], idxW |-> idxW[r]] \in CallRecords
  BY <1>2 DEF Base, TypeOK, CallRecords
<1>5. op[r] = Len(calls) + 1
  BY DEF FirstCall
<1>6. calls' \in Seq(CallRecords) /\ Len(calls') = Len(calls) + 1
  BY <1>1, <1>3, <1>4
<1>7. /\ \A k \in 1 .. Len(calls) : calls'[k] = calls[k]
      /\ calls'[op[r]] = [kind |-> c.kind, n |-> c.n, idxR |-> idxR[r], idxW |-> idxW[r]]
  BY <1>1, <1>3, <1>5
<1>8. [kind |-> c.kind, n |-> c.n] = c
  BY <1>2
<1>9. CallsOK'
  <2>1. Len(calls) \in Nat
    BY <1>3
  <2> QED
    BY <1>5, <1>6, <1>7, <1>8, <2>1 DEF Base, CallsOK
<1>11. Len(calls) <= Len(calls') /\ op[r] <= Len(calls')
  BY <1>3, <1>5, <1>6
<1>12. c.kind \in Kinds /\ c.n \in Nat /\ calls'[op[r]].kind = c.kind /\ calls'[op[r]].n = c.n
  BY <1>2, <1>7
<1> QED
  BY <1>1, <1>2, <1>7, <1>9, <1>6, <1>11, <1>12, EnterBase

LEMMA NextCallBase == ASSUME Base, NEW r \in Rank, NextCall(r) PROVE Base'
<1>1. op[r] \in 1 .. Len(calls) /\ EnterCall(r, Call(r)) /\ UNCHANGED calls
  BY DEF NextCall
<1>2. op[r] <= Len(calls) /\ Len(calls) <= Len(calls)
  BY <1>1 DEF Base, TypeOK
<1>3. /\ Call(r).kind \in Kinds /\ Call(r).n \in Nat
      /\ Call(r).kind = "read" => Call(r).n \in Rank
  BY <1>2, CurrentCall DEF Base
<1>4. CallsOK'
  BY <1>1 DEF Base, CallsOK
<1>5. calls' \in Seq(CallRecords)
  BY <1>1 DEF Base, TypeOK
<1>6. calls'[op[r]] = Call(r)
  BY <1>1 DEF Call
<1> QED
  BY <1>1, <1>2, <1>3, <1>4, <1>5, <1>6, EnterBase

(* A step of r inside a call changes the place of r only. *)
LEMMA InsideCall ==
  ASSUME Base, NEW r \in Rank, UNCHANGED calls, TypeOK',
         \A x \in Rank \ {r} : /\ pc'[x] = pc[x] /\ jp'[x] = jp[x]
                               /\ op'[x] = op[x] /\ todo'[x] = todo[x],
         op'[r] <= Len(calls) + 1, pc'[r] # "idle" => op'[r] <= Len(calls),
         Control(r)'
  PROVE  Base'
<1>1. CallsOK' /\ PositionOK'
  BY DEF Base, CallsOK, PositionOK, TypeOK
<1>2. ASSUME NEW x \in Rank, x # r PROVE Control(x)'
  BY <1>2, ControlFrame DEF Base, ControlOK
<1> QED
  BY <1>1, <1>2 DEF Base, ControlOK

(* ... and one that changes no place keeps the control. *)
LEMMA SamePlaces ==
  ASSUME Base, UNCHANGED <<calls, op, pc, jp, todo>>, TypeOK'
  PROVE  Base'
<1>1. CallsOK' /\ PositionOK'
  BY DEF Base, CallsOK, PositionOK
<1>2. ASSUME NEW x \in Rank PROVE Control(x)'
  BY ControlFrame DEF Base, ControlOK
<1> QED
  BY <1>1, <1>2 DEF Base, ControlOK

(* A task that leaves its call is between two calls. *)
LEMMA LeaveBase ==
  ASSUME Base, NEW r \in Rank, LeaveCall(r), UNCHANGED <<calls, todo>>,
         pc[r] # "idle", TypeOK'
  PROVE  Base'
<1>1. op[r] <= Len(calls) /\ op'[r] = op[r] + 1 /\ op[r] \in Nat
  BY DEF Base, PositionOK, LeaveCall, TypeOK
<1>2. Len(calls) \in Nat
  BY DEF Base, TypeOK
<1>3. pc'[r] = "idle" /\ jp'[r] = 0
  BY DEF Base, LeaveCall, TypeOK
<1>4. Control(r)'
  BY <1>3 DEF Control
<1>5. ASSUME NEW x \in Rank \ {r}
      PROVE  pc'[x] = pc[x] /\ jp'[x] = jp[x] /\ op'[x] = op[x] /\ todo'[x] = todo[x]
  BY DEF Base, LeaveCall, TypeOK
<1>6. op'[r] <= Len(calls) + 1 /\ (pc'[r] # "idle" => op'[r] <= Len(calls))
  BY <1>1, <1>2, <1>3
<1> QED
  BY <1>4, <1>5, <1>6, InsideCall
-----------------------------------------------------------------------------
(* Types of the parts of an action. *)

LEMMA InCall ==
  ASSUME Base, NEW r \in Rank, pc[r] # "idle"
  PROVE  /\ op[r] \in 1 .. Len(calls)
         /\ Call(r).kind \in Kinds /\ Call(r).n \in Nat
         /\ Call(r).kind = "read" => Call(r).n \in Rank
         /\ StepR(Call(r)) \in Nat
         /\ IPAS(Call(r).n) \in Nat
         /\ op[r] \in Nat /\ jp[r] \in Nat /\ Len(calls) \in Nat
<1>1. op[r] \in Nat /\ jp[r] \in Nat /\ Len(calls) \in Nat
  BY DEF Base, TypeOK
<1>2. op[r] <= Len(calls)
  BY DEF Base, PositionOK
<1>3. /\ op[r] \in 1 .. Len(calls)
      /\ Call(r).kind \in Kinds /\ Call(r).n \in Nat
      /\ Call(r).kind = "read" => Call(r).n \in Rank
      /\ StepR(Call(r)) \in Nat
  BY <1>2, CurrentCall DEF Base
<1> QED
  BY <1>1, <1>3, IPASType

LEMMA OwnColumnType ==
  ASSUME Base, NEW r \in Rank, pc[r] # "idle"
  PROVE  OwnColumn(r) \in Nat
<1>1. Column(Call(r).n, r, jp[r]) \in Nat
  BY InCall, ColumnType
<1> QED
  BY <1>1, RankType DEF OwnColumn

LEMMA TargetColumnType ==
  ASSUME Base, NEW r \in Rank, NEW s \in Rank, pc[r] # "idle"
  PROVE  TargetColumn(r, s) \in Nat
<1>1. Column(Call(r).n, s, jp[r]) \in Nat
  BY InCall, ColumnType
<1> QED
  BY <1>1, RankType DEF TargetColumn

LEMMA TagType ==
  ASSUME TypeOK, NEW r \in Rank, NEW s \in Rank
  PROVE  Tag(r, s) \in Nat
<1>1. idxW[r] \in Nat /\ idxR[r] \in Nat /\ jp[r] \in Nat /\ s \in Nat
  BY RankType DEF TypeOK
<1> QED
  BY <1>1 DEF Tag

LEMMA SliceType ==
  ASSUME NEW k \in Nat, NEW c \in Nat, NEW p \in 0 .. NPROC
  PROVE  Slice(k, c, p) \in Slices
  BY DEF Slice, Slices

LEMMA PartType == /\ Whole \in 0 .. NPROC
                  /\ Rank \subseteq 0 .. NPROC
                  /\ Zero \in Slices
  BY CallsAssumption DEF Whole, Rank, Zero, Slices

LEMMA MessageType ==
  ASSUME Base, NEW r \in Rank, NEW d \in Rank, NEW v \in Slices,
         NEW ref \in BOOLEAN, NEW sync \in BOOLEAN
  PROVE  Message(r, d, v, ref, sync) \in Messages
<1>1. Tag(r, r) \in Nat
  BY TagType DEF Base
<1>2. sent[r][d] \in Nat /\ op[r] \in Nat /\ jp[r] \in Nat
  BY DEF Base, TypeOK
<1> QED
  BY <1>1, <1>2 DEF Message, Messages

LEMMA PostType ==
  ASSUME TypeOK, NEW m \in Messages, Post(m)
  PROVE  net' \subseteq Messages /\ sent' \in [Rank -> [Rank -> Nat]]
<1>1. m.src \in Rank /\ m.dst \in Rank
  BY DEF Messages
<1>2. net' \subseteq Messages
  BY DEF Post, TypeOK
<1>3. sent' \in [Rank -> [Rank -> Nat]]
  <2>1. sent \in [Rank -> [Rank -> Nat]]
    BY DEF TypeOK
  <2>2. sent' = [sent EXCEPT ![m.src] = [sent[m.src] EXCEPT ![m.dst] = sent[m.src][m.dst] + 1]]
    BY <1>1, <2>1 DEF Post
  <2>3. [sent[m.src] EXCEPT ![m.dst] = sent[m.src][m.dst] + 1] \in [Rank -> Nat]
    BY <1>1, <2>1
  <2> QED
    BY <2>1, <2>2, <2>3
<1> QED
  BY <1>2, <1>3

LEMMA StoreType ==
  ASSUME TypeOK, NEW r \in Rank, NEW c \in Nat, NEW v \in Slices, Store(r, c, v)
  PROVE  got' \in [Rank -> SUBSET Entries]
<1>1. [op |-> op[r], col |-> c, val |-> v] \in Entries
  BY DEF TypeOK, Entries
<1> QED
  BY <1>1 DEF Store, TypeOK

LEMMA ContentType ==
  ASSUME TypeOK, NEW m \in net
  PROVE  Content(m) \in Slices
  BY DEF TypeOK, Messages, Content

LEMMA LeaveType ==
  ASSUME Base, NEW r \in Rank, pc[r] # "idle", LeaveCall(r)
  PROVE  /\ op' \in [Rank -> Nat \ {0}]
         /\ pc' \in [Rank -> {"idle", "bcast", "pass", "send", "recv"}]
         /\ jp' \in [Rank -> Nat]
         /\ idxR' \in [Rank -> Nat]
<1>1. idxR' = [idxR EXCEPT ![r] = idxR[r] + StepR(Call(r))] /\ idxR \in [Rank -> Nat]
  BY DEF Base, LeaveCall, TypeOK
<1>2. idxR[r] + StepR(Call(r)) \in Nat
  BY <1>1, InCall
<1> QED
  BY <1>1, <1>2 DEF Base, LeaveCall, TypeOK

-----------------------------------------------------------------------------

LEMMA BroadcastBase == ASSUME Base, NEW r \in Rank, Broadcast(r) PROVE Base'
<1> USE DEF Base
<1>1. pc[r] = "bcast" /\ UNCHANGED <<calls, todo, idxW, iflag, works, nreq, sent, net>>
  BY DEF Broadcast
<1>2. Call(r).kind \in {"scalar", "coverH"}
  BY <1>1 DEF ControlOK, Control
<1>3. bcast' \subseteq Nat
  <2>1. op[r] \in Nat /\ bcast \subseteq Nat
    BY DEF TypeOK
  <2> QED
    BY <2>1 DEF Broadcast
<1>4. CASE Call(r).kind = "scalar"
  <2>1. Store(r, 1, Slice(op[r], 1, Whole)) /\ LeaveCall(r) /\ UNCHANGED nindex
    BY <1>4 DEF Broadcast
  <2>2. got' \in [Rank -> SUBSET Entries]
    BY <1>1, <2>1, StoreType, SliceType, PartType, InCall
  <2>3. TypeOK'
    BY <1>1, <1>3, <2>1, <2>2, LeaveType DEF TypeOK
  <2> QED
    BY <1>1, <2>1, <2>3, LeaveBase
<1>5. CASE Call(r).kind = "coverH"
  <2>1. /\ nindex' = [nindex EXCEPT ![r] = TRUE]
        /\ pc' = [pc EXCEPT ![r] = "pass"]
        /\ UNCHANGED <<op, jp, idxR, got>>
    BY <1>5 DEF Broadcast
  <2>2. TypeOK'
    BY <1>1, <1>3, <2>1 DEF TypeOK
  <2>3. Control(r)'
    <3>1. pc'[r] = "pass" /\ jp'[r] = jp[r] /\ Call(r)' = Call(r)
      BY <1>1, <2>1 DEF TypeOK, Call
    <3> QED
      BY <1>1, <1>5, <3>1 DEF ControlOK, Control, IsCover
  <2>4. op[r] <= Len(calls) + 1 /\ op[r] <= Len(calls)
    BY <1>1 DEF PositionOK
  <2>5. \A x \in Rank \ {r} : pc'[x] = pc[x]
    BY <2>1 DEF TypeOK
  <2> QED
    BY <1>1, <2>1, <2>2, <2>3, <2>4, <2>5, InsideCall
<1> QED
  BY <1>2, <1>4, <1>5

LEMMA ReadColumnBase == ASSUME Base, NEW r \in Rank, ReadColumn(r) PROVE Base'
<1> USE DEF Base
<1> DEFINE c == Column(Call(r).n, r, jp[r])
<1>1. /\ pc[r] = "pass" /\ jp[r] <= IPAS(Call(r).n) /\ HasColumn(Call(r).n, r, jp[r])
      /\ UNCHANGED <<calls, op, jp, idxR, idxW, nindex, iflag, works, nreq, sent, bcast, net>>
  BY DEF ReadColumn
<1>2. IsCover(Call(r)) /\ jp[r] >= 1
  BY <1>1 DEF ControlOK, Control
<1>3. c \in Nat
  BY <1>1, InCall, ColumnType
<1>4. Sources(r, jp[r]) \subseteq Rank /\ AllTasks \subseteq Rank /\ NPIO \in Rank
  BY RankType DEF Sources, AllTasks, Rank
<1>5. Call(r)' = Call(r) /\ Sources(r, jp[r])' = Sources(r, jp[r])
  BY <1>1 DEF Call, Sources
<1>6. CASE Call(r).kind = "coverA" /\ r = NPIO
  <2>1. /\ Store(r, c, Slice(op[r], c, Whole))
        /\ pc' = [pc EXCEPT ![r] = "recv"]
        /\ todo' = [todo EXCEPT ![r] = Sources(r, jp[r])]
    BY <1>6 DEF ReadColumn
  <2>2. got' \in [Rank -> SUBSET Entries]
    BY <1>1, <1>3, <2>1, StoreType, SliceType, PartType, InCall
  <2>3. TypeOK'
    BY <1>1, <1>4, <2>1, <2>2 DEF TypeOK
  <2>4. pc'[r] = "recv" /\ todo'[r] = Sources(r, jp[r])
    BY <2>1 DEF TypeOK
  <2>5. Control(r)'
    BY <1>1, <1>2, <1>5, <1>6, <2>4 DEF Control, Receiving
  <2> QED
    BY <1>1, <2>1, <2>3, <2>5, InsideCall DEF PositionOK, TypeOK
<1>7. CASE ~(Call(r).kind = "coverA" /\ r = NPIO)
  <2>1. /\ pc' = [pc EXCEPT ![r] = "send"]
        /\ todo' = [todo EXCEPT ![r] = IF Call(r).kind = "coverH" THEN AllTasks ELSE {NPIO}]
        /\ UNCHANGED got
    BY <1>7 DEF ReadColumn
  <2>2. TypeOK'
    BY <1>1, <1>4, <2>1 DEF TypeOK
  <2>3. pc'[r] = "send" /\ (Call(r).kind = "coverA" => todo'[r] = {NPIO})
    BY <2>1 DEF TypeOK
  <2>4. Control(r)'
    BY <1>1, <1>2, <1>5, <1>7, <2>3 DEF Control, Sending, IsCover
  <2> QED
    BY <1>1, <2>1, <2>2, <2>4, InsideCall DEF PositionOK, TypeOK
<1> QED
  BY <1>6, <1>7

LEMMA NoColumnBase == ASSUME Base, NEW r \in Rank, NoColumn(r) PROVE Base'
<1> USE DEF Base
<1>1. /\ pc[r] = "pass" /\ jp[r] <= IPAS(Call(r).n)
      /\ UNCHANGED <<calls, op, idxR, idxW, nindex, iflag, works, nreq, sent, bcast, net, got>>
  BY DEF NoColumn
<1>2. IsCover(Call(r)) /\ jp[r] >= 1 /\ jp[r] \in Nat
  BY <1>1, InCall DEF ControlOK, Control
<1>3. Sources(r, jp[r]) \subseteq Rank
  BY DEF Sources
<1>4. Call(r)' = Call(r)
  BY <1>1 DEF Call
<1>5. CASE Call(r).kind = "coverH" \/ r = NPIO
  <2>1. /\ pc' = [pc EXCEPT ![r] = "recv"] /\ UNCHANGED jp
        /\ todo' = [todo EXCEPT ![r] = Sources(r, jp[r])]
    BY <1>5 DEF NoColumn
  <2>2. TypeOK'
    BY <1>1, <1>3, <2>1 DEF TypeOK
  <2>3. pc'[r] = "recv" /\ todo'[r] = Sources(r, jp[r])' /\ jp'[r] = jp[r]
    BY <1>1, <2>1 DEF TypeOK, Sources, Call
  <2>4. Control(r)'
    BY <1>1, <1>2, <1>4, <1>5, <2>3 DEF Control, Receiving, IsCover
  <2> QED
    BY <1>1, <2>1, <2>2, <2>4, InsideCall DEF PositionOK, TypeOK
<1>6. CASE ~(Call(r).kind = "coverH" \/ r = NPIO)
  <2>1. jp' = [jp EXCEPT ![r] = @ + 1] /\ UNCHANGED <<pc, todo>>
    BY <1>6 DEF NoColumn
  <2>2. TypeOK'
    BY <1>1, <2>1 DEF TypeOK
  <2>3. pc'[r] = "pass" /\ jp'[r] = jp[r] + 1
    BY <1>1, <2>1 DEF TypeOK
  <2>4. Control(r)'
    BY <1>2, <1>4, <2>3 DEF Control, IsCover
  <2> QED
    BY <1>1, <2>1, <2>2, <2>4, InsideCall DEF PositionOK, TypeOK
<1> QED
  BY <1>5, <1>6

LEMMA EndColumnsBase == ASSUME Base, NEW r \in Rank, EndColumns(r) PROVE Base'
<1>1. /\ pc[r] = "pass" /\ LeaveCall(r)
      /\ UNCHANGED <<calls, todo, idxW, iflag, works, nreq, sent, bcast, net, got>>
  BY DEF EndColumns
<1>2. nindex' \in [Rank -> BOOLEAN]
  <2> DEFINE b == nindex[r] /\ ~(r # NPIO /\ Call(r).kind = "coverH" /\ ~iflag[r])
  <2>1. nindex' = [nindex EXCEPT ![r] = b] /\ nindex \in [Rank -> BOOLEAN]
    BY DEF EndColumns, Base, TypeOK
  <2>2. b \in BOOLEAN
    OBVIOUS
  <2> HIDE DEF b
  <2> QED
    BY <2>1, <2>2
<1>3. TypeOK'
  BY <1>1, <1>2, LeaveType DEF Base, TypeOK
<1> QED
  BY <1>1, <1>3, LeaveBase

(* A send or a receive only shrinks the set of tasks still to serve. *)
LEMMA ShrinkBase ==
  ASSUME Base, NEW r \in Rank, NEW d \in Rank, pc[r] \in {"send", "recv"},
         todo' = [todo EXCEPT ![r] = @ \ {d}],
         UNCHANGED <<calls, op, pc, jp>>, TypeOK'
  PROVE  Base'
<1> USE DEF Base
<1>1. Control(r)
  BY DEF ControlOK
<1>2. todo'[r] \subseteq todo[r]
  BY DEF TypeOK
<1>3. Call(r)' = Call(r) /\ Sources(r, jp[r])' = Sources(r, jp[r])
  BY DEF Call, Sources
<1>4. Control(r)'
  <2>1. Sending(r) => Sending(r)'
    BY <1>2, <1>3 DEF Sending
  <2>2. Receiving(r) => Receiving(r)'
    BY <1>2, <1>3 DEF Receiving
  <2> QED
    BY <1>1, <1>3, <2>1, <2>2 DEF Control
<1>5. \A x \in Rank \ {r} : todo'[x] = todo[x]
  BY DEF TypeOK
<1> QED
  BY <1>4, <1>5, InsideCall DEF PositionOK

(* What the send of one slice does to the buffer and to the network. *)
LEMMA PackAndSendType ==
  ASSUME Base, NEW r \in Rank, NEW d \in Rank, PackAndSend(r, d)
  PROVE  /\ works' \in [Rank -> [Rank -> Slices]]
         /\ net' \subseteq Messages
         /\ sent' \in [Rank -> [Rank -> Nat]]
         /\ nreq' \in [Rank -> [1 .. NPROC-1 -> 0 .. NPROC]]
<1> USE DEF Base
<1> DEFINE packed == IF nindex[r] THEN Slice(op[r], OwnColumn(r), d) ELSE Zero
<1>1. pc[r] = "send"
  BY DEF PackAndSend
<1>2. packed \in Slices
  <2>1. Slice(op[r], OwnColumn(r), d) \in Slices
    BY <1>1, InCall, OwnColumnType, SliceType, PartType
  <2> QED
    BY <2>1, PartType
<1>3. /\ works' = [works EXCEPT ![r][d] = packed]
      /\ \/ UNCHANGED <<net, sent, nreq>>
         \/ /\ Post(Message(r, d, Zero, TRUE, FALSE))
            /\ nreq' = [nreq EXCEPT ![r][IREQ(r, d)] = d]
         \/ /\ \E sync \in BOOLEAN : Post(Message(r, d, packed, FALSE, sync))
            /\ UNCHANGED nreq
  BY DEF PackAndSend
<1> HIDE DEF packed
<1>4. works' \in [Rank -> [Rank -> Slices]]
  <2>1. works' = [works EXCEPT ![r] = [works[r] EXCEPT ![d] = packed]]
    BY <1>3 DEF TypeOK
  <2>2. [works[r] EXCEPT ![d] = packed] \in [Rank -> Slices]
    BY <1>2 DEF TypeOK
  <2> QED
    BY <2>1, <2>2 DEF TypeOK
<1>5. nreq' \in [Rank -> [1 .. NPROC-1 -> 0 .. NPROC]]
  <2>1. nreq \in [Rank -> [1 .. NPROC-1 -> 0 .. NPROC]]
    BY DEF TypeOK
  <2>2. CASE UNCHANGED nreq
    BY <2>1, <2>2
  <2>3. CASE nreq' = [nreq EXCEPT ![r][IREQ(r, d)] = d]
    <3>1. nreq' = [nreq EXCEPT ![r] = [nreq[r] EXCEPT ![IREQ(r, d)] = d]]
      BY <2>1, <2>3
    <3>2. [nreq[r] EXCEPT ![IREQ(r, d)] = d] \in [1 .. NPROC-1 -> 0 .. NPROC]
      BY <2>1, PartType
    <3> QED
      BY <2>1, <3>1, <3>2
  <2> QED
    BY <1>3, <2>2, <2>3
<1>6. net' \subseteq Messages /\ sent' \in [Rank -> [Rank -> Nat]]
  <2>1. CASE UNCHANGED <<net, sent>>
    BY <2>1 DEF TypeOK
  <2>2. CASE Post(Message(r, d, Zero, TRUE, FALSE))
    BY <2>2, PartType, MessageType, PostType
  <2>3. CASE \E sync \in BOOLEAN : Post(Message(r, d, packed, FALSE, sync))
    BY <1>2, <2>3, MessageType, PostType
  <2> QED
    BY <1>3, <2>1, <2>2, <2>3
<1> QED
  BY <1>4, <1>5, <1>6

LEMMA PackAndSendBase ==
  ASSUME Base, NEW r \in Rank, NEW d \in Rank, PackAndSend(r, d) PROVE Base'
<1>1. /\ pc[r] = "send" /\ todo' = [todo EXCEPT ![r] = @ \ {d}]
      /\ UNCHANGED <<calls, op, pc, jp, idxR, idxW, nindex, iflag, bcast, got>>
  BY DEF PackAndSend
<1>2. todo' \in [Rank -> SUBSET Rank]
  BY <1>1 DEF Base, TypeOK
<1>3. TypeOK'
  BY <1>1, <1>2, PackAndSendType DEF Base, TypeOK
<1> QED
  BY <1>1, <1>3, ShrinkBase

LEMMA SendToPIOBase == ASSUME Base, NEW r \in Rank, SendToPIO(r) PROVE Base'
<1> DEFINE v == Slice(op[r], OwnColumn(r), IF Call(r).kind = "write" THEN r ELSE Whole)
<1>1. /\ pc[r] = "send" /\ todo[r] = {NPIO} /\ todo' = [todo EXCEPT ![r] = {}]
      /\ UNCHANGED <<calls, op, pc, jp, idxR, idxW, nindex, iflag, works, nreq, bcast, got>>
  BY DEF SendToPIO
<1>2. v \in Slices
  BY <1>1, InCall, OwnColumnType, SliceType, PartType
<1>3. PICK sync \in BOOLEAN : Post(Message(r, NPIO, v, FALSE, sync))
  BY DEF SendToPIO
<1> HIDE DEF v
<1>4. net' \subseteq Messages /\ sent' \in [Rank -> [Rank -> Nat]]
  BY <1>2, <1>3, MessageType, PostType, RankType DEF Base
<1>5. todo' \in [Rank -> SUBSET Rank] /\ todo' = [todo EXCEPT ![r] = @ \ {NPIO}]
  BY <1>1 DEF Base, TypeOK
<1>6. TypeOK'
  BY <1>1, <1>4, <1>5 DEF Base, TypeOK
<1> QED
  BY <1>1, <1>5, <1>6, RankType, ShrinkBase

LEMMA EndSendBase == ASSUME Base, NEW r \in Rank, EndSend(r) PROVE Base'
<1> USE DEF Base
<1>1. /\ pc[r] = "send" /\ todo[r] = {}
      /\ UNCHANGED <<calls, idxW, nindex, iflag, works, nreq, sent, bcast, net>>
  BY DEF EndSend
<1>2. Control(r) /\ Sending(r)
  BY <1>1 DEF ControlOK, Control
<1>3. works[r][r] \in Slices
  BY DEF TypeOK
<1>4. AllTasks \subseteq Rank /\ Sources(r, jp[r]) \subseteq Rank
  BY DEF AllTasks, Rank, Sources
<1>6. CASE Call(r).kind = "read"
  <2>1. Store(r, 1, works[r][r]) /\ LeaveCall(r) /\ UNCHANGED todo
    BY <1>6 DEF EndSend, IsExchange
  <2>2. got' \in [Rank -> SUBSET Entries]
    BY <1>3, <2>1, StoreType
  <2>3. TypeOK'
    BY <1>1, <2>1, <2>2, LeaveType DEF TypeOK
  <2> QED
    BY <1>1, <2>1, <2>3, LeaveBase
<1>7. CASE Call(r).kind = "write"
  <2>1. LeaveCall(r) /\ UNCHANGED <<todo, got>>
    BY <1>7 DEF EndSend, IsExchange
  <2>2. TypeOK'
    BY <1>1, <2>1, LeaveType DEF TypeOK
  <2> QED
    BY <1>1, <2>1, <2>2, LeaveBase
<1>8. CASE Call(r).kind = "coverH"
  <2>1. /\ Store(r, OwnColumn(r), works[r][r])
        /\ pc' = [pc EXCEPT ![r] = "recv"]
        /\ todo' = [todo EXCEPT ![r] = Sources(r, jp[r])]
        /\ UNCHANGED <<op, jp, idxR>>
    BY <1>8 DEF EndSend, IsExchange
  <2>2. got' \in [Rank -> SUBSET Entries]
    BY <1>1, <1>3, <2>1, StoreType, OwnColumnType
  <2>3. TypeOK'
    BY <1>1, <1>4, <2>1, <2>2 DEF TypeOK
  <2>4. /\ pc'[r] = "recv" /\ jp'[r] = jp[r] /\ Call(r)' = Call(r)
        /\ todo'[r] = Sources(r, jp[r])'
    BY <1>1, <2>1 DEF TypeOK, Sources, Call
  <2>5. Control(r)'
    BY <1>1, <1>2, <1>8, <2>4 DEF Control, Receiving
  <2> QED
    BY <1>1, <2>1, <2>3, <2>5, InsideCall DEF PositionOK, TypeOK
<1>9. CASE IsExchange(Call(r))
  <2>1. /\ pc' = [pc EXCEPT ![r] = "recv"]
        /\ todo' = [todo EXCEPT ![r] = AllTasks]
        /\ UNCHANGED <<op, jp, idxR, got>>
    BY <1>9 DEF EndSend, IsExchange
  <2>2. TypeOK'
    BY <1>1, <1>4, <2>1 DEF TypeOK
  <2>3. pc'[r] = "recv" /\ jp'[r] = jp[r] /\ Call(r)' = Call(r)
    BY <1>1, <2>1 DEF TypeOK, Call
  <2>4. Control(r)'
    BY <1>1, <1>2, <1>9, <2>3 DEF Control, Receiving, IsExchange
  <2> QED
    BY <1>1, <2>1, <2>2, <2>4, InsideCall DEF PositionOK, TypeOK
<1>10. CASE Call(r).kind = "coverA"
  <2>1. /\ pc' = [pc EXCEPT ![r] = "pass"] /\ jp' = [jp EXCEPT ![r] = @ + 1]
        /\ UNCHANGED <<op, todo, idxR, got>>
    BY <1>10 DEF EndSend, IsExchange
  <2>2. TypeOK'
    BY <1>1, <2>1 DEF TypeOK
  <2>3. /\ pc'[r] = "pass" /\ jp'[r] = jp[r] + 1 /\ jp[r] \in Nat
        /\ Call(r)' = Call(r)
    BY <1>1, <2>1 DEF TypeOK, Call
  <2>4. Control(r)'
    BY <1>10, <2>3 DEF Control, IsCover
  <2> QED
    BY <1>1, <2>1, <2>2, <2>4, InsideCall DEF PositionOK, TypeOK
<1> QED
  BY <1>2, <1>6, <1>7, <1>8, <1>9, <1>10 DEF Sending

LEMMA ReceiveBase ==
  ASSUME Base, NEW r \in Rank, NEW s \in Rank, Receive(r, s) PROVE Base'
<1>1. /\ pc[r] = "recv" /\ todo' = [todo EXCEPT ![r] = @ \ {s}]
      /\ UNCHANGED <<calls, op, pc, jp, idxR, idxW, nindex, iflag, works, nreq, sent, bcast>>
  BY DEF Receive
<1>2. net' \subseteq Messages
  BY DEF Receive, Base, TypeOK
<1>3. got' \in [Rank -> SUBSET Entries]
  <2>1. CASE s = r
    <3>1. Store(r, s, Slice(op[r], OwnColumn(r), r))
      BY <2>1 DEF Receive
    <3> QED
      BY <1>1, <3>1, StoreType, SliceType, PartType, OwnColumnType, InCall, RankType DEF Base
  <2>2. CASE s # r
    <3>1. PICK m \in net : Store(r, TargetColumn(r, s), Content(m))
      BY <2>2 DEF Receive, Oldest, Matching
    <3> QED
      BY <1>1, <3>1, StoreType, TargetColumnType, ContentType DEF Base
  <2> QED
    BY <2>1, <2>2
<1>4. todo' \in [Rank -> SUBSET Rank]
  BY <1>1 DEF Base, TypeOK
<1>5. TypeOK'
  BY <1>1, <1>2, <1>3, <1>4 DEF Base, TypeOK
<1> QED
  BY <1>1, <1>5, ShrinkBase

LEMMA EndReceiveBase == ASSUME Base, NEW r \in Rank, EndReceive(r) PROVE Base'
<1> USE DEF Base
<1>1. /\ pc[r] = "recv"
      /\ UNCHANGED <<calls, todo, idxW, nindex, iflag, works, nreq, sent, bcast, net, got>>
  BY DEF EndReceive
<1>2. CASE IsCover(Call(r))
  <2>1. /\ pc' = [pc EXCEPT ![r] = "pass"] /\ jp' = [jp EXCEPT ![r] = @ + 1]
        /\ UNCHANGED <<op, idxR>>
    BY <1>2 DEF EndReceive
  <2>2. TypeOK'
    BY <1>1, <2>1 DEF TypeOK
  <2>3. /\ pc'[r] = "pass" /\ jp'[r] = jp[r] + 1 /\ jp[r] \in Nat
        /\ Call(r)' = Call(r)
    BY <1>1, <2>1 DEF TypeOK, Call
  <2>4. Control(r)'
    BY <1>2, <2>3 DEF Control, IsCover
  <2> QED
    BY <1>1, <2>1, <2>2, <2>4, InsideCall DEF PositionOK, TypeOK
<1>3. CASE ~IsCover(Call(r))
  <2>1. LeaveCall(r)
    BY <1>3 DEF EndReceive
  <2>2. TypeOK'
    BY <1>1, <2>1, LeaveType DEF TypeOK
  <2> QED
    BY <1>1, <2>1, <2>2, LeaveBase
<1> QED
  BY <1>2, <1>3

LEMMA CopyOutBase == ASSUME Base, NEW m \in net, CopyOut(m) PROVE Base'
<1>0. m \in Messages /\ works \in [Rank -> [Rank -> Slices]]
  BY DEF Base, TypeOK
<1>1. m \in Messages /\ works[m.src][m.dst] \in Slices
  <2>1. m.src \in Rank /\ m.dst \in Rank
    BY <1>0 DEF Messages
  <2> QED
    BY <1>0, <2>1
<1>2. [m EXCEPT !.ref = FALSE, !.val = works[m.src][m.dst]] \in Messages
  BY <1>1 DEF Messages
<1>3. net' \subseteq Messages
  BY <1>2 DEF CopyOut, Base, TypeOK
<1>4. TypeOK'
  BY <1>3 DEF CopyOut, Base, TypeOK
<1> QED
  BY <1>4, SamePlaces DEF CopyOut

LEMMA StorageReusedBase == ASSUME Base, NEW r \in Rank, StorageReused(r) PROVE Base'
<1>1. works' \in [Rank -> [Rank -> Slices]]
  BY PartType DEF StorageReused, Base, TypeOK
<1>2. TypeOK'
  BY <1>1 DEF StorageReused, Base, TypeOK
<1> QED
  BY <1>2, SamePlaces DEF StorageReused

LEMMA StutterBase == ASSUME Base, UNCHANGED vars PROVE Base'
<1>1. TypeOK'
  BY DEF vars, Base, TypeOK
<1> QED
  BY <1>1, SamePlaces DEF vars

LEMMA NextBase == Base /\ [Next]_vars => Base'
<1> SUFFICES ASSUME Base, [Next]_vars PROVE Base'
  OBVIOUS
<1>1. ASSUME NEW r \in Rank, TaskStep(r) PROVE Base'
  BY <1>1, FirstCallBase, NextCallBase, BroadcastBase, ReadColumnBase,
     NoColumnBase, EndColumnsBase, PackAndSendBase, SendToPIOBase, EndSendBase,
     ReceiveBase, EndReceiveBase DEF TaskStep
<1>2. ASSUME NEW m \in net, CopyOut(m) PROVE Base'
  BY <1>2, CopyOutBase
<1>3. ASSUME NEW r \in Rank, StorageReused(r) PROVE Base'
  BY <1>3, StorageReusedBase
<1>4. CASE UNCHANGED vars
  BY <1>4, StutterBase
<1> QED
  BY <1>1, <1>2, <1>3, <1>4 DEF Next, Finalize

(* Types and control hold in every state, for every number of tasks, every *)
(* set of calls and every number of them: in particular what a task does   *)
(* in a phase of a call fits the call it is in (Control), and a task never *)
(* addresses a task, a column or a request slot outside its arrays.        *)
THEOREM TypeCorrect == Spec => []Base
<1>1. Init => Base
  BY InitBase
<1>2. Base /\ [Next]_vars => Base'
  BY NextBase
<1> QED
  BY <1>1, <1>2, PTL DEF Spec

(* The type invariant of the runs, from the former. *)
THEOREM TypesHold == Spec => []TypeOK
<1>1. Base => TypeOK
  BY DEF Base
<1> QED
  BY <1>1, TypeCorrect, PTL

-----------------------------------------------------------------------------
(* The messages of a round.                                                   *)

(* Task s reads a column in pass j. *)
HasRound(n, s, j) == j >= 1 /\ j <= IPAS(n) /\ HasColumn(n, s, j)

Passes(k) == 0 .. IPAS(calls[k].n)

(* The message from s to d in round (k, j) exists ... *)
Transfer(k, j, s, d) ==
  /\ s # d
  /\ \/ calls[k].kind = "read"   /\ j = 0 /\ s = calls[k].n
     \/ calls[k].kind = "write"  /\ j = 0 /\ d = NPIO
     \/ calls[k].kind = "coverH" /\ HasRound(calls[k].n, s, j)
     \/ calls[k].kind = "coverA" /\ HasRound(calls[k].n, s, j) /\ d = NPIO
     \/ calls[k].kind = "exchange" /\ j = 0

(* ... and this is its tag, the column it fills, and its content. *)
RoundTag(k, j, s) ==
  CASE calls[k].kind = "write"    -> NextW(calls[k], calls[k].idxW)
    [] calls[k].kind = "exchange" -> calls[k].idxR + 1 + s
    [] OTHER                      -> calls[k].idxR + j + 1

RoundColumn(k, j, s) ==
  CASE calls[k].kind \in {"write", "exchange"} -> s
    [] IsCover(calls[k]) -> Column(calls[k].n, s, j)
    [] OTHER -> 1

Earlier(k1, j1, k2, j2) == k1 < k2 \/ (k1 = k2 /\ j1 < j2)

Posted(s, d, k, j) ==
  \/ Earlier(k, j, op[s], jp[s])
  \/ /\ op[s] = k /\ jp[s] = j
     /\ pc[s] = "recv" \/ (pc[s] = "send" /\ d \notin todo[s])

Received(s, d, k, j) ==
  \/ Earlier(k, j, op[d], jp[d])
  \/ op[d] = k /\ jp[d] = j /\ pc[d] = "recv" /\ s \notin todo[d]

(* The tag counters are a function of the position in the program. *)
CallTags == \A k \in 1 .. Len(calls) - 1 :
  /\ calls[k+1].idxR = calls[k].idxR + StepR(calls[k])
  /\ calls[k+1].idxW = NextW(calls[k], calls[k].idxW)

Tags(r) ==
  /\ op[r] <= Len(calls) =>
       /\ idxR[r] = calls[op[r]].idxR
       /\ idxW[r] = IF pc[r] = "idle" THEN calls[op[r]].idxW
                     ELSE NextW(calls[op[r]], calls[op[r]].idxW)
  /\ op[r] = Len(calls) + 1 =>
       IF op[r] = 1 THEN idxR[r] = 0 /\ idxW[r] = 0
       ELSE /\ idxR[r] = calls[op[r]-1].idxR + StepR(calls[op[r]-1])
            /\ idxW[r] = NextW(calls[op[r]-1], calls[op[r]-1].idxW)

TagsOK == CallTags /\ \A r \in Rank : Tags(r)

(* A task that packs columns knows the partition. *)
Nindex(r) ==
  /\ (GSPEC \/ r = NPIO) => nindex[r]
  /\ (pc[r] \in {"pass", "send", "recv"} /\ Call(r).kind = "coverH") => nindex[r]
  /\ (GSPEC /\ pc[r] # "idle" /\ Call(r).kind = "coverH" /\ r # NPIO) => iflag[r]

NindexOK == \A r \in Rank : Nindex(r)

(* A task's own column, packed and not yet stored. *)
Own(r) ==
  (pc[r] = "send" /\ Call(r).kind \in {"read", "coverH"} /\ r \notin todo[r])
     => works[r][r] = Slice(op[r], OwnColumn(r), r)

OwnOK == \A r \in Rank : Own(r)

(* Every message in the network belongs to a round and is on its way. *)
OnItsWay(m) ==
  /\ m.op \in 1 .. Len(calls)
  /\ Transfer(m.op, m.jp, m.src, m.dst)
  /\ m.tag = RoundTag(m.op, m.jp, m.src)
  /\ Posted(m.src, m.dst, m.op, m.jp)
  /\ ~Received(m.src, m.dst, m.op, m.jp)
  /\ m.seq < sent[m.src][m.dst]
  /\ Content(m) = Expected(calls[m.op], m.op, m.dst, RoundColumn(m.op, m.jp, m.src))

NetOK == \A m \in net : OnItsWay(m)

(* A pending MPI_ISEND is of the current pass of its task, which will wait *)
(* for it: it has a slot of NREQ.                                          *)
Awaited(m) ==
  /\ op[m.src] = m.op /\ jp[m.src] = m.jp
  /\ pc[m.src] \in {"send", "recv"}
  /\ Call(m.src).kind \in {"coverH", "exchange"}
  /\ nreq[m.src][IREQ(m.src, m.dst)] = m.dst

PendingOK == \A m \in net : m.ref => Awaited(m)

OrderOK == \A m1, m2 \in net :
  (m1.src = m2.src /\ m1.dst = m2.dst /\ Earlier(m1.op, m1.jp, m2.op, m2.jp))
     => m1.seq < m2.seq

(* No message is lost: one that was posted and not received is there. *)
InFlight == \A s, d \in Rank : \A k \in 1 .. Len(calls) : \A j \in Passes(k) :
  (Transfer(k, j, s, d) /\ Posted(s, d, k, j) /\ ~Received(s, d, k, j))
     => \E m \in net : m.src = s /\ m.dst = d /\ m.op = k /\ m.jp = j

(* Nothing is received before it is posted, nor posted twice. *)
Causal == \A s, d \in Rank : \A k \in 1 .. Len(calls) : \A j \in Passes(k) :
  (Transfer(k, j, s, d) /\ Received(s, d, k, j)) => Posted(s, d, k, j)

UniqueOK == \A m1, m2 \in net :
  (m1.src = m2.src /\ m1.dst = m2.dst /\ m1.op = m2.op /\ m1.jp = m2.jp) => m1 = m2

NetInv == NetOK /\ PendingOK /\ OrderOK /\ UniqueOK /\ InFlight /\ Causal

LocalInv == TagsOK /\ NindexOK /\ OwnOK

Inv == Base /\ LocalInv /\ NetInv /\ Placement

-----------------------------------------------------------------------------
(* What the actions do to the place of their task and to its counters. *)

CallsKept == /\ Len(calls) <= Len(calls')
             /\ \A k \in 1 .. Len(calls) : calls'[k] = calls[k]

Others(r) == \A x \in Rank \ {r} :
  /\ op'[x] = op[x] /\ pc'[x] = pc[x] /\ jp'[x] = jp[x] /\ todo'[x] = todo[x]
  /\ idxR'[x] = idxR[x] /\ idxW'[x] = idxW[x]
  /\ nindex'[x] = nindex[x] /\ iflag'[x] = iflag[x]

(* Entering a call, the first of all tasks or not. *)
LEMMA Entering ==
  ASSUME Base, NEW r \in Rank, FirstCall(r) \/ NextCall(r)
  PROVE  \E c \in CallSet :
           /\ EnterCall(r, c)
           /\ op[r] \in 1 .. Len(calls') /\ op[r] <= Len(calls) + 1
           /\ calls'[op[r]].kind = c.kind /\ calls'[op[r]].n = c.n
           /\ CallsKept
           /\ \/ UNCHANGED calls
              \/ /\ op[r] = Len(calls) + 1 /\ Len(calls') = Len(calls) + 1
                 /\ calls'[op[r]].idxR = idxR[r] /\ calls'[op[r]].idxW = idxW[r]
<1>1. Len(calls) \in Nat /\ op[r] \in Nat \ {0} /\ calls \in Seq(CallRecords)
  BY DEF Base, TypeOK
<1>2. CASE FirstCall(r)
  <2>1. PICK c \in CallSet :
          /\ calls' = Append(calls, [kind |-> c.kind, n |-> c.n,
                                     idxR |-> idxR[r], idxW |-> idxW[r]])
          /\ EnterCall(r, c)
    BY <1>2 DEF FirstCall
  <2>2. op[r] = Len(calls) + 1
    BY <1>2 DEF FirstCall
  <2>3. [kind |-> c.kind, n |-> c.n, idxR |-> idxR[r], idxW |-> idxW[r]] \in CallRecords
    BY CallsAssumption DEF Base, TypeOK, CallRecords
  <2>4. /\ Len(calls') = Len(calls) + 1
        /\ \A k \in 1 .. Len(calls) : calls'[k] = calls[k]
        /\ calls'[op[r]] = [kind |-> c.kind, n |-> c.n, idxR |-> idxR[r], idxW |-> idxW[r]]
    BY <1>1, <2>1, <2>2, <2>3
  <2> QED
    BY <1>1, <2>1, <2>2, <2>4 DEF CallsKept
<1>3. CASE NextCall(r)
  <2>1. op[r] \in 1 .. Len(calls) /\ EnterCall(r, Call(r)) /\ UNCHANGED calls
    BY <1>3 DEF NextCall
  <2> DEFINE c == [kind |-> Call(r).kind, n |-> Call(r).n]
  <2>2. c \in CallSet
    BY <1>1, <2>1, CurrentCall DEF Base
  <2>3. EnterCall(r, c)
    BY <2>1 DEF EnterCall, NextW, OutputW, IsCover, IsExchange
  <2>4. calls'[op[r]].kind = c.kind /\ calls'[op[r]].n = c.n
    BY <2>1 DEF Call
  <2>5. op[r] \in 1 .. Len(calls') /\ op[r] <= Len(calls) + 1 /\ CallsKept
    BY <1>1, <2>1 DEF CallsKept
  <2> HIDE DEF c
  <2> QED
    BY <2>1, <2>2, <2>3, <2>4, <2>5
<1> QED
  BY <1>2, <1>3

LEMMA EnterEffect ==
  ASSUME Base, NEW r \in Rank, NEW c \in CallSet, EnterCall(r, c)
  PROVE  /\ pc[r] = "idle" /\ jp[r] = 0 /\ Others(r)
         /\ UNCHANGED <<op, idxR, nindex, works, nreq, sent, bcast, net, got>>
         /\ pc'[r] # "idle"
         /\ idxW'[r] = NextW(c, idxW[r])
         /\ iflag'[r] = (c.kind = "coverH" /\ r # NPIO /\ nindex[r])
         /\ jp'[r] = (IF IsCover(c) THEN 1 ELSE 0)
         /\ pc'[r] = "send" => /\ c.kind \in {"read", "write"} \/ IsExchange(c)
                               /\ c.kind = "read" => todo'[r] = AllTasks
                               /\ c.kind = "write" => todo'[r] = {NPIO}
                               /\ c.kind = "exchange" => todo'[r] = AllTasks \ {r}
         /\ pc'[r] = "recv" => /\ c.kind \in {"read", "write"}
                               /\ c.kind = "read" => todo'[r] = {c.n}
                               /\ c.kind = "write" => todo'[r] = AllTasks
         /\ pc'[r] = "pass" => /\ IsCover(c)
                               /\ c.kind = "coverH" => NPROC = 1
<1> USE DEF Base
<1>1. c.kind \in Kinds /\ c.n \in Nat
  BY CallsAssumption
<1>2. pc[r] = "idle" /\ jp[r] = 0
  BY DEF EnterCall, ControlOK, Control
<1>3. UNCHANGED <<op, idxR, nindex, works, nreq, sent, bcast, net, got>>
  BY DEF EnterCall
<1>4. Others(r)
  BY DEF EnterCall, TypeOK, Others
<1>5. /\ idxW'[r] = NextW(c, idxW[r])
      /\ jp'[r] = (IF IsCover(c) THEN 1 ELSE 0)
  BY DEF EnterCall, TypeOK
<1>6. iflag'[r] = (c.kind = "coverH" /\ r # NPIO /\ nindex[r])
  <2> DEFINE b == c.kind = "coverH" /\ r # NPIO /\ nindex[r]
  <2>1. iflag' = [iflag EXCEPT ![r] = b] /\ iflag \in [Rank -> BOOLEAN]
    BY DEF EnterCall, TypeOK
  <2> HIDE DEF b
  <2>2. iflag'[r] = b
    BY <2>1
  <2> QED
    BY <2>2 DEF b
<1>7. /\ pc'[r] = CASE c.kind = "scalar" -> "bcast"
                    [] c.kind = "read"   -> IF r = c.n THEN "send" ELSE "recv"
                    [] c.kind = "write"  -> IF r = NPIO THEN "recv" ELSE "send"
                    [] c.kind = "coverH" -> IF NPROC > 1 THEN "bcast" ELSE "pass"
                    [] c.kind = "coverA" -> "pass"
                    [] IsExchange(c)     -> "send"
      /\ todo'[r] = CASE c.kind = "read"  -> IF r = c.n THEN AllTasks ELSE {c.n}
                      [] c.kind = "write" -> IF r = NPIO THEN AllTasks ELSE {NPIO}
                      [] c.kind = "exchange" -> AllTasks \ {r}
                      [] c.kind = "bathy"    -> AllTasks
                      [] OTHER -> {}
  BY DEF EnterCall, TypeOK
<1>8. pc'[r] # "idle"
  BY <1>1, <1>7 DEF Kinds, IsExchange
<1>9. pc'[r] = "send" => /\ c.kind \in {"read", "write"} \/ IsExchange(c)
                         /\ c.kind = "read" => todo'[r] = AllTasks
                         /\ c.kind = "write" => todo'[r] = {NPIO}
                         /\ c.kind = "exchange" => todo'[r] = AllTasks \ {r}
  BY <1>1, <1>7 DEF Kinds, IsExchange
<1>10. pc'[r] = "recv" => /\ c.kind \in {"read", "write"}
                          /\ c.kind = "read" => todo'[r] = {c.n}
                          /\ c.kind = "write" => todo'[r] = AllTasks
  BY <1>1, <1>7 DEF Kinds, IsExchange
<1>11. pc'[r] = "pass" => /\ IsCover(c)
                          /\ c.kind = "coverH" => NPROC = 1
  BY <1>1, <1>7, RankType DEF Kinds, IsExchange, IsCover
<1> QED
  BY <1>2, <1>3, <1>4, <1>5, <1>6, <1>8, <1>9, <1>10, <1>11

(* Leaving a call. *)
LEMMA LeaveEffect ==
  ASSUME Base, NEW r \in Rank, LeaveCall(r),
         UNCHANGED <<calls, todo, idxW, iflag>>,
         \A x \in Rank \ {r} : nindex'[x] = nindex[x]
  PROVE  /\ Others(r)
         /\ op'[r] = op[r] + 1 /\ pc'[r] = "idle" /\ jp'[r] = 0
         /\ idxR'[r] = idxR[r] + StepR(Call(r))
  BY DEF Base, TypeOK, LeaveCall, Others
-----------------------------------------------------------------------------
(* The tag counters. *)

LEMMA CallTypes ==
  ASSUME TypeOK
  PROVE  \A k \in 1 .. Len(calls) :
           /\ calls[k].kind \in Kinds /\ calls[k].n \in Nat
           /\ calls[k].idxR \in Nat /\ calls[k].idxW \in Nat
           /\ StepR(calls[k]) \in Nat
<1> SUFFICES ASSUME NEW k \in 1 .. Len(calls)
             PROVE  /\ calls[k].kind \in Kinds /\ calls[k].n \in Nat
                    /\ calls[k].idxR \in Nat /\ calls[k].idxW \in Nat
                    /\ StepR(calls[k]) \in Nat
  OBVIOUS
<1>1. calls[k] \in CallRecords
  BY DEF TypeOK
<1>2. IPAS(calls[k].n) \in Nat
  BY <1>1, IPASType DEF CallRecords
<1> QED
  BY <1>1, <1>2, RankType DEF CallRecords, StepR

LEMMA TagsEnter ==
  ASSUME Base, TagsOK, NEW r \in Rank, FirstCall(r) \/ NextCall(r)
  PROVE  TagsOK'
<1>1. PICK c \in CallSet :
        /\ EnterCall(r, c)
        /\ op[r] \in 1 .. Len(calls')
        /\ calls'[op[r]].kind = c.kind /\ calls'[op[r]].n = c.n
        /\ CallsKept
        /\ \/ UNCHANGED calls
           \/ /\ op[r] = Len(calls) + 1 /\ Len(calls') = Len(calls) + 1
              /\ calls'[op[r]].idxR = idxR[r] /\ calls'[op[r]].idxW = idxW[r]
  BY Entering
<1>2. /\ pc[r] = "idle" /\ Others(r) /\ UNCHANGED <<op, idxR>>
      /\ pc'[r] # "idle" /\ idxW'[r] = NextW(c, idxW[r])
  BY <1>1, EnterEffect
<1>3. /\ Len(calls) \in Nat
      /\ \A x \in Rank : /\ op[x] \in Nat \ {0} /\ idxR[x] \in Nat /\ idxW[x] \in Nat
                         /\ op[x] <= Len(calls) + 1
                         /\ op[x] = Len(calls) + 1 => pc[x] = "idle"
  BY DEF Base, TypeOK, PositionOK
<1>4. \A w : NextW(calls'[op[r]], w) = NextW(c, w)
  BY <1>1 DEF NextW, OutputW
<1>5. \A x \in Rank : Tags(x)
  BY DEF TagsOK
<1>6. CASE UNCHANGED calls
  <2>0. op[r] \in 1 .. Len(calls) /\ calls[op[r]].idxW \in Nat
    BY <1>1, <1>6, CallTypes DEF Base
  <2>1. Tags(r)'
    BY <1>1, <1>2, <1>3, <1>4, <1>5, <1>6, <2>0 DEF Tags
  <2>2. ASSUME NEW x \in Rank \ {r} PROVE Tags(x)'
    BY <1>2, <1>5, <1>6 DEF Tags, Others
  <2> QED
    BY <1>6, <2>1, <2>2 DEF TagsOK, CallTags
<1>7. CASE /\ op[r] = Len(calls) + 1 /\ Len(calls') = Len(calls) + 1
           /\ calls'[op[r]].idxR = idxR[r] /\ calls'[op[r]].idxW = idxW[r]
  <2>1. Tags(r)'
    BY <1>1, <1>2, <1>3, <1>4, <1>7 DEF Tags
  <2>2. ASSUME NEW x \in Rank \ {r} PROVE Tags(x)'
    <3>1. /\ op'[x] = op[x] /\ pc'[x] = pc[x] /\ idxR'[x] = idxR[x] /\ idxW'[x] = idxW[x]
      BY <1>2 DEF Others
    <3>2. CASE op[x] <= Len(calls)
      <4>1. calls'[op[x]] = calls[op[x]]
        BY <1>1, <1>3, <3>2 DEF CallsKept
      <4> QED
        BY <1>3, <1>5, <1>7, <3>1, <3>2, <4>1 DEF Tags
    <3>3. CASE op[x] = Len(calls) + 1
      <4>1. idxR[x] = idxR[r] /\ idxW[x] = idxW[r] /\ pc[x] = "idle"
        BY <1>3, <1>5, <1>7, <3>3 DEF Tags
      <4> QED
        BY <1>3, <1>7, <3>1, <3>3, <4>1 DEF Tags
    <3> QED
      BY <1>3, <3>2, <3>3
  <2>3. CallTags'
    <3> SUFFICES ASSUME NEW k \in 1 .. Len(calls') - 1
                 PROVE  /\ calls'[k+1].idxR = calls'[k].idxR + StepR(calls'[k])
                        /\ calls'[k+1].idxW = NextW(calls'[k], calls'[k].idxW)
      BY DEF CallTags, StepR, NextW, OutputW, IsCover
    <3>1. calls'[k] = calls[k]
      BY <1>1, <1>3, <1>7 DEF CallsKept
    <3>2. CASE k \in 1 .. Len(calls) - 1
      <4>1. calls'[k+1] = calls[k+1]
        BY <1>1, <1>3, <3>2 DEF CallsKept
      <4> QED
        BY <3>1, <3>2, <4>1 DEF TagsOK, CallTags
    <3>3. CASE k = Len(calls)
      <4>1. idxR[r] = calls[k].idxR + StepR(calls[k]) /\ idxW[r] = NextW(calls[k], calls[k].idxW)
        BY <1>3, <1>5, <1>7, <3>3 DEF Tags
      <4> QED
        BY <1>7, <3>1, <3>3, <4>1
    <3> QED
      BY <1>3, <1>7, <3>2, <3>3
  <2> QED
    BY <2>1, <2>2, <2>3 DEF TagsOK
<1> QED
  BY <1>1, <1>6, <1>7

LEMMA TagsLeave ==
  ASSUME Base, TagsOK, NEW r \in Rank, pc[r] # "idle", LeaveCall(r),
         UNCHANGED <<calls, todo, idxW, iflag>>,
         \A x \in Rank \ {r} : nindex'[x] = nindex[x]
  PROVE  TagsOK'
<1>1. /\ Others(r) /\ op'[r] = op[r] + 1 /\ pc'[r] = "idle"
      /\ idxR'[r] = idxR[r] + StepR(Call(r)) /\ idxW'[r] = idxW[r]
  BY LeaveEffect
<1>2. op[r] \in 1 .. Len(calls) /\ Len(calls) \in Nat
  BY InCall
<1>3. Tags(r) /\ CallTags
  BY DEF TagsOK
<1>4. /\ idxR'[r] = calls[op[r]].idxR + StepR(calls[op[r]])
      /\ idxW'[r] = NextW(calls[op[r]], calls[op[r]].idxW)
  BY <1>1, <1>2, <1>3 DEF Tags, Call
<1>5. calls[op[r]].idxW \in Nat
  BY <1>2, CallTypes DEF Base
<1>6. Tags(r)'
  <2>1. CASE op[r] = Len(calls)
    BY <1>1, <1>2, <1>4, <2>1 DEF Tags
  <2>2. CASE op[r] < Len(calls)
    <3>1. /\ calls[op[r]+1].idxR = calls[op[r]].idxR + StepR(calls[op[r]])
          /\ calls[op[r]+1].idxW = NextW(calls[op[r]], calls[op[r]].idxW)
      BY <1>2, <1>3, <2>2 DEF CallTags
    <3> QED
      BY <1>1, <1>2, <1>4, <1>5, <2>2, <3>1 DEF Tags
  <2> QED
    BY <1>2, <2>1, <2>2
<1>7. ASSUME NEW x \in Rank \ {r} PROVE Tags(x)'
  BY <1>1, <1>7 DEF TagsOK, Tags, Others
<1> QED
  BY <1>3, <1>6, <1>7 DEF TagsOK, CallTags

LEMMA TagsInside ==
  ASSUME TagsOK, UNCHANGED <<calls, op, idxR, idxW>>,
         \A x \in Rank : (pc'[x] = "idle") <=> (pc[x] = "idle")
  PROVE  TagsOK'
<1>1. ASSUME NEW x \in Rank PROVE Tags(x)'
  BY DEF TagsOK, Tags
<1> QED
  BY <1>1 DEF TagsOK, CallTags
-----------------------------------------------------------------------------
(* The other actions, at their task. *)

LEMMA BroadcastEffect ==
  ASSUME Base, NEW r \in Rank, Broadcast(r)
  PROVE  /\ pc[r] = "bcast" /\ Others(r)
         /\ UNCHANGED <<calls, todo, idxW, iflag, works, nreq, sent, net>>
         /\ \/ /\ Call(r).kind = "scalar" /\ LeaveCall(r) /\ UNCHANGED nindex
               /\ Store(r, 1, Slice(op[r], 1, Whole))
            \/ /\ Call(r).kind = "coverH" /\ nindex'[r] = TRUE /\ pc'[r] = "pass"
               /\ UNCHANGED <<op, jp, idxR, got>>
<1> USE DEF Base
<1>1. pc[r] = "bcast" /\ UNCHANGED <<calls, todo, idxW, iflag, works, nreq, sent, net>>
  BY DEF Broadcast
<1>2. Call(r).kind \in {"scalar", "coverH"}
  BY <1>1 DEF ControlOK, Control
<1>3. CASE Call(r).kind = "scalar"
  <2>1. /\ LeaveCall(r) /\ UNCHANGED nindex
        /\ Store(r, 1, Slice(op[r], 1, Whole))
    BY <1>3 DEF Broadcast
  <2>2. Others(r)
    BY <1>1, <2>1, LeaveEffect
  <2> QED
    BY <1>1, <1>3, <2>1, <2>2
<1>4. CASE Call(r).kind = "coverH"
  <2>1. /\ nindex' = [nindex EXCEPT ![r] = TRUE] /\ pc' = [pc EXCEPT ![r] = "pass"]
        /\ UNCHANGED <<op, jp, idxR, got>>
    BY <1>4 DEF Broadcast
  <2>2. nindex'[r] = TRUE /\ pc'[r] = "pass" /\ Others(r)
    BY <1>1, <2>1 DEF TypeOK, Others
  <2> QED
    BY <1>1, <1>4, <2>1, <2>2
<1> QED
  BY <1>2, <1>3, <1>4

LEMMA ReadColumnEffect ==
  ASSUME Base, NEW r \in Rank, ReadColumn(r)
  PROVE  /\ pc[r] = "pass" /\ IsCover(Call(r)) /\ jp[r] >= 1 /\ jp[r] <= IPAS(Call(r).n)
         /\ HasColumn(Call(r).n, r, jp[r]) /\ Others(r)
         /\ UNCHANGED <<calls, op, jp, idxR, idxW, nindex, iflag, works, nreq, sent, net>>
         /\ \/ /\ Call(r).kind = "coverA" /\ r = NPIO
               /\ Store(r, Column(Call(r).n, r, jp[r]),
                           Slice(op[r], Column(Call(r).n, r, jp[r]), Whole))
               /\ pc'[r] = "recv" /\ todo'[r] = Sources(r, jp[r])
            \/ /\ Call(r).kind = "coverA" /\ r # NPIO /\ UNCHANGED got
               /\ pc'[r] = "send" /\ todo'[r] = {NPIO}
            \/ /\ Call(r).kind = "coverH" /\ UNCHANGED got
               /\ pc'[r] = "send" /\ todo'[r] = AllTasks
<1> USE DEF Base
<1>1. /\ pc[r] = "pass" /\ jp[r] <= IPAS(Call(r).n) /\ HasColumn(Call(r).n, r, jp[r])
      /\ UNCHANGED <<calls, op, jp, idxR, idxW, nindex, iflag, works, nreq, sent, net>>
  BY DEF ReadColumn
<1>2. IsCover(Call(r)) /\ jp[r] >= 1
  BY <1>1 DEF ControlOK, Control
<1>3. CASE Call(r).kind = "coverA" /\ r = NPIO
  <2>1. /\ Store(r, Column(Call(r).n, r, jp[r]),
                    Slice(op[r], Column(Call(r).n, r, jp[r]), Whole))
        /\ pc' = [pc EXCEPT ![r] = "recv"]
        /\ todo' = [todo EXCEPT ![r] = Sources(r, jp[r])]
    BY <1>3 DEF ReadColumn
  <2>2. pc'[r] = "recv" /\ todo'[r] = Sources(r, jp[r]) /\ Others(r)
    BY <1>1, <2>1 DEF TypeOK, Others
  <2> QED
    BY <1>1, <1>2, <1>3, <2>1, <2>2
<1>4. CASE ~(Call(r).kind = "coverA" /\ r = NPIO)
  <2>1. /\ pc' = [pc EXCEPT ![r] = "send"] /\ UNCHANGED got
        /\ todo' = [todo EXCEPT ![r] = IF Call(r).kind = "coverH" THEN AllTasks ELSE {NPIO}]
    BY <1>4 DEF ReadColumn
  <2>2. /\ pc'[r] = "send" /\ Others(r)
        /\ todo'[r] = (IF Call(r).kind = "coverH" THEN AllTasks ELSE {NPIO})
    BY <1>1, <2>1 DEF TypeOK, Others
  <2> QED
    BY <1>1, <1>2, <1>4, <2>1, <2>2 DEF IsCover
<1> QED
  BY <1>3, <1>4

LEMMA NoColumnEffect ==
  ASSUME Base, NEW r \in Rank, NoColumn(r)
  PROVE  /\ pc[r] = "pass" /\ IsCover(Call(r)) /\ ~HasColumn(Call(r).n, r, jp[r])
         /\ Others(r)
         /\ UNCHANGED <<calls, op, idxR, idxW, nindex, iflag, works, nreq, sent, net, got>>
         /\ \/ /\ Call(r).kind = "coverH" \/ r = NPIO
               /\ pc'[r] = "recv" /\ todo'[r] = Sources(r, jp[r]) /\ jp'[r] = jp[r]
            \/ /\ Call(r).kind = "coverA" /\ r # NPIO
               /\ pc'[r] = "pass" /\ jp'[r] = jp[r] + 1
<1> USE DEF Base
<1>1. /\ pc[r] = "pass" /\ ~HasColumn(Call(r).n, r, jp[r])
      /\ UNCHANGED <<calls, op, idxR, idxW, nindex, iflag, works, nreq, sent, net, got>>
  BY DEF NoColumn
<1>2. IsCover(Call(r))
  BY <1>1 DEF ControlOK, Control
<1>3. CASE Call(r).kind = "coverH" \/ r = NPIO
  <2>1. /\ pc' = [pc EXCEPT ![r] = "recv"] /\ UNCHANGED jp
        /\ todo' = [todo EXCEPT ![r] = Sources(r, jp[r])]
    BY <1>3 DEF NoColumn
  <2>2. pc'[r] = "recv" /\ todo'[r] = Sources(r, jp[r]) /\ jp'[r] = jp[r] /\ Others(r)
    BY <1>1, <2>1 DEF TypeOK, Others
  <2> QED
    BY <1>1, <1>2, <1>3, <2>2
<1>4. CASE ~(Call(r).kind = "coverH" \/ r = NPIO)
  <2>1. jp' = [jp EXCEPT ![r] = @ + 1] /\ UNCHANGED <<pc, todo>>
    BY <1>4 DEF NoColumn
  <2>2. pc'[r] = "pass" /\ jp'[r] = jp[r] + 1 /\ Others(r)
    BY <1>1, <2>1 DEF TypeOK, Others
  <2> QED
    BY <1>1, <1>2, <1>4, <2>2 DEF IsCover
<1> QED
  BY <1>3, <1>4

LEMMA EndColumnsEffect ==
  ASSUME Base, NEW r \in Rank, EndColumns(r)
  PROVE  /\ pc[r] = "pass" /\ IsCover(Call(r)) /\ jp[r] > IPAS(Call(r).n)
         /\ Others(r) /\ LeaveCall(r)
         /\ UNCHANGED <<calls, todo, idxW, iflag, works, nreq, sent, net, got>>
         /\ nindex'[r] = (nindex[r] /\ ~(r # NPIO /\ Call(r).kind = "coverH" /\ ~iflag[r]))
<1> USE DEF Base
<1>1. /\ pc[r] = "pass" /\ jp[r] > IPAS(Call(r).n) /\ LeaveCall(r)
      /\ UNCHANGED <<calls, todo, idxW, iflag, works, nreq, sent, net, got>>
  BY DEF EndColumns
<1>2. IsCover(Call(r))
  BY <1>1 DEF ControlOK, Control
<1> DEFINE b == nindex[r] /\ ~(r # NPIO /\ Call(r).kind = "coverH" /\ ~iflag[r])
<1>3. nindex' = [nindex EXCEPT ![r] = b] /\ nindex \in [Rank -> BOOLEAN]
  BY DEF EndColumns, TypeOK
<1> HIDE DEF b
<1>4. nindex'[r] = b /\ \A x \in Rank \ {r} : nindex'[x] = nindex[x]
  BY <1>3
<1>5. Others(r)
  BY <1>1, <1>4, LeaveEffect
<1> QED
  BY <1>1, <1>2, <1>4, <1>5 DEF b

LEMMA PackEffect ==
  ASSUME Base, NEW r \in Rank, NEW d \in Rank, PackAndSend(r, d)
  PROVE  /\ pc[r] = "send" /\ d \in todo[r]
         /\ Call(r).kind \in {"read", "coverH", "exchange", "bathy"}
         /\ Others(r) /\ pc'[r] = "send" /\ todo'[r] = todo[r] \ {d}
         /\ UNCHANGED <<calls, op, pc, jp, idxR, idxW, nindex, iflag, got>>
         /\ works'[r][d] = IF nindex[r] THEN Slice(op[r], OwnColumn(r), d) ELSE Zero
         /\ \A x, y \in Rank : (x # r \/ y # d) => works'[x][y] = works[x][y]
         /\ \A x \in Rank \ {r} : works'[x] = works[x]
<1> USE DEF Base
<1>1. /\ pc[r] = "send" /\ d \in todo[r]
      /\ Call(r).kind \in {"read", "coverH", "exchange", "bathy"}
      /\ todo' = [todo EXCEPT ![r] = @ \ {d}]
      /\ UNCHANGED <<calls, op, pc, jp, idxR, idxW, nindex, iflag, got>>
  BY DEF PackAndSend
<1>2. works' = [works EXCEPT ![r][d] = IF nindex[r] THEN Slice(op[r], OwnColumn(r), d) ELSE Zero]
  BY DEF PackAndSend
<1>3. works \in [Rank -> [Rank -> Slices]]
  BY DEF TypeOK
<1>4. /\ works'[r][d] = IF nindex[r] THEN Slice(op[r], OwnColumn(r), d) ELSE Zero
      /\ \A x, y \in Rank : (x # r \/ y # d) => works'[x][y] = works[x][y]
      /\ \A x \in Rank \ {r} : works'[x] = works[x]
  BY <1>2, <1>3
<1>5. Others(r) /\ pc'[r] = "send" /\ todo'[r] = todo[r] \ {d}
  BY <1>1 DEF TypeOK, Others
<1> QED
  BY <1>1, <1>4, <1>5

LEMMA SendEffect ==
  ASSUME Base, NEW r \in Rank, SendToPIO(r)
  PROVE  /\ pc[r] = "send" /\ todo[r] = {NPIO} /\ r # NPIO
         /\ Call(r).kind \in {"write", "coverA"}
         /\ Others(r) /\ pc'[r] = "send" /\ todo'[r] = {}
         /\ UNCHANGED <<calls, op, pc, jp, idxR, idxW, nindex, iflag, works, nreq, got>>
         /\ \E sync \in BOOLEAN :
              Post(Message(r, NPIO,
                           Slice(op[r], OwnColumn(r),
                                 IF Call(r).kind = "write" THEN r ELSE Whole),
                           FALSE, sync))
<1> USE DEF Base
<1>1. /\ pc[r] = "send" /\ todo[r] = {NPIO} /\ Call(r).kind \in {"write", "coverA"}
      /\ todo' = [todo EXCEPT ![r] = {}]
      /\ UNCHANGED <<calls, op, pc, jp, idxR, idxW, nindex, iflag, works, nreq, got>>
  BY DEF SendToPIO
<1>2. r # NPIO
  BY <1>1 DEF ControlOK, Control, Sending, IsExchange
<1>3. Others(r) /\ pc'[r] = "send" /\ todo'[r] = {}
  BY <1>1 DEF TypeOK, Others
<1> QED
  BY <1>1, <1>2, <1>3 DEF SendToPIO

LEMMA EndSendEffect ==
  ASSUME Base, NEW r \in Rank, EndSend(r)
  PROVE  /\ pc[r] = "send" /\ todo[r] = {} /\ Others(r)
         /\ UNCHANGED <<calls, idxW, nindex, iflag, works, nreq, sent, net>>
         /\ \/ /\ Call(r).kind = "read" /\ r = Call(r).n
               /\ Store(r, 1, works[r][r]) /\ LeaveCall(r) /\ UNCHANGED todo
            \/ /\ Call(r).kind = "write" /\ r # NPIO
               /\ LeaveCall(r) /\ UNCHANGED <<todo, got>>
            \/ /\ Call(r).kind = "coverH" /\ HasColumn(Call(r).n, r, jp[r])
               /\ Store(r, OwnColumn(r), works[r][r])
               /\ pc'[r] = "recv" /\ todo'[r] = Sources(r, jp[r])
               /\ UNCHANGED <<op, jp, idxR>>
            \/ /\ IsExchange(Call(r)) /\ pc'[r] = "recv" /\ todo'[r] = AllTasks
               /\ UNCHANGED <<op, jp, idxR, got>>
            \/ /\ Call(r).kind = "coverA" /\ r # NPIO /\ pc'[r] = "pass"
               /\ jp'[r] = jp[r] + 1 /\ UNCHANGED <<op, idxR, got>>
<1> USE DEF Base
<1>1. /\ pc[r] = "send" /\ todo[r] = {}
      /\ UNCHANGED <<calls, idxW, nindex, iflag, works, nreq, sent, net>>
  BY DEF EndSend
<1>2. Sending(r)
  BY <1>1 DEF ControlOK, Control
<1>3. CASE Call(r).kind = "read"
  <2>1. Store(r, 1, works[r][r]) /\ LeaveCall(r) /\ UNCHANGED todo
    BY <1>3 DEF EndSend, IsExchange
  <2>2. Others(r)
    BY <1>1, <2>1, LeaveEffect
  <2> QED
    BY <1>1, <1>2, <1>3, <2>1, <2>2 DEF Sending, IsExchange
<1>4. CASE Call(r).kind = "write"
  <2>1. LeaveCall(r) /\ UNCHANGED <<todo, got>>
    BY <1>4 DEF EndSend, IsExchange
  <2>2. Others(r)
    BY <1>1, <2>1, LeaveEffect
  <2> QED
    BY <1>1, <1>2, <1>4, <2>1, <2>2 DEF Sending, IsExchange
<1>5. CASE Call(r).kind = "coverH"
  <2>1. /\ Store(r, OwnColumn(r), works[r][r]) /\ UNCHANGED <<op, jp, idxR>>
        /\ pc' = [pc EXCEPT ![r] = "recv"]
        /\ todo' = [todo EXCEPT ![r] = Sources(r, jp[r])]
    BY <1>5 DEF EndSend, IsExchange
  <2>2. Others(r) /\ pc'[r] = "recv" /\ todo'[r] = Sources(r, jp[r])
    BY <1>1, <2>1 DEF TypeOK, Others
  <2> QED
    BY <1>1, <1>2, <1>5, <2>1, <2>2 DEF Sending, IsExchange
<1>6. CASE IsExchange(Call(r))
  <2>1. /\ pc' = [pc EXCEPT ![r] = "recv"] /\ todo' = [todo EXCEPT ![r] = AllTasks]
        /\ UNCHANGED <<op, jp, idxR, got>>
    BY <1>6 DEF EndSend, IsExchange
  <2>2. Others(r) /\ pc'[r] = "recv" /\ todo'[r] = AllTasks
    BY <1>1, <2>1 DEF TypeOK, Others
  <2> QED
    BY <1>1, <1>6, <2>1, <2>2
<1>7. CASE Call(r).kind = "coverA"
  <2>1. /\ pc' = [pc EXCEPT ![r] = "pass"] /\ jp' = [jp EXCEPT ![r] = @ + 1]
        /\ UNCHANGED <<op, todo, idxR, got>>
    BY <1>7 DEF EndSend, IsExchange
  <2>2. Others(r) /\ pc'[r] = "pass" /\ jp'[r] = jp[r] + 1
    BY <1>1, <2>1 DEF TypeOK, Others
  <2> QED
    BY <1>1, <1>2, <1>7, <2>1, <2>2 DEF Sending, IsExchange
<1> QED
  BY <1>2, <1>3, <1>4, <1>5, <1>6, <1>7 DEF Sending

LEMMA ReceiveEffect ==
  ASSUME Base, NEW r \in Rank, NEW s \in Rank, Receive(r, s)
  PROVE  /\ pc[r] = "recv" /\ s \in todo[r] /\ Receiving(r)
         /\ Others(r) /\ todo'[r] = todo[r] \ {s}
         /\ UNCHANGED <<calls, op, pc, jp, idxR, idxW, nindex, iflag, works, nreq, sent>>
         /\ \/ /\ s = r /\ Store(r, s, Slice(op[r], OwnColumn(r), r)) /\ UNCHANGED net
            \/ /\ s # r
               /\ \E m \in Oldest(Matching(r, s)) :
                    Store(r, TargetColumn(r, s), Content(m)) /\ net' = net \ {m}
<1>1. /\ pc[r] = "recv" /\ s \in todo[r] /\ todo' = [todo EXCEPT ![r] = @ \ {s}]
      /\ UNCHANGED <<calls, op, pc, jp, idxR, idxW, nindex, iflag, works, nreq, sent>>
  BY DEF Receive
<1>2. Others(r) /\ todo'[r] = todo[r] \ {s}
  BY <1>1 DEF Base, TypeOK, Others
<1>3. Receiving(r)
  BY <1>1 DEF Base, ControlOK, Control
<1>4. \/ /\ s = r /\ Store(r, s, Slice(op[r], OwnColumn(r), r)) /\ UNCHANGED net
      \/ /\ s # r
         /\ \E m \in Oldest(Matching(r, s)) :
              Store(r, TargetColumn(r, s), Content(m)) /\ net' = net \ {m}
  BY DEF Receive
<1> QED
  BY <1>1, <1>2, <1>3, <1>4

LEMMA EndReceiveEffect ==
  ASSUME Base, NEW r \in Rank, EndReceive(r)
  PROVE  /\ pc[r] = "recv" /\ todo[r] = {} /\ Receiving(r) /\ Others(r) /\ WaitAll(r)
         /\ UNCHANGED <<calls, todo, idxW, nindex, iflag, works, nreq, sent, net, got>>
         /\ \/ /\ IsCover(Call(r)) /\ pc'[r] = "pass" /\ jp'[r] = jp[r] + 1
               /\ UNCHANGED <<op, idxR>>
            \/ ~IsCover(Call(r)) /\ LeaveCall(r)
<1> USE DEF Base
<1>1. /\ pc[r] = "recv" /\ todo[r] = {} /\ WaitAll(r)
      /\ UNCHANGED <<calls, todo, idxW, nindex, iflag, works, nreq, sent, net, got>>
  BY DEF EndReceive
<1>2. Receiving(r)
  BY <1>1 DEF ControlOK, Control
<1>3. CASE IsCover(Call(r))
  <2>1. /\ pc' = [pc EXCEPT ![r] = "pass"] /\ jp' = [jp EXCEPT ![r] = @ + 1]
        /\ UNCHANGED <<op, idxR>>
    BY <1>3 DEF EndReceive
  <2>2. Others(r) /\ pc'[r] = "pass" /\ jp'[r] = jp[r] + 1
    BY <1>1, <2>1 DEF TypeOK, Others
  <2> QED
    BY <1>1, <1>2, <1>3, <2>1, <2>2
<1>4. CASE ~IsCover(Call(r))
  <2>1. LeaveCall(r)
    BY <1>4 DEF EndReceive
  <2>2. Others(r)
    BY <1>1, <2>1, LeaveEffect
  <2> QED
    BY <1>1, <1>2, <1>4, <2>1, <2>2
<1> QED
  BY <1>3, <1>4

-----------------------------------------------------------------------------
(* NINDEX and the own column. *)

LEMMA LocalFrame ==
  ASSUME Base, NindexOK, OwnOK, NEW r \in Rank, Others(r), CallsKept,
         \A x \in Rank \ {r} : works'[x] = works[x],
         Nindex(r)', Own(r)'
  PROVE  NindexOK' /\ OwnOK'
<1> SUFFICES ASSUME NEW x \in Rank \ {r} PROVE Nindex(x)' /\ Own(x)'
  BY DEF NindexOK, OwnOK
<1>1. /\ op'[x] = op[x] /\ pc'[x] = pc[x] /\ jp'[x] = jp[x] /\ todo'[x] = todo[x]
      /\ nindex'[x] = nindex[x] /\ iflag'[x] = iflag[x] /\ works'[x] = works[x]
  BY DEF Others
<1>2. Nindex(x) /\ Own(x)
  BY DEF NindexOK, OwnOK
<1>3. pc[x] # "idle" => Call(x)' = Call(x)
  <2> SUFFICES ASSUME pc[x] # "idle" PROVE Call(x)' = Call(x)
    OBVIOUS
  <2>1. op[x] \in 1 .. Len(calls)
    BY InCall
  <2> QED
    BY <1>1, <2>1 DEF CallsKept, Call
<1>4. Nindex(x)'
  BY <1>1, <1>2, <1>3 DEF Nindex
<1>5. Own(x)'
  BY <1>1, <1>2, <1>3 DEF Own, OwnColumn
<1> QED
  BY <1>4, <1>5

LEMMA NoCallLost == ASSUME Base, UNCHANGED calls PROVE CallsKept
<1>1. Len(calls) \in Nat
  BY DEF Base, TypeOK
<1> QED
  BY <1>1 DEF CallsKept

(* A task between two calls has nothing packed. *)
LEMMA LocalIdle ==
  ASSUME Base, NindexOK, OwnOK, NEW r \in Rank, Others(r), CallsKept,
         UNCHANGED works, pc'[r] = "idle", (GSPEC \/ r = NPIO) => nindex'[r]
  PROVE  NindexOK' /\ OwnOK'
<1>1. Nindex(r)' /\ Own(r)'
  BY DEF Nindex, Own
<1> QED
  BY <1>1, LocalFrame

LEMMA LocalEnter ==
  ASSUME Base, LocalInv, NEW r \in Rank, FirstCall(r) \/ NextCall(r)
  PROVE  LocalInv'
<1> USE DEF LocalInv
<1>1. PICK c \in CallSet :
        /\ EnterCall(r, c) /\ CallsKept
        /\ calls'[op[r]].kind = c.kind /\ calls'[op[r]].n = c.n
  BY Entering
<1>2. /\ Others(r) /\ UNCHANGED <<op, nindex, works>>
      /\ iflag'[r] = (c.kind = "coverH" /\ r # NPIO /\ nindex[r])
      /\ pc'[r] = "send" => /\ c.kind \in {"read", "write"} \/ IsExchange(c)
                            /\ c.kind = "read" => todo'[r] = AllTasks
      /\ pc'[r] = "recv" => c.kind \in {"read", "write"}
      /\ pc'[r] = "pass" => (c.kind = "coverH" => NPROC = 1)
  BY <1>1, EnterEffect
<1>3. Call(r)'.kind = c.kind
  BY <1>1, <1>2 DEF Call
<1>4. Nindex(r)'
  <2>1. Nindex(r)
    BY DEF NindexOK
  <2>2. NPROC = 1 => r = NPIO
    BY CallsAssumption DEF Rank
  <2>3. (GSPEC \/ r = NPIO) => nindex'[r]
    BY <1>2, <2>1 DEF Nindex
  <2>4. (pc'[r] \in {"pass", "send", "recv"} /\ c.kind = "coverH") => nindex'[r]
    BY <1>2, <2>2, <2>3 DEF IsExchange
  <2>5. (GSPEC /\ pc'[r] # "idle" /\ c.kind = "coverH" /\ r # NPIO) => iflag'[r]
    BY <1>2, <2>1 DEF Nindex
  <2> QED
    BY <1>3, <2>3, <2>4, <2>5 DEF Nindex
<1>5. Own(r)'
  BY <1>2, <1>3 DEF Own, AllTasks, Rank, IsExchange
<1>6. \A x \in Rank \ {r} : works'[x] = works[x]
  BY <1>2
<1> QED
  BY <1>1, <1>2, <1>4, <1>5, <1>6, LocalFrame, TagsEnter

LEMMA LocalBroadcast ==
  ASSUME Base, LocalInv, NEW r \in Rank, Broadcast(r) PROVE LocalInv'
<1> USE DEF LocalInv
<1>1. /\ pc[r] = "bcast" /\ Others(r)
      /\ UNCHANGED <<calls, todo, idxW, iflag, works>>
      /\ \/ Call(r).kind = "scalar" /\ LeaveCall(r) /\ UNCHANGED nindex
         \/ /\ Call(r).kind = "coverH" /\ nindex'[r] = TRUE /\ pc'[r] = "pass"
            /\ UNCHANGED <<op, jp, idxR>>
  BY BroadcastEffect
<1>2. CallsKept
  BY <1>1, NoCallLost
<1>3. Nindex(r)
  BY DEF NindexOK
<1>4. CASE Call(r).kind = "scalar" /\ LeaveCall(r) /\ UNCHANGED nindex
  <2>1. pc'[r] = "idle"
    BY <1>1, <1>4, LeaveEffect
  <2>2. (GSPEC \/ r = NPIO) => nindex'[r]
    BY <1>3, <1>4 DEF Nindex
  <2> QED
    BY <1>1, <1>2, <1>4, <2>1, <2>2, LocalIdle, TagsLeave
<1>5. CASE /\ Call(r).kind = "coverH" /\ nindex'[r] = TRUE /\ pc'[r] = "pass"
           /\ UNCHANGED <<op, jp, idxR>>
  <2>1. Call(r)' = Call(r) /\ iflag'[r] = iflag[r]
    BY <1>1, <1>5 DEF Call
  <2>2. Nindex(r)'
    BY <1>1, <1>3, <1>5, <2>1 DEF Nindex
  <2>3. Own(r)'
    BY <1>5 DEF Own
  <2>4. TagsOK'
    BY <1>1, <1>5, TagsInside DEF Others
  <2> QED
    BY <1>1, <1>2, <2>2, <2>3, <2>4, LocalFrame
<1> QED
  BY <1>1, <1>4, <1>5

(* A step inside a call that keeps NINDEX and leaves the own column alone,  *)
(* or sends it to nobody.                                                   *)
LEMMA LocalInside ==
  ASSUME Base, LocalInv, NEW r \in Rank, Others(r),
         UNCHANGED <<calls, op, idxR, idxW, nindex, iflag>>,
         pc[r] \in {"pass", "send", "recv"}, pc'[r] \in {"pass", "send", "recv"},
         \A x \in Rank \ {r} : works'[x] = works[x],
         Own(r)'
  PROVE  LocalInv'
<1> USE DEF LocalInv
<1>1. CallsKept
  BY NoCallLost
<1>2. Call(r)' = Call(r) /\ Nindex(r)
  BY DEF Call, NindexOK
<1>3. Nindex(r)'
  BY <1>2 DEF Nindex
<1>4. \A x \in Rank : (pc'[x] = "idle") <=> (pc[x] = "idle")
  BY DEF Others
<1>5. TagsOK'
  BY <1>4, TagsInside
<1> QED
  BY <1>1, <1>3, <1>5, LocalFrame

LEMMA LocalReadColumn ==
  ASSUME Base, LocalInv, NEW r \in Rank, ReadColumn(r) PROVE LocalInv'
<1>1. /\ pc[r] = "pass" /\ Others(r)
      /\ UNCHANGED <<calls, op, jp, idxR, idxW, nindex, iflag, works>>
      /\ \/ pc'[r] = "recv"
         \/ Call(r).kind = "coverA" /\ pc'[r] = "send"
         \/ Call(r).kind = "coverH" /\ pc'[r] = "send" /\ todo'[r] = AllTasks
  BY ReadColumnEffect
<1>2. Call(r)' = Call(r)
  BY <1>1 DEF Call
<1>3. Own(r)'
  BY <1>1, <1>2 DEF Own, AllTasks, Rank
<1> QED
  BY <1>1, <1>3, LocalInside

LEMMA LocalNoColumn ==
  ASSUME Base, LocalInv, NEW r \in Rank, NoColumn(r) PROVE LocalInv'
<1>1. /\ pc[r] = "pass" /\ Others(r) /\ pc'[r] \in {"pass", "recv"}
      /\ UNCHANGED <<calls, op, idxR, idxW, nindex, iflag, works>>
  BY NoColumnEffect
<1>2. Own(r)'
  BY <1>1 DEF Own
<1> QED
  BY <1>1, <1>2, LocalInside

LEMMA LocalEndColumns ==
  ASSUME Base, LocalInv, NEW r \in Rank, EndColumns(r) PROVE LocalInv'
<1> USE DEF LocalInv
<1>1. /\ pc[r] = "pass" /\ IsCover(Call(r)) /\ Others(r) /\ LeaveCall(r)
      /\ UNCHANGED <<calls, todo, idxW, iflag, works>>
      /\ nindex'[r] = (nindex[r] /\ ~(r # NPIO /\ Call(r).kind = "coverH" /\ ~iflag[r]))
  BY EndColumnsEffect
<1>2. CallsKept /\ pc'[r] = "idle"
  BY <1>1, NoCallLost, LeaveEffect DEF Others
<1>3. Nindex(r)
  BY DEF NindexOK
<1>4. (GSPEC \/ r = NPIO) => nindex'[r]
  BY <1>1, <1>3 DEF Nindex
<1>5. NindexOK' /\ OwnOK'
  BY <1>1, <1>2, <1>4, LocalIdle
<1>6. TagsOK'
  BY <1>1, TagsLeave DEF Others
<1> QED
  BY <1>5, <1>6

LEMMA LocalPack ==
  ASSUME Base, LocalInv, NEW r \in Rank, NEW d \in Rank, PackAndSend(r, d)
  PROVE  LocalInv'
<1>1. /\ pc[r] = "send" /\ Others(r) /\ pc'[r] = "send" /\ todo'[r] = todo[r] \ {d}
      /\ UNCHANGED <<calls, op, jp, idxR, idxW, nindex, iflag>>
      /\ works'[r][d] = IF nindex[r] THEN Slice(op[r], OwnColumn(r), d) ELSE Zero
      /\ d # r => works'[r][r] = works[r][r]
      /\ \A x \in Rank \ {r} : works'[x] = works[x]
  BY PackEffect
<1>2. Own(r) /\ Nindex(r)
  BY DEF LocalInv, OwnOK, NindexOK
<1>3. Call(r)' = Call(r) /\ OwnColumn(r)' = OwnColumn(r)
  BY <1>1 DEF Call, OwnColumn
<1>4. Call(r).kind \in {"read", "coverH"} => nindex[r]
  <2>1. ASSUME Call(r).kind = "read" PROVE GSPEC \/ r = NPIO
    <3>1. Sending(r)
      BY <1>1 DEF Base, ControlOK, Control
    <3>2. r = Call(r).n
      BY <2>1, <3>1 DEF Sending, IsExchange
    <3>3. [kind |-> Call(r).kind, n |-> Call(r).n] \in CallSet
      BY <1>1, CurrentCall DEF Base, PositionOK
    <3> QED
      BY <2>1, <3>2, <3>3, TasksAssumption
  <2> QED
    BY <1>1, <1>2, <2>1 DEF Nindex
<1>5. Own(r)'
  <2>1. CASE d = r
    BY <1>1, <1>3, <1>4, <2>1 DEF Own
  <2>2. CASE d # r
    BY <1>1, <1>2, <1>3, <2>2 DEF Own
  <2> QED
    BY <2>1, <2>2
<1> QED
  BY <1>1, <1>5, LocalInside

LEMMA LocalSend ==
  ASSUME Base, LocalInv, NEW r \in Rank, SendToPIO(r) PROVE LocalInv'
<1>1. /\ pc[r] = "send" /\ Others(r) /\ pc'[r] = "send"
      /\ Call(r).kind \in {"write", "coverA"}
      /\ UNCHANGED <<calls, op, idxR, idxW, nindex, iflag, works>>
  BY SendEffect
<1>2. Own(r)'
  BY <1>1 DEF Own, Call
<1> QED
  BY <1>1, <1>2, LocalInside

LEMMA LocalEndSend ==
  ASSUME Base, LocalInv, NEW r \in Rank, EndSend(r) PROVE LocalInv'
<1>1. /\ pc[r] = "send" /\ Others(r)
      /\ UNCHANGED <<calls, idxW, nindex, iflag, works>>
      /\ \/ LeaveCall(r) /\ UNCHANGED todo
         \/ pc'[r] \in {"pass", "recv"} /\ UNCHANGED <<op, idxR>>
  BY EndSendEffect
<1>2. CallsKept
  BY <1>1, NoCallLost
<1>3. CASE LeaveCall(r) /\ UNCHANGED todo
  <2>1. pc'[r] = "idle"
    BY <1>1, <1>3, LeaveEffect
  <2>2. (GSPEC \/ r = NPIO) => nindex'[r]
    BY <1>1 DEF LocalInv, NindexOK, Nindex
  <2>3. NindexOK' /\ OwnOK'
    BY <1>1, <1>2, <2>1, <2>2, LocalIdle DEF LocalInv
  <2>4. TagsOK'
    BY <1>1, <1>3, TagsLeave DEF LocalInv
  <2> QED
    BY <2>3, <2>4 DEF LocalInv
<1>4. CASE pc'[r] \in {"pass", "recv"} /\ UNCHANGED <<op, idxR>>
  <2>1. Own(r)'
    BY <1>4 DEF Own
  <2> QED
    BY <1>1, <1>4, <2>1, LocalInside
<1> QED
  BY <1>1, <1>3, <1>4

LEMMA LocalReceive ==
  ASSUME Base, LocalInv, NEW r \in Rank, NEW s \in Rank, Receive(r, s)
  PROVE  LocalInv'
<1>1. /\ pc[r] = "recv" /\ Others(r)
      /\ UNCHANGED <<calls, op, pc, idxR, idxW, nindex, iflag, works>>
  BY ReceiveEffect
<1>2. Own(r)'
  BY <1>1 DEF Own
<1> QED
  BY <1>1, <1>2, LocalInside

LEMMA LocalEndReceive ==
  ASSUME Base, LocalInv, NEW r \in Rank, EndReceive(r) PROVE LocalInv'
<1>1. /\ pc[r] = "recv" /\ Others(r)
      /\ UNCHANGED <<calls, todo, idxW, nindex, iflag, works>>
      /\ \/ pc'[r] = "pass" /\ UNCHANGED <<op, idxR>>
         \/ LeaveCall(r)
  BY EndReceiveEffect
<1>2. CASE pc'[r] = "pass" /\ UNCHANGED <<op, idxR>>
  <2>1. Own(r)'
    BY <1>2 DEF Own
  <2> QED
    BY <1>1, <1>2, <2>1, LocalInside
<1>3. CASE LeaveCall(r)
  <2>1. pc'[r] = "idle" /\ CallsKept
    BY <1>1, <1>3, LeaveEffect, NoCallLost
  <2>2. (GSPEC \/ r = NPIO) => nindex'[r]
    BY <1>1 DEF LocalInv, NindexOK, Nindex
  <2>3. NindexOK' /\ OwnOK'
    BY <1>1, <2>1, <2>2, LocalIdle DEF LocalInv
  <2>4. TagsOK'
    BY <1>1, <1>3, TagsLeave DEF LocalInv
  <2> QED
    BY <2>3, <2>4 DEF LocalInv
<1> QED
  BY <1>1, <1>2, <1>3

(* A step that concerns no task. *)
LEMMA LocalSame ==
  ASSUME Base, LocalInv,
         UNCHANGED <<calls, op, pc, jp, todo, idxR, idxW, nindex, iflag, works>>
  PROVE  LocalInv'
<1>1. TagsOK'
  BY TagsInside DEF LocalInv
<1>2. NindexOK'
  BY DEF LocalInv, NindexOK, Nindex, Call
<1>3. OwnOK'
  BY DEF LocalInv, OwnOK, Own, OwnColumn, Call
<1> QED
  BY <1>1, <1>2, <1>3 DEF LocalInv
-----------------------------------------------------------------------------
(* Rounds.  All steps but a send and a receive leave every message of every *)
(* round where it was: not posted, on its way, or received.                 *)

RoundsKept(r) ==
  \A x \in Rank : \A k \in 1 .. Len(calls') : \A j \in Nat :
    /\ Transfer(k, j, r, x)' => (Posted(r, x, k, j)' <=> Posted(r, x, k, j))
    /\ Transfer(k, j, x, r)' => (Received(x, r, k, j)' <=> Received(x, r, k, j))

(* A task that goes to a later position, where it has done nothing yet. *)
LEMMA Advance ==
  ASSUME Base, NEW r \in Rank, UNCHANGED calls, pc'[r] \in {"idle", "pass"},
         \/ op'[r] = op[r] /\ jp'[r] = jp[r] + 1
         \/ op'[r] = op[r] + 1 /\ jp'[r] = 0,
         \A x \in Rank : \A j \in Nat :
           (j >= jp[r] /\ Earlier(op[r], j, op'[r], jp'[r])) =>
             /\ Transfer(op[r], j, r, x) => Posted(r, x, op[r], j)
             /\ Transfer(op[r], j, x, r) => Received(x, r, op[r], j)
  PROVE  RoundsKept(r)
<1> SUFFICES ASSUME NEW x \in Rank, NEW k \in 1 .. Len(calls'), NEW j \in Nat
             PROVE  /\ Transfer(k, j, r, x)' => (Posted(r, x, k, j)' <=> Posted(r, x, k, j))
                    /\ Transfer(k, j, x, r)' => (Received(x, r, k, j)' <=> Received(x, r, k, j))
  BY DEF RoundsKept
<1>1. op[r] \in Nat /\ jp[r] \in Nat /\ Len(calls) \in Nat /\ k \in Nat
  BY DEF Base, TypeOK
<1>2. /\ Transfer(k, j, r, x)' <=> Transfer(k, j, r, x)
      /\ Transfer(k, j, x, r)' <=> Transfer(k, j, x, r)
  BY DEF Transfer
<1>3. CASE k # op[r]
  BY <1>1, <1>3 DEF Posted, Received, Earlier
<1>4. CASE k = op[r] /\ j < jp[r]
  BY <1>1, <1>4 DEF Posted, Received, Earlier
<1>5. CASE k = op[r] /\ j >= jp[r] /\ Earlier(k, j, op'[r], jp'[r])
  BY <1>2, <1>5 DEF Posted, Received
<1>6. CASE k = op[r] /\ j >= jp[r] /\ ~Earlier(k, j, op'[r], jp'[r])
  BY <1>1, <1>6 DEF Posted, Received, Earlier
<1> QED
  BY <1>1, <1>3, <1>4, <1>5, <1>6

(* A task that stays in its round. *)
LEMMA Stay ==
  ASSUME Base, NEW r \in Rank, UNCHANGED calls, op'[r] = op[r], jp'[r] = jp[r],
         \A x \in Rank :
           /\ Transfer(op[r], jp[r], r, x) =>
                (Posted(r, x, op[r], jp[r])' <=> Posted(r, x, op[r], jp[r]))
           /\ Transfer(op[r], jp[r], x, r) =>
                (Received(x, r, op[r], jp[r])' <=> Received(x, r, op[r], jp[r]))
  PROVE  RoundsKept(r)
<1> SUFFICES ASSUME NEW x \in Rank, NEW k \in 1 .. Len(calls'), NEW j \in Nat
             PROVE  /\ Transfer(k, j, r, x)' => (Posted(r, x, k, j)' <=> Posted(r, x, k, j))
                    /\ Transfer(k, j, x, r)' => (Received(x, r, k, j)' <=> Received(x, r, k, j))
  BY DEF RoundsKept
<1>1. /\ Transfer(k, j, r, x)' <=> Transfer(k, j, r, x)
      /\ Transfer(k, j, x, r)' <=> Transfer(k, j, x, r)
  BY DEF Transfer
<1>2. CASE ~(k = op[r] /\ j = jp[r])
  BY <1>2 DEF Posted, Received, Earlier
<1>3. CASE k = op[r] /\ j = jp[r]
  BY <1>1, <1>3 DEF Posted, Received, Earlier
<1> QED
  BY <1>2, <1>3

LEMMA EnterRounds ==
  ASSUME Base, NEW r \in Rank, FirstCall(r) \/ NextCall(r)
  PROVE  RoundsKept(r)
<1> SUFFICES ASSUME NEW x \in Rank, NEW k \in 1 .. Len(calls'), NEW j \in Nat
             PROVE  /\ Transfer(k, j, r, x)' => (Posted(r, x, k, j)' <=> Posted(r, x, k, j))
                    /\ Transfer(k, j, x, r)' => (Received(x, r, k, j)' <=> Received(x, r, k, j))
  BY DEF RoundsKept
<1>1. PICK c \in CallSet :
        EnterCall(r, c) /\ calls'[op[r]].kind = c.kind /\ calls'[op[r]].n = c.n
  BY Entering
<1>2. /\ pc[r] = "idle" /\ jp[r] = 0 /\ UNCHANGED op /\ pc'[r] # "idle"
      /\ jp'[r] = (IF IsCover(c) THEN 1 ELSE 0)
      /\ pc'[r] = "send" => /\ c.kind \in {"read", "write"} \/ IsExchange(c)
                            /\ c.kind = "read" => todo'[r] = AllTasks
                            /\ c.kind = "write" => todo'[r] = {NPIO}
                            /\ c.kind = "exchange" => todo'[r] = AllTasks \ {r}
      /\ pc'[r] = "recv" => /\ c.kind \in {"read", "write"}
                            /\ c.kind = "read" => todo'[r] = {c.n}
                            /\ c.kind = "write" => todo'[r] = AllTasks
  BY <1>1, EnterEffect
<1>3. CASE k # op[r]
  BY <1>2, <1>3 DEF Posted, Received, Earlier
<1>4. CASE k = op[r]
  <2>1. calls'[k].kind = c.kind /\ calls'[k].n = c.n
    BY <1>1, <1>4
  <2>2. ~Posted(r, x, k, j) /\ ~Received(x, r, k, j)
    BY <1>2, <1>4 DEF Posted, Received, Earlier
  <2>3. x \in AllTasks
    BY DEF AllTasks, Rank
  <2>4. CASE c.kind \in {"coverH", "coverA"}
    <3>1. jp'[r] = 1 /\ pc'[r] \notin {"send", "recv"}
      BY <1>2, <2>4 DEF IsCover, IsExchange
    <3>2. ~Transfer(k, 0, r, x)' /\ ~Transfer(k, 0, x, r)'
      BY <2>1, <2>4 DEF Transfer, HasRound
    <3>3. j # 0 => ~Posted(r, x, k, j)' /\ ~Received(x, r, k, j)'
      BY <1>2, <1>4, <3>1 DEF Posted, Received, Earlier
    <3> QED
      BY <2>2, <3>2, <3>3
  <2>5. CASE c.kind = "read"
    <3>1. jp'[r] = 0
      BY <1>2, <2>5 DEF IsCover
    <3>2. Control(r)'
      <4>1. Base'
        BY FirstCallBase, NextCallBase
      <4> QED
        BY <4>1 DEF Base, ControlOK
    <3>3. pc'[r] = "recv" => r # c.n
      BY <1>2, <1>4, <2>1, <2>5, <3>2 DEF Control, Receiving, Call, IsExchange
    <3>4. Transfer(k, j, r, x)' => ~Posted(r, x, k, j)'
      BY <1>2, <1>4, <2>1, <2>3, <2>5, <3>1, <3>3 DEF Transfer, Posted, Earlier
    <3>5. Transfer(k, j, x, r)' => ~Received(x, r, k, j)'
      BY <1>2, <1>4, <2>1, <2>5, <3>1 DEF Transfer, Received, Earlier
    <3> QED
      BY <2>2, <3>4, <3>5
  <2>6. CASE c.kind = "write"
    <3>1. jp'[r] = 0
      BY <1>2, <2>6 DEF IsCover
    <3>2. Control(r)'
      <4>1. Base'
        BY FirstCallBase, NextCallBase
      <4> QED
        BY <4>1 DEF Base, ControlOK
    <3>3. pc'[r] = "recv" => r = NPIO
      BY <1>2, <1>4, <2>1, <2>6, <3>2 DEF Control, Receiving, Call, IsExchange
    <3>4. Transfer(k, j, r, x)' => ~Posted(r, x, k, j)'
      BY <1>2, <1>4, <2>1, <2>6, <3>1, <3>3 DEF Transfer, Posted, Earlier
    <3>5. Transfer(k, j, x, r)' => ~Received(x, r, k, j)'
      BY <1>2, <1>4, <2>1, <2>3, <2>6, <3>1 DEF Transfer, Received, Earlier
    <3> QED
      BY <2>2, <3>4, <3>5
  <2>7. CASE c.kind = "exchange"
    <3>1. jp'[r] = 0 /\ pc'[r] # "recv"
      BY <1>2, <2>7 DEF IsCover
    <3>2. Transfer(k, j, r, x)' => ~Posted(r, x, k, j)'
      BY <1>2, <1>4, <2>1, <2>3, <2>7, <3>1 DEF Transfer, Posted, Earlier
    <3>3. ~Received(x, r, k, j)'
      BY <1>2, <1>4, <3>1 DEF Received, Earlier
    <3> QED
      BY <2>2, <3>2, <3>3
  <2>8. CASE c.kind \in {"scalar", "bathy"}
    BY <2>1, <2>8 DEF Transfer
  <2>9. c.kind \in Kinds
    BY CallsAssumption
  <2> QED
    BY <2>4, <2>5, <2>6, <2>7, <2>8, <2>9 DEF Kinds
<1> QED
  BY <1>3, <1>4

LEMMA BroadcastRounds ==
  ASSUME Base, NEW r \in Rank, Broadcast(r) PROVE RoundsKept(r)
<1>1. /\ pc[r] = "bcast" /\ UNCHANGED <<calls, todo, idxW, iflag>>
      /\ \/ Call(r).kind = "scalar" /\ LeaveCall(r) /\ UNCHANGED nindex
         \/ Call(r).kind = "coverH" /\ pc'[r] = "pass" /\ UNCHANGED <<op, jp>>
  BY BroadcastEffect
<1>2. CASE Call(r).kind = "scalar" /\ LeaveCall(r) /\ UNCHANGED nindex
  <2>1. op'[r] = op[r] + 1 /\ jp'[r] = 0 /\ pc'[r] = "idle"
    BY <1>1, <1>2, LeaveEffect
  <2>2. \A x \in Rank : \A j \in Nat : ~Transfer(op[r], j, r, x) /\ ~Transfer(op[r], j, x, r)
    BY <1>2 DEF Transfer, Call
  <2> QED
    BY <1>1, <2>1, <2>2, Advance
<1>3. CASE Call(r).kind = "coverH" /\ pc'[r] = "pass" /\ UNCHANGED <<op, jp>>
  <2>1. \A x \in Rank : /\ Posted(r, x, op[r], jp[r])' <=> Posted(r, x, op[r], jp[r])
                        /\ Received(x, r, op[r], jp[r])' <=> Received(x, r, op[r], jp[r])
    BY <1>1, <1>3 DEF Posted, Received, Earlier
  <2> QED
    BY <1>1, <1>3, <2>1, Stay
<1> QED
  BY <1>1, <1>2, <1>3

LEMMA ReadColumnRounds ==
  ASSUME Base, NEW r \in Rank, ReadColumn(r) PROVE RoundsKept(r)
<1>1. /\ pc[r] = "pass" /\ UNCHANGED <<calls, op, jp>>
      /\ \/ /\ Call(r).kind = "coverA" /\ r = NPIO
            /\ pc'[r] = "recv" /\ todo'[r] = Sources(r, jp[r])
         \/ Call(r).kind = "coverA" /\ r # NPIO /\ pc'[r] = "send" /\ todo'[r] = {NPIO}
         \/ Call(r).kind = "coverH" /\ pc'[r] = "send" /\ todo'[r] = AllTasks
  BY ReadColumnEffect
<1>2. ASSUME NEW x \in Rank
      PROVE  /\ Transfer(op[r], jp[r], r, x) =>
                  (Posted(r, x, op[r], jp[r])' <=> Posted(r, x, op[r], jp[r]))
             /\ Transfer(op[r], jp[r], x, r) =>
                  (Received(x, r, op[r], jp[r])' <=> Received(x, r, op[r], jp[r]))
  <2>1. ~Posted(r, x, op[r], jp[r]) /\ ~Received(x, r, op[r], jp[r])
    <3>1. op[r] \in Nat /\ jp[r] \in Nat
      BY DEF Base, TypeOK
    <3> QED
      BY <1>1, <3>1 DEF Posted, Received, Earlier
  <2>2. op[r] \in Nat /\ jp[r] \in Nat /\ x \in AllTasks
    BY DEF Base, TypeOK, AllTasks, Rank
  <2>3. CASE Call(r).kind = "coverA" /\ r = NPIO
    <3>1. ~Transfer(op[r], jp[r], r, x)
      BY <2>3 DEF Transfer, Call
    <3>2. Transfer(op[r], jp[r], x, r) => x \in Sources(r, jp[r])
      BY <2>3 DEF Transfer, Call, Sources, HasRound
    <3> QED
      BY <1>1, <2>1, <2>2, <2>3, <3>1, <3>2 DEF Received, Earlier
  <2>4. CASE Call(r).kind = "coverA" /\ r # NPIO
    <3>1. ~Transfer(op[r], jp[r], x, r) /\ (Transfer(op[r], jp[r], r, x) => x = NPIO)
      BY <2>4 DEF Transfer, Call
    <3> QED
      BY <1>1, <2>1, <2>2, <2>4, <3>1 DEF Posted, Earlier
  <2>5. CASE Call(r).kind = "coverH"
    BY <1>1, <2>1, <2>2, <2>5 DEF Posted, Received, Earlier
  <2> QED
    BY <1>1, <2>3, <2>4, <2>5
<1> QED
  BY <1>1, <1>2, Stay

LEMMA NoColumnRounds ==
  ASSUME Base, NEW r \in Rank, NoColumn(r) PROVE RoundsKept(r)
<1>1. /\ pc[r] = "pass" /\ IsCover(Call(r)) /\ ~HasColumn(Call(r).n, r, jp[r])
      /\ UNCHANGED <<calls, op>>
      /\ \/ pc'[r] = "recv" /\ todo'[r] = Sources(r, jp[r]) /\ jp'[r] = jp[r]
         \/ /\ Call(r).kind = "coverA" /\ r # NPIO
            /\ pc'[r] = "pass" /\ jp'[r] = jp[r] + 1
  BY NoColumnEffect
<1>2. op[r] \in Nat /\ jp[r] \in Nat
  BY DEF Base, TypeOK
<1>3. \A x \in Rank : ~Transfer(op[r], jp[r], r, x)
  BY <1>1 DEF Transfer, HasRound, Call, IsCover
<1>4. CASE pc'[r] = "recv" /\ todo'[r] = Sources(r, jp[r]) /\ jp'[r] = jp[r]
  <2>1. ASSUME NEW x \in Rank, Transfer(op[r], jp[r], x, r)
        PROVE  ~Received(x, r, op[r], jp[r]) /\ ~Received(x, r, op[r], jp[r])'
    <3>1. x \in Sources(r, jp[r])
      BY <1>1, <2>1 DEF Transfer, HasRound, Call, IsCover, Sources
    <3> QED
      BY <1>1, <1>2, <1>4, <3>1 DEF Received, Earlier
  <2> QED
    BY <1>1, <1>3, <1>4, <2>1, Stay
<1>5. CASE /\ Call(r).kind = "coverA" /\ r # NPIO
           /\ pc'[r] = "pass" /\ jp'[r] = jp[r] + 1
  <2>1. ASSUME NEW x \in Rank, NEW j \in Nat, j >= jp[r], Earlier(op[r], j, op'[r], jp'[r])
        PROVE  ~Transfer(op[r], j, r, x) /\ ~Transfer(op[r], j, x, r)
    <3>1. j = jp[r]
      BY <1>1, <1>2, <1>5, <2>1 DEF Earlier
    <3>2. ~Transfer(op[r], j, x, r)
      BY <1>5 DEF Transfer, Call
    <3> QED
      BY <1>3, <3>1, <3>2
  <2> QED
    BY <1>1, <1>5, <2>1, Advance
<1> QED
  BY <1>1, <1>4, <1>5

LEMMA EndColumnsRounds ==
  ASSUME Base, NEW r \in Rank, EndColumns(r) PROVE RoundsKept(r)
<1>1. /\ pc[r] = "pass" /\ IsCover(Call(r)) /\ jp[r] > IPAS(Call(r).n) /\ LeaveCall(r)
      /\ UNCHANGED <<calls, todo, idxW, iflag>>
      /\ Others(r)
  BY EndColumnsEffect
<1>2. op'[r] = op[r] + 1 /\ jp'[r] = 0 /\ pc'[r] = "idle"
  BY <1>1, LeaveEffect DEF Others
<1>3. jp[r] \in Nat /\ IPAS(Call(r).n) \in Nat
  BY <1>1, InCall
<1>4. ASSUME NEW x \in Rank, NEW j \in Nat, j >= jp[r]
      PROVE  ~Transfer(op[r], j, r, x) /\ ~Transfer(op[r], j, x, r)
  <2>1. ~(j <= IPAS(Call(r).n))
    BY <1>1, <1>3, <1>4
  <2> QED
    BY <1>1, <2>1 DEF Transfer, HasRound, Call, IsCover
<1> QED
  BY <1>1, <1>2, <1>4, Advance

LEMMA EndSendRounds ==
  ASSUME Base, NEW r \in Rank, EndSend(r) PROVE RoundsKept(r)
<1>1. /\ pc[r] = "send" /\ todo[r] = {} /\ Others(r)
      /\ UNCHANGED <<calls, idxW, nindex, iflag>>
      /\ \/ /\ Call(r).kind = "read" /\ r = Call(r).n
            /\ LeaveCall(r) /\ UNCHANGED todo
         \/ /\ Call(r).kind = "write" /\ r # NPIO
            /\ LeaveCall(r) /\ UNCHANGED todo
         \/ /\ Call(r).kind = "coverH"
            /\ pc'[r] = "recv" /\ todo'[r] = Sources(r, jp[r])
            /\ UNCHANGED <<op, jp>>
         \/ /\ IsExchange(Call(r)) /\ pc'[r] = "recv" /\ todo'[r] = AllTasks
            /\ UNCHANGED <<op, jp>>
         \/ /\ Call(r).kind = "coverA" /\ r # NPIO /\ pc'[r] = "pass"
            /\ jp'[r] = jp[r] + 1 /\ UNCHANGED op
  BY EndSendEffect
<1>2. op[r] \in Nat /\ jp[r] \in Nat
  BY DEF Base, TypeOK
<1>3. \A x \in Rank : Posted(r, x, op[r], jp[r])
  BY <1>1 DEF Posted
<1>4. \A x \in Rank : ~Received(x, r, op[r], jp[r])
  BY <1>1, <1>2 DEF Received, Earlier
<1>5. CASE Call(r).kind \in {"read", "write"}
  <2>1. jp[r] = 0 /\ (Call(r).kind = "read" => r = Call(r).n)
                  /\ (Call(r).kind = "write" => r # NPIO)
    BY <1>1, <1>2, <1>5 DEF Base, ControlOK, Control, IsCover, IsExchange
  <2>2. LeaveCall(r) /\ UNCHANGED todo
    BY <1>1, <1>5 DEF IsExchange
  <2>3. op'[r] = op[r] + 1 /\ jp'[r] = 0 /\ pc'[r] = "idle"
    BY <1>1, <2>2, LeaveEffect
  <2>4. \A x \in Rank : \A j \in Nat : /\ ~Transfer(op[r], j, x, r)
                                       /\ Transfer(op[r], j, r, x) => j = 0
    BY <1>5, <2>1 DEF Transfer, Call
  <2> QED
    BY <1>1, <1>3, <2>1, <2>3, <2>4, Advance
<1>6. CASE Call(r).kind = "coverH"
  <2>1. pc'[r] = "recv" /\ todo'[r] = Sources(r, jp[r]) /\ UNCHANGED <<op, jp>>
    BY <1>1, <1>6 DEF IsExchange
  <2>2. \A x \in Rank : Posted(r, x, op[r], jp[r])'
    BY <2>1 DEF Posted
  <2>3. ASSUME NEW x \in Rank, Transfer(op[r], jp[r], x, r)
        PROVE  ~Received(x, r, op[r], jp[r])'
    <3>1. x \in Sources(r, jp[r])
      BY <1>6, <2>3 DEF Transfer, HasRound, Call, Sources
    <3> QED
      BY <1>2, <2>1, <3>1 DEF Received, Earlier
  <2> QED
    BY <1>1, <1>3, <1>4, <2>1, <2>2, <2>3, Stay
<1>7. CASE IsExchange(Call(r))
  <2>1. pc'[r] = "recv" /\ todo'[r] = AllTasks /\ UNCHANGED <<op, jp>>
    BY <1>1, <1>7 DEF IsExchange
  <2>2. \A x \in Rank : Posted(r, x, op[r], jp[r])'
    BY <2>1 DEF Posted
  <2>3. \A x \in Rank : ~Received(x, r, op[r], jp[r])'
    BY <1>2, <2>1 DEF Received, Earlier, AllTasks, Rank
  <2> QED
    BY <1>1, <1>3, <1>4, <2>1, <2>2, <2>3, Stay
<1>8. CASE Call(r).kind = "coverA"
  <2>1. r # NPIO /\ pc'[r] = "pass" /\ jp'[r] = jp[r] + 1 /\ UNCHANGED op
    BY <1>1, <1>8 DEF IsExchange
  <2>2. ASSUME NEW x \in Rank, NEW j \in Nat, j >= jp[r], Earlier(op[r], j, op'[r], jp'[r])
        PROVE  j = jp[r] /\ ~Transfer(op[r], j, x, r)
    <3>1. j = jp[r]
      BY <1>2, <2>1, <2>2 DEF Earlier
    <3> QED
      BY <1>8, <2>1, <3>1 DEF Transfer, Call
  <2> QED
    BY <1>1, <1>3, <2>1, <2>2, Advance
<1> QED
  BY <1>1, <1>5, <1>6, <1>7, <1>8

LEMMA EndReceiveRounds ==
  ASSUME Base, NEW r \in Rank, EndReceive(r) PROVE RoundsKept(r)
<1>1. /\ pc[r] = "recv" /\ todo[r] = {} /\ Receiving(r) /\ Others(r)
      /\ UNCHANGED <<calls, todo, idxW, nindex, iflag>>
      /\ \/ /\ IsCover(Call(r)) /\ pc'[r] = "pass" /\ jp'[r] = jp[r] + 1
            /\ UNCHANGED op
         \/ ~IsCover(Call(r)) /\ LeaveCall(r)
  BY EndReceiveEffect
<1>2. op[r] \in Nat /\ jp[r] \in Nat
  BY DEF Base, TypeOK
<1>3. \A x \in Rank : Posted(r, x, op[r], jp[r]) /\ Received(x, r, op[r], jp[r])
  BY <1>1 DEF Posted, Received
<1>4. CASE IsCover(Call(r))
  <2>1. pc'[r] = "pass" /\ jp'[r] = jp[r] + 1 /\ UNCHANGED op
    BY <1>1, <1>4
  <2>2. ASSUME NEW j \in Nat, j >= jp[r], Earlier(op[r], j, op'[r], jp'[r])
        PROVE  j = jp[r]
    BY <1>2, <2>1, <2>2 DEF Earlier
  <2> QED
    BY <1>1, <1>3, <2>1, <2>2, Advance
<1>5. CASE ~IsCover(Call(r))
  <2>1. jp[r] = 0
    BY <1>1, <1>2, <1>5 DEF Base, ControlOK, Control, IsCover
  <2>2. op'[r] = op[r] + 1 /\ jp'[r] = 0 /\ pc'[r] = "idle"
    BY <1>1, <1>5, LeaveEffect
  <2>3. \A x \in Rank : \A j \in Nat : /\ Transfer(op[r], j, x, r) => j = 0
                                       /\ Transfer(op[r], j, r, x) => j = 0
    BY <1>5 DEF Transfer, Call, IsCover
  <2> QED
    BY <1>1, <1>3, <2>1, <2>2, <2>3, Advance
<1> QED
  BY <1>1, <1>4, <1>5

(* A slice that a task keeps, and points that it takes from itself. *)
LEMMA OwnSliceRounds ==
  ASSUME Base, NEW r \in Rank, UNCHANGED <<calls, op, pc, jp>>, todo'[r] = todo[r] \ {r}
  PROVE  RoundsKept(r)
<1>1. \A x \in Rank : Transfer(op[r], jp[r], r, x) \/ Transfer(op[r], jp[r], x, r) => x # r
  BY DEF Transfer
<1>2. \A x \in Rank \ {r} : /\ Posted(r, x, op[r], jp[r])' <=> Posted(r, x, op[r], jp[r])
                            /\ Received(x, r, op[r], jp[r])' <=> Received(x, r, op[r], jp[r])
  BY DEF Posted, Received, Earlier
<1> QED
  BY <1>1, <1>2, Stay
-----------------------------------------------------------------------------
(* The network after a step that posts and receives nothing. *)

LEMMA MessageTypes ==
  ASSUME TypeOK, NEW m \in net
  PROVE  /\ m \in Messages
         /\ m.src \in Rank /\ m.dst \in Rank /\ m.op \in Nat /\ m.jp \in Nat
         /\ m.seq \in Nat /\ m.tag \in Nat /\ m.ref \in BOOLEAN
  BY DEF TypeOK, Messages

LEMMA NotYet ==
  ASSUME Base, NEW s \in Rank, NEW d \in Rank, NEW k \in Nat, NEW j \in Nat, k > Len(calls)
  PROVE  ~Posted(s, d, k, j) /\ ~Received(s, d, k, j)
<1> SUFFICES ASSUME NEW x \in Rank
             PROVE  /\ ~Earlier(k, j, op[x], jp[x])
                    /\ op[x] = k => pc[x] = "idle"
  BY DEF Posted, Received
<1>1. /\ op[x] \in Nat /\ jp[x] \in Nat /\ Len(calls) \in Nat
      /\ op[x] <= Len(calls) + 1 /\ (pc[x] # "idle" => op[x] <= Len(calls))
      /\ pc[x] = "idle" => jp[x] = 0
  BY DEF Base, TypeOK, PositionOK, ControlOK, Control
<1> QED
  BY <1>1 DEF Earlier

LEMMA PassesType ==
  ASSUME TypeOK, NEW k \in 1 .. Len(calls)
  PROVE  Passes(k) \subseteq Nat
<1>1. IPAS(calls[k].n) \in Nat
  BY CallTypes, IPASType
<1> QED
  BY <1>1 DEF Passes

LEMMA PassesTypeNext ==
  ASSUME TypeOK', NEW k \in 1 .. Len(calls')
  PROVE  Passes(k)' \subseteq Nat
<1>1. calls'[k] \in CallRecords
  BY DEF TypeOK
<1>2. IPAS(calls'[k].n) \in Nat
  BY <1>1, IPASType DEF CallRecords
<1> QED
  BY <1>2 DEF Passes

LEMMA RoundsAll ==
  ASSUME NEW r \in Rank, Others(r), RoundsKept(r),
         NEW s \in Rank, NEW d \in Rank, NEW k \in 1 .. Len(calls'), NEW j \in Nat,
         Transfer(k, j, s, d)'
  PROVE  /\ Posted(s, d, k, j)' <=> Posted(s, d, k, j)
         /\ Received(s, d, k, j)' <=> Received(s, d, k, j)
<1>1. Posted(s, d, k, j)' <=> Posted(s, d, k, j)
  <2>1. CASE s = r
    BY <2>1 DEF RoundsKept
  <2>2. CASE s # r
    BY <2>2 DEF Posted, Others
  <2> QED
    BY <2>1, <2>2
<1>2. Received(s, d, k, j)' <=> Received(s, d, k, j)
  <2>1. CASE d = r
    BY <2>1 DEF RoundsKept
  <2>2. CASE d # r
    BY <2>2 DEF Received, Others
  <2> QED
    BY <2>1, <2>2
<1> QED
  BY <1>1, <1>2

(* A call that was made stays what it was. *)
LEMMA SameCall ==
  ASSUME CallsKept, Len(calls) \in Nat, Len(calls') \in Nat, NEW k \in 1 .. Len(calls)
  PROVE  /\ k \in 1 .. Len(calls') /\ calls'[k] = calls[k]
         /\ Passes(k)' = Passes(k)
         /\ \A j, s, d : /\ Transfer(k, j, s, d)' <=> Transfer(k, j, s, d)
                         /\ RoundTag(k, j, s)' = RoundTag(k, j, s)
                         /\ RoundColumn(k, j, s)' = RoundColumn(k, j, s)
<1>1. calls'[k] = calls[k]
  BY DEF CallsKept
<1>2. k \in 1 .. Len(calls')
  BY DEF CallsKept
<1>3. Passes(k)' = Passes(k)
  BY <1>1 DEF Passes
<1>4. \A j, s, d : Transfer(k, j, s, d)' <=> Transfer(k, j, s, d)
  BY <1>1 DEF Transfer
<1>5. \A j, s : RoundTag(k, j, s)' = RoundTag(k, j, s)
  BY <1>1 DEF RoundTag
<1>6. \A j, s : RoundColumn(k, j, s)' = RoundColumn(k, j, s)
  BY <1>1 DEF RoundColumn
<1> QED
  BY <1>1, <1>2, <1>3, <1>4, <1>5, <1>6

LEMMA NetQuiet ==
  ASSUME Base, Base', NetInv, NEW r \in Rank, Others(r), RoundsKept(r), CallsKept,
         UNCHANGED <<net, sent, nreq>>,
         \A m \in net : works'[m.src][m.dst] = works[m.src][m.dst],
         \A m \in net : (m.ref /\ m.src = r) =>
           op'[r] = op[r] /\ jp'[r] = jp[r] /\ pc'[r] \in {"send", "recv"}
  PROVE  NetInv'
<1> USE DEF NetInv
<1>1. Len(calls) \in Nat /\ Len(calls') \in Nat
  BY DEF Base, TypeOK
<1>2. NetOK'
  <2> SUFFICES ASSUME NEW m \in net PROVE OnItsWay(m)'
    BY DEF NetOK
  <2>1. OnItsWay(m)
    BY DEF NetOK
  <2>2. /\ m.src \in Rank /\ m.dst \in Rank /\ m.jp \in Nat
        /\ m.op \in 1 .. Len(calls)
    BY <2>1, MessageTypes DEF OnItsWay, Base
  <2>3. /\ m.op \in 1 .. Len(calls') /\ calls'[m.op] = calls[m.op]
        /\ Transfer(m.op, m.jp, m.src, m.dst)'
        /\ RoundTag(m.op, m.jp, m.src)' = RoundTag(m.op, m.jp, m.src)
        /\ RoundColumn(m.op, m.jp, m.src)' = RoundColumn(m.op, m.jp, m.src)
    BY <1>1, <2>1, <2>2, SameCall DEF OnItsWay
  <2>4. /\ Posted(m.src, m.dst, m.op, m.jp)'
        /\ ~Received(m.src, m.dst, m.op, m.jp)'
    BY <2>1, <2>2, <2>3, RoundsAll DEF OnItsWay
  <2>5. Content(m)' = Content(m)
    BY DEF Content
  <2> QED
    BY <2>1, <2>3, <2>4, <2>5 DEF OnItsWay
<1>3. PendingOK'
  <2> SUFFICES ASSUME NEW m \in net, m.ref PROVE Awaited(m)'
    BY DEF PendingOK
  <2>1. Awaited(m) /\ m.src \in Rank /\ m.op \in 1 .. Len(calls)
    BY MessageTypes DEF PendingOK, NetOK, OnItsWay, Base
  <2>2. /\ op'[m.src] = op[m.src] /\ jp'[m.src] = jp[m.src]
        /\ pc'[m.src] \in {"send", "recv"}
    BY <2>1 DEF Others, Awaited
  <2>3. Call(m.src)' = Call(m.src)
    BY <2>1, <2>2 DEF Call, CallsKept, Awaited
  <2> QED
    BY <2>1, <2>2, <2>3 DEF Awaited
<1>4. OrderOK' /\ UniqueOK'
  BY DEF OrderOK, UniqueOK, Earlier
<1>5. ASSUME NEW s \in Rank, NEW d \in Rank, NEW k \in 1 .. Len(calls'),
             NEW j \in Passes(k)', Transfer(k, j, s, d)'
      PROVE  /\ k \in 1 .. Len(calls) =>
                  j \in Passes(k) /\ j \in Nat /\ Transfer(k, j, s, d)
             /\ Posted(s, d, k, j)' <=> Posted(s, d, k, j)
             /\ Received(s, d, k, j)' <=> Received(s, d, k, j)
             /\ k \notin 1 .. Len(calls) => ~Posted(s, d, k, j) /\ ~Received(s, d, k, j)
  <2>1. j \in Nat
    <3>1. TypeOK'
      BY DEF Base
    <3>2. Passes(k)' \subseteq Nat
      BY <3>1, PassesTypeNext
    <3> QED
      BY <3>2
  <2>2. k \in 1 .. Len(calls) => j \in Passes(k) /\ Transfer(k, j, s, d)
    BY <1>1, <1>5, SameCall
  <2>3. k \notin 1 .. Len(calls) => ~Posted(s, d, k, j) /\ ~Received(s, d, k, j)
    BY <1>1, <2>1, NotYet
  <2> QED
    BY <1>5, <2>1, <2>2, <2>3, RoundsAll
<1>6. InFlight'
  BY <1>5 DEF InFlight
<1>7. Causal'
  BY <1>5 DEF Causal
<1> QED
  BY <1>2, <1>3, <1>4, <1>6, <1>7

-----------------------------------------------------------------------------
(* The network after a message has been posted. *)

LEMMA TransferPass ==
  ASSUME TypeOK, NEW k \in 1 .. Len(calls), NEW j \in Nat, NEW s, NEW d,
         Transfer(k, j, s, d)
  PROVE  j \in Passes(k)
<1>1. IPAS(calls[k].n) \in Nat
  BY CallTypes, IPASType
<1> QED
  BY <1>1 DEF Transfer, HasRound, Passes

LEMMA NetPost ==
  ASSUME Base, NetInv, NEW r \in Rank, NEW d \in Rank, NEW m \in Messages,
         m.src = r, m.dst = d, m.op = op[r], m.jp = jp[r], m.seq = sent[r][d],
         m.tag = RoundTag(op[r], jp[r], r), Transfer(op[r], jp[r], r, d),
         pc[r] = "send", d \in todo[r], todo'[r] = todo[r] \ {d},
         UNCHANGED <<calls, op, pc, jp>>, Others(r),
         net' = net \cup {m}, sent' = [sent EXCEPT ![r][d] = @ + 1],
         \A x, y \in Rank : (x # r \/ y # d) => works'[x][y] = works[x][y],
         \A x, y \in Rank : (x # y /\ (x # r \/ y # d)) =>
            nreq'[x][IREQ(x, y)] = nreq[x][IREQ(x, y)],
         Content(m)' = Expected(calls[op[r]], op[r], d, RoundColumn(op[r], jp[r], r)),
         m.ref => Awaited(m)'
  PROVE  NetInv'
<1> USE DEF NetInv
<1>1. /\ op[r] \in 1 .. Len(calls) /\ op[r] \in Nat /\ jp[r] \in Nat
      /\ sent \in [Rank -> [Rank -> Nat]]
  BY InCall DEF Base, TypeOK
<1>2. ~Posted(r, d, op[r], jp[r])
  BY <1>1 DEF Posted, Earlier
<1>3. ASSUME NEW o \in net, o.src = r, o.dst = d
      PROVE  /\ Earlier(o.op, o.jp, op[r], jp[r])
             /\ ~(o.op = op[r] /\ o.jp = jp[r])
             /\ ~Earlier(op[r], jp[r], o.op, o.jp)
  <2>1. Earlier(o.op, o.jp, op[r], jp[r])
    BY <1>3, <1>2 DEF NetOK, OnItsWay, Posted
  <2>2. o.op \in Nat /\ o.jp \in Nat
    BY MessageTypes DEF Base
  <2> QED
    BY <1>1, <2>1, <2>2 DEF Earlier
<1>4. \A s, x \in Rank : \A k, j : Received(s, x, k, j)' <=> Received(s, x, k, j)
  BY DEF Received, Others
<1>5. \A s, x \in Rank : \A k, j :
        Posted(s, x, k, j)' <=> \/ Posted(s, x, k, j)
                                \/ s = r /\ x = d /\ k = op[r] /\ j = jp[r]
  BY DEF Posted, Others
<1>6. ~Received(r, d, op[r], jp[r])
  <2>1. jp[r] \in Passes(op[r])
    BY <1>1, TransferPass DEF Base
  <2> QED
    BY <1>1, <1>2, <2>1 DEF Causal
<1>7. sent'[r][d] = sent[r][d] + 1 /\ sent[r][d] \in Nat
      /\ \A x, y \in Rank : (x # r \/ y # d) => sent'[x][y] = sent[x][y]
  BY <1>1
<1>8. OnItsWay(m)'
  <2>1. Posted(r, d, op[r], jp[r])' /\ ~Received(r, d, op[r], jp[r])'
    BY <1>4, <1>5, <1>6
  <2>2. Transfer(op[r], jp[r], r, d)'
    BY DEF Transfer
  <2>3. /\ RoundTag(op[r], jp[r], r)' = RoundTag(op[r], jp[r], r)
        /\ RoundColumn(op[r], jp[r], r)' = RoundColumn(op[r], jp[r], r)
    BY DEF RoundTag, RoundColumn
  <2> QED
    BY <1>1, <1>7, <2>1, <2>2, <2>3 DEF OnItsWay
<1>9. ASSUME NEW o \in net PROVE OnItsWay(o)' /\ (o.ref => Awaited(o)')
  <2>1. OnItsWay(o) /\ (o.ref => Awaited(o))
    BY DEF NetOK, PendingOK
  <2>2. o.src \in Rank /\ o.dst \in Rank /\ o.seq \in Nat
    BY MessageTypes DEF Base
  <2>3. (o.src = r /\ o.dst = d) => ~o.ref
    BY <1>3, <2>1 DEF Awaited
  <2>4. Content(o)' = Content(o)
    BY <2>2, <2>3 DEF Content
  <2>5. /\ Posted(o.src, o.dst, o.op, o.jp)'
        /\ ~Received(o.src, o.dst, o.op, o.jp)'
    BY <1>4, <1>5, <2>1, <2>2 DEF OnItsWay
  <2>6. o.seq < sent'[o.src][o.dst]
    <3>1. o.seq < sent[o.src][o.dst] /\ sent[o.src][o.dst] \in Nat
      BY <1>1, <2>1, <2>2 DEF OnItsWay
    <3> QED
      BY <1>7, <2>2, <3>1
  <2>7. OnItsWay(o)'
    BY <2>1, <2>4, <2>5, <2>6 DEF OnItsWay, Transfer, RoundTag, RoundColumn
  <2>8. o.ref => Awaited(o)'
    <3> SUFFICES ASSUME o.ref PROVE Awaited(o)'
      OBVIOUS
    <3>1. o.src # o.dst /\ (o.src # r \/ o.dst # d)
      BY <2>1, <2>3 DEF OnItsWay, Transfer
    <3>2. nreq'[o.src][IREQ(o.src, o.dst)] = nreq[o.src][IREQ(o.src, o.dst)]
      BY <2>2, <3>1
    <3> QED
      BY <2>1, <3>2 DEF Awaited, Call
  <2> QED
    BY <2>7, <2>8
<1>10. NetOK' /\ PendingOK'
  BY <1>8, <1>9 DEF NetOK, PendingOK
<1>11. OrderOK'
  <2>1. ASSUME NEW o \in net, o.src = r, o.dst = d
        PROVE  o.seq < m.seq /\ ~Earlier(m.op, m.jp, o.op, o.jp)
    <3>1. o.seq < sent[r][d]
      BY <2>1 DEF NetOK, OnItsWay
    <3> QED
      BY <1>3, <2>1, <3>1
  <2>2. ~Earlier(m.op, m.jp, m.op, m.jp)
    BY <1>1 DEF Earlier
  <2>3. ASSUME NEW m1 \in net', NEW m2 \in net', m1.src = m2.src, m1.dst = m2.dst,
               Earlier(m1.op, m1.jp, m2.op, m2.jp)
        PROVE  m1.seq < m2.seq
    BY <2>1, <2>2, <2>3 DEF OrderOK
  <2> QED
    BY <2>3 DEF OrderOK, Earlier
<1>12. UniqueOK'
  <2>1. ASSUME NEW o \in net, o.src = r, o.dst = d, o.op = m.op, o.jp = m.jp
        PROVE  FALSE
    BY <1>3, <2>1
  <2> QED
    BY <2>1 DEF UniqueOK
<1>13. InFlight'
  <2> SUFFICES ASSUME NEW s \in Rank, NEW x \in Rank, NEW k \in 1 .. Len(calls),
                      NEW j \in Passes(k), Transfer(k, j, s, x),
                      Posted(s, x, k, j)', ~Received(s, x, k, j)'
               PROVE  \E o \in net' : o.src = s /\ o.dst = x /\ o.op = k /\ o.jp = j
    BY DEF InFlight, Passes, Transfer
  <2>1. CASE s = r /\ x = d /\ k = op[r] /\ j = jp[r]
    BY <2>1
  <2>2. CASE Posted(s, x, k, j)
    BY <1>4, <2>2 DEF InFlight
  <2> QED
    BY <1>5, <2>1, <2>2
<1>14. Causal'
  <2> SUFFICES ASSUME NEW s \in Rank, NEW x \in Rank, NEW k \in 1 .. Len(calls),
                      NEW j \in Passes(k), Transfer(k, j, s, x), Received(s, x, k, j)'
               PROVE  Posted(s, x, k, j)'
    BY DEF Causal, Passes, Transfer
  <2> QED
    BY <1>4, <1>5 DEF Causal
<1> QED
  BY <1>10, <1>11, <1>12, <1>13, <1>14
-----------------------------------------------------------------------------
(* The round a task sends or receives in, and its tag.                      *)

NoBathy == \A c \in CallSet : c.kind # "bathy"

LEMMA CurrentRound ==
  ASSUME Base, NoBathy, NEW r \in Rank, pc[r] \in {"send", "recv"}
  PROVE  /\ Call(r) = calls[op[r]] /\ Call(r).kind # "bathy"
         /\ IsExchange(Call(r)) => Call(r).kind = "exchange"
         /\ ~IsCover(Call(r)) => jp[r] = 0
         /\ IsCover(Call(r)) => jp[r] >= 1 /\ jp[r] <= IPAS(Call(r).n)
<1>1. Call(r).kind # "bathy"
  <2>1. [kind |-> Call(r).kind, n |-> Call(r).n] \in CallSet
    BY CurrentCall DEF Base, PositionOK
  <2> QED
    BY <2>1 DEF NoBathy
<1>2. jp[r] \in Nat
  BY InCall
<1>3. Control(r)
  BY DEF Base, ControlOK
<1>4. ~IsCover(Call(r)) => jp[r] = 0
  BY <1>2, <1>3 DEF Control, IsCover
<1>5. IsCover(Call(r)) => jp[r] >= 1 /\ jp[r] <= IPAS(Call(r).n)
  BY <1>2, <1>3 DEF Control, IsCover
<1> QED
  BY <1>1, <1>4, <1>5 DEF Call, IsExchange

LEMMA RoundOfSend ==
  ASSUME Base, NoBathy, NEW r \in Rank, pc[r] = "send", NEW d \in todo[r], d # r
  PROVE  Transfer(op[r], jp[r], r, d)
<1>1. Sending(r)
  BY DEF Base, ControlOK, Control
<1> QED
  BY <1>1, CurrentRound DEF Sending, Transfer, HasRound, IsCover

LEMMA RoundOfReceive ==
  ASSUME Base, NoBathy, NEW r \in Rank, pc[r] = "recv", NEW s \in todo[r], s # r
  PROVE  Transfer(op[r], jp[r], s, r)
<1>1. Receiving(r)
  BY DEF Base, ControlOK, Control
<1> QED
  BY <1>1, CurrentRound DEF Receiving, Transfer, HasRound, IsCover, Sources

LEMMA TagOfRound ==
  ASSUME Base, LocalInv, NoBathy, NEW r \in Rank, NEW s \in Rank, pc[r] \in {"send", "recv"}
  PROVE  Tag(r, s) = RoundTag(op[r], jp[r], s)
<1>1. Tags(r) /\ op[r] <= Len(calls)
  BY DEF LocalInv, TagsOK, Base, PositionOK
<1>2. /\ idxR[r] = calls[op[r]].idxR
      /\ idxW[r] = NextW(calls[op[r]], calls[op[r]].idxW)
  BY <1>1 DEF Tags
<1> QED
  BY <1>2, CurrentRound DEF Tag, RoundTag, NextW, OutputW, IsExchange

(* The oldest message with the tag of the round is the one of the round. *)
LEMMA RightMessage ==
  ASSUME Base, LocalInv, NetInv, NoBathy, NEW r \in Rank, NEW s \in todo[r],
         pc[r] = "recv", s # r, NEW m \in Oldest(Matching(r, s))
  PROVE  /\ m \in net /\ m.src = s /\ m.dst = r
         /\ m.op = op[r] /\ m.jp = jp[r]
<1> USE DEF NetInv
<1>1. s \in Rank /\ op[r] \in 1 .. Len(calls) /\ op[r] \in Nat /\ jp[r] \in Nat
  BY InCall DEF Base, TypeOK
<1>2. /\ m \in net /\ m.src = s /\ m.dst = r /\ m.tag = Tag(r, s)
      /\ \A o \in Matching(r, s) : m.seq <= o.seq
  BY DEF Oldest, Matching
<1>3. OnItsWay(m) /\ m.op \in Nat /\ m.jp \in Nat /\ m.seq \in Nat
  BY <1>2, MessageTypes DEF NetOK, Base
<1>4. ~Earlier(m.op, m.jp, op[r], jp[r])
  BY <1>2, <1>3 DEF OnItsWay, Received
<1>5. ~Earlier(op[r], jp[r], m.op, m.jp)
  <2> SUFFICES ASSUME Earlier(op[r], jp[r], m.op, m.jp) PROVE FALSE
    OBVIOUS
  <2>1. Transfer(op[r], jp[r], s, r) /\ jp[r] \in Passes(op[r])
    BY <1>1, RoundOfReceive, TransferPass DEF Base
  <2>2. Posted(s, r, op[r], jp[r])
    <3>1. Posted(s, r, m.op, m.jp) /\ op[s] \in Nat /\ jp[s] \in Nat
      BY <1>1, <1>2, <1>3 DEF OnItsWay, Base, TypeOK
    <3>2. Earlier(op[r], jp[r], op[s], jp[s])
      BY <1>1, <1>3, <3>1 DEF Posted, Earlier
    <3> QED
      BY <3>2 DEF Posted
  <2>3. ~Received(s, r, op[r], jp[r])
    BY <1>1 DEF Received, Earlier
  <2>4. PICK o \in net : o.src = s /\ o.dst = r /\ o.op = op[r] /\ o.jp = jp[r]
    BY <1>1, <2>1, <2>2, <2>3 DEF InFlight
  <2>5. o \in Matching(r, s)
    <3>1. o.tag = RoundTag(op[r], jp[r], s)
      BY <2>4 DEF NetOK, OnItsWay
    <3> QED
      BY <1>1, <2>4, <3>1, TagOfRound DEF Matching
  <2>6. o.seq < m.seq /\ o.seq \in Nat
    BY <1>2, <2>4, MessageTypes DEF OrderOK, Base
  <2> QED
    BY <1>2, <1>3, <2>5, <2>6
<1> QED
  BY <1>1, <1>2, <1>3, <1>4, <1>5 DEF Earlier

(* What it brings is what the task expects in that column. *)
LEMMA RightColumn ==
  ASSUME Base, NoBathy, NEW r \in Rank, NEW s \in Rank, pc[r] \in {"send", "recv"}
  PROVE  TargetColumn(r, s) = RoundColumn(op[r], jp[r], s)
  BY CurrentRound DEF TargetColumn, RoundColumn, IsCover, IsExchange

LEMMA RightContent ==
  ASSUME Base, LocalInv, NetInv, NoBathy, NEW r \in Rank, NEW s \in todo[r],
         pc[r] = "recv", s # r, NEW m \in Oldest(Matching(r, s))
  PROVE  Content(m) = Expected(calls[op[r]], op[r], r, TargetColumn(r, s))
<1>1. s \in Rank
  BY DEF Base, TypeOK
<1>2. m \in net /\ m.src = s /\ m.dst = r /\ m.op = op[r] /\ m.jp = jp[r]
  BY RightMessage
<1>3. Content(m) = Expected(calls[m.op], m.op, m.dst, RoundColumn(m.op, m.jp, m.src))
  BY <1>2 DEF NetInv, NetOK, OnItsWay
<1> QED
  BY <1>1, <1>2, <1>3, RightColumn

-----------------------------------------------------------------------------
(* The network after each action. *)

LEMMA NetReceive ==
  ASSUME Base, Base', LocalInv, NetInv, NoBathy, NEW r \in Rank, NEW s \in Rank,
         Receive(r, s)
  PROVE  NetInv'
<1> USE DEF NetInv
<1>1. /\ pc[r] = "recv" /\ s \in todo[r] /\ todo'[r] = todo[r] \ {s} /\ Others(r)
      /\ UNCHANGED <<calls, op, pc, jp, works, nreq, sent>>
      /\ \/ s = r /\ UNCHANGED net
         \/ s # r /\ \E m \in Oldest(Matching(r, s)) : net' = net \ {m}
  BY ReceiveEffect
<1>2. CASE s = r /\ UNCHANGED net
  <2>1. RoundsKept(r) /\ CallsKept
    BY <1>1, <1>2, OwnSliceRounds, NoCallLost
  <2>2. \A m \in net : /\ works'[m.src][m.dst] = works[m.src][m.dst]
                       /\ (m.ref /\ m.src = r) =>
                            op'[r] = op[r] /\ jp'[r] = jp[r] /\ pc'[r] \in {"send", "recv"}
    BY <1>1
  <2> QED
    BY <1>1, <1>2, <2>1, <2>2, NetQuiet
<1>3. CASE s # r /\ \E m \in Oldest(Matching(r, s)) : net' = net \ {m}
  <2>1. PICK m \in Oldest(Matching(r, s)) : net' = net \ {m}
    BY <1>3
  <2>2. m \in net /\ m.src = s /\ m.dst = r /\ m.op = op[r] /\ m.jp = jp[r]
    BY <1>1, <1>3, RightMessage
  <2>3. \A x, y \in Rank : \A k, j : Posted(x, y, k, j)' <=> Posted(x, y, k, j)
    BY <1>1 DEF Posted, Others
  <2>4. \A x, y \in Rank : \A k, j :
          Received(x, y, k, j)' <=> \/ Received(x, y, k, j)
                                    \/ x = s /\ y = r /\ k = op[r] /\ j = jp[r]
    BY <1>1 DEF Received, Others
  <2>5. ASSUME NEW o \in net' PROVE OnItsWay(o)' /\ (o.ref => Awaited(o)')
    <3>1. o \in net /\ o # m
      BY <2>1, <2>5
    <3>2. OnItsWay(o) /\ (o.ref => Awaited(o)) /\ o.src \in Rank /\ o.dst \in Rank
      BY <3>1, MessageTypes DEF NetOK, PendingOK, Base
    <3>3. ~(o.src = s /\ o.dst = r /\ o.op = op[r] /\ o.jp = jp[r])
      BY <2>2, <3>1 DEF UniqueOK
    <3>4. /\ Posted(o.src, o.dst, o.op, o.jp)'
          /\ ~Received(o.src, o.dst, o.op, o.jp)'
      BY <2>3, <2>4, <3>2, <3>3 DEF OnItsWay
    <3>5. Content(o)' = Content(o)
      BY <1>1 DEF Content
    <3>6. OnItsWay(o)'
      BY <1>1, <3>2, <3>4, <3>5 DEF OnItsWay, Transfer, RoundTag, RoundColumn
    <3>7. o.ref => Awaited(o)'
      BY <1>1, <3>2 DEF Awaited, Call
    <3> QED
      BY <3>6, <3>7
  <2>6. NetOK' /\ PendingOK'
    BY <2>5 DEF NetOK, PendingOK
  <2>7. OrderOK' /\ UniqueOK'
    BY <2>1 DEF OrderOK, UniqueOK, Earlier
  <2>8. InFlight'
    <3> SUFFICES ASSUME NEW x \in Rank, NEW y \in Rank, NEW k \in 1 .. Len(calls),
                        NEW j \in Passes(k), Transfer(k, j, x, y),
                        Posted(x, y, k, j)', ~Received(x, y, k, j)'
                 PROVE  \E o \in net' : o.src = x /\ o.dst = y /\ o.op = k /\ o.jp = j
      BY <1>1 DEF InFlight, Passes, Transfer
    <3>1. PICK o \in net : o.src = x /\ o.dst = y /\ o.op = k /\ o.jp = j
      BY <2>3, <2>4 DEF InFlight
    <3>2. o # m
      BY <2>2, <2>4, <3>1
    <3> QED
      BY <2>1, <3>1, <3>2
  <2>9. Causal'
    <3> SUFFICES ASSUME NEW x \in Rank, NEW y \in Rank, NEW k \in 1 .. Len(calls),
                        NEW j \in Passes(k), Transfer(k, j, x, y), Received(x, y, k, j)'
                 PROVE  Posted(x, y, k, j)'
      BY <1>1 DEF Causal, Passes, Transfer
    <3>1. CASE Received(x, y, k, j)
      BY <2>3, <3>1 DEF Causal
    <3>2. CASE x = s /\ y = r /\ k = op[r] /\ j = jp[r]
      BY <2>2, <2>3, <3>2 DEF NetOK, OnItsWay
    <3> QED
      BY <2>4, <3>1, <3>2
  <2> QED
    BY <2>6, <2>7, <2>8, <2>9
<1> QED
  BY <1>1, <1>2, <1>3

LEMMA NetCopyOut ==
  ASSUME Base, NetInv, NEW m \in net, CopyOut(m)
  PROVE  NetInv'
<1> USE DEF NetInv
<1>0. PICK c : c = [m EXCEPT !.ref = FALSE, !.val = works[m.src][m.dst]]
  OBVIOUS
<1>1. /\ m.ref /\ net' = (net \ {m}) \cup {c}
      /\ UNCHANGED <<calls, op, pc, jp, todo, works, nreq, sent>>
  BY <1>0 DEF CopyOut
<1>2. /\ c.src = m.src /\ c.dst = m.dst /\ c.op = m.op /\ c.jp = m.jp
      /\ c.tag = m.tag /\ c.seq = m.seq /\ c.ref = FALSE
      /\ c.val = works[m.src][m.dst]
  BY <1>0, MessageTypes DEF Messages, Base
<1>3. /\ \A x, y, k, j : Posted(x, y, k, j)' <=> Posted(x, y, k, j)
      /\ \A x, y, k, j : Received(x, y, k, j)' <=> Received(x, y, k, j)
  BY <1>1 DEF Posted, Received
<1>4. ASSUME NEW o \in net PROVE OnItsWay(o)' /\ (o.ref => Awaited(o)')
  <2>1. OnItsWay(o) /\ (o.ref => Awaited(o))
    BY DEF NetOK, PendingOK
  <2>2. Content(o)' = Content(o)
    BY <1>1 DEF Content
  <2>3. OnItsWay(o)'
    BY <1>1, <1>3, <2>1, <2>2 DEF OnItsWay, Transfer, RoundTag, RoundColumn
  <2>4. o.ref => Awaited(o)'
    BY <1>1, <2>1 DEF Awaited, Call
  <2> QED
    BY <2>3, <2>4
<1>5. OnItsWay(c)'
  <2>1. OnItsWay(m)' /\ Content(c)' = Content(m)'
    BY <1>1, <1>2, <1>4 DEF Content
  <2> QED
    BY <1>2, <2>1 DEF OnItsWay
<1>6. NetOK' /\ PendingOK'
  BY <1>1, <1>2, <1>4, <1>5 DEF NetOK, PendingOK
<1>7. OrderOK'
  <2>1. ASSUME NEW m1 \in net', NEW m2 \in net', m1.src = m2.src, m1.dst = m2.dst,
               Earlier(m1.op, m1.jp, m2.op, m2.jp)
        PROVE  m1.seq < m2.seq
    <3>1. ASSUME NEW o \in net' PROVE o \in net \/ o = c
      BY <1>1, <3>1
    <3>2. CASE m1 = c /\ m2 = c
      BY <1>2, <2>1, <3>2 DEF OrderOK
    <3>3. CASE m1 = c /\ m2 \in net
      BY <1>2, <2>1, <3>3 DEF OrderOK
    <3>4. CASE m1 \in net /\ m2 = c
      BY <1>2, <2>1, <3>4 DEF OrderOK
    <3>5. CASE m1 \in net /\ m2 \in net
      BY <2>1, <3>5 DEF OrderOK
    <3> QED
      BY <3>1, <3>2, <3>3, <3>4, <3>5
  <2> QED
    BY <2>1 DEF OrderOK, Earlier
<1>8. UniqueOK'
  <2>1. ASSUME NEW o \in net, o # m, o.src = m.src, o.dst = m.dst, o.op = m.op, o.jp = m.jp
        PROVE  FALSE
    BY <2>1 DEF UniqueOK
  <2> QED
    BY <1>1, <1>2, <2>1 DEF UniqueOK
<1>9. ASSUME NEW o \in net
      PROVE  \E q \in net' : q.src = o.src /\ q.dst = o.dst /\ q.op = o.op /\ q.jp = o.jp
  BY <1>1, <1>2
<1>10. InFlight'
  <2> SUFFICES ASSUME NEW x \in Rank, NEW y \in Rank, NEW k \in 1 .. Len(calls),
                      NEW j \in Passes(k), Transfer(k, j, x, y),
                      Posted(x, y, k, j), ~Received(x, y, k, j)
               PROVE  \E o \in net' : o.src = x /\ o.dst = y /\ o.op = k /\ o.jp = j
    BY <1>1, <1>3 DEF InFlight, Passes, Transfer
  <2>1. PICK o \in net : o.src = x /\ o.dst = y /\ o.op = k /\ o.jp = j
    BY DEF InFlight
  <2> QED
    BY <1>9, <2>1
<1>11. Causal'
  BY <1>1, <1>3 DEF Causal, Passes, Transfer
<1> QED
  BY <1>6, <1>7, <1>8, <1>10, <1>11

LEMMA ISENDSlots ==
  ASSUME NEW x \in Rank, NEW y \in Rank, NEW d \in Rank, x # y, x # d, y # d
  PROVE  /\ IREQ(x, d) \in 1 .. NPROC-1
         /\ IREQ(x, y) # IREQ(x, d)
  BY CallsAssumption DEF IREQ, Rank

(* The slice that a task packs is what its destination expects. *)
LEMMA PackedContent ==
  ASSUME Base, LocalInv, NoBathy, NEW r \in Rank, NEW d \in todo[r], d # r, pc[r] = "send",
         Call(r).kind \in {"read", "coverH", "exchange"}
  PROVE  /\ nindex[r]
         /\ Slice(op[r], OwnColumn(r), d)
              = Expected(calls[op[r]], op[r], d, RoundColumn(op[r], jp[r], r))
<1>1. Call(r) = calls[op[r]]
  BY CurrentRound
<1>2. Nindex(r) /\ Sending(r)
  BY DEF LocalInv, NindexOK, Base, ControlOK, Control
<1>3. nindex[r]
  <2>1. [kind |-> Call(r).kind, n |-> Call(r).n] \in CallSet
    BY CurrentCall DEF Base, PositionOK
  <2>2. CASE Call(r).kind = "read"
    <3>1. r = Call(r).n
      BY <1>2, <2>2 DEF Sending, IsExchange
    <3>2. GSPEC \/ r = NPIO
      BY <2>1, <2>2, <3>1, TasksAssumption
    <3> QED
      BY <1>2, <3>2 DEF Nindex
  <2>3. CASE Call(r).kind = "exchange"
    <3>1. GSPEC
      BY <2>1, <2>3, TasksAssumption DEF IsExchange
    <3> QED
      BY <1>2, <3>1 DEF Nindex
  <2>4. CASE Call(r).kind = "coverH"
    BY <1>2, <2>4 DEF Nindex
  <2> QED
    BY <2>2, <2>3, <2>4
<1>4. Slice(op[r], OwnColumn(r), d)
        = Expected(calls[op[r]], op[r], d, RoundColumn(op[r], jp[r], r))
  <2>1. CASE Call(r).kind = "read"
    BY <1>1, <2>1 DEF OwnColumn, RoundColumn, Expected, IsCover, IsExchange
  <2>2. CASE Call(r).kind = "exchange"
    BY <1>1, <2>2 DEF OwnColumn, RoundColumn, Expected, IsCover, IsExchange
  <2>3. CASE Call(r).kind = "coverH"
    BY <1>1, <2>3 DEF OwnColumn, RoundColumn, Expected, IsCover, IsExchange
  <2> QED
    BY <2>1, <2>2, <2>3
<1> QED
  BY <1>3, <1>4

LEMMA NetPack ==
  ASSUME Base, Base', LocalInv, NetInv, NoBathy, NEW r \in Rank, NEW d \in Rank,
         PackAndSend(r, d)
  PROVE  NetInv'
<1>1. /\ pc[r] = "send" /\ pc'[r] = "send" /\ d \in todo[r] /\ Others(r)
      /\ todo'[r] = todo[r] \ {d}
      /\ UNCHANGED <<calls, op, pc, jp>>
      /\ works'[r][d] = IF nindex[r] THEN Slice(op[r], OwnColumn(r), d) ELSE Zero
      /\ \A x, y \in Rank : (x # r \/ y # d) => works'[x][y] = works[x][y]
      /\ Call(r).kind \in {"read", "coverH", "exchange", "bathy"}
  BY PackEffect
<1>2. CASE d = r
  <2>1. RoundsKept(r) /\ CallsKept
    BY <1>1, <1>2, OwnSliceRounds, NoCallLost
  <2>2. UNCHANGED <<net, sent, nreq>>
    BY <1>2 DEF PackAndSend
  <2>3. \A m \in net : works'[m.src][m.dst] = works[m.src][m.dst]
    <3> SUFFICES ASSUME NEW m \in net PROVE works'[m.src][m.dst] = works[m.src][m.dst]
      OBVIOUS
    <3>1. m.src # m.dst /\ m.src \in Rank /\ m.dst \in Rank
      BY MessageTypes DEF NetInv, NetOK, OnItsWay, Transfer, Base
    <3> QED
      BY <1>1, <1>2, <3>1
  <2>4. \A m \in net : (m.ref /\ m.src = r) =>
          op'[r] = op[r] /\ jp'[r] = jp[r] /\ pc'[r] \in {"send", "recv"}
    BY <1>1
  <2> QED
    BY <1>1, <2>1, <2>2, <2>3, <2>4, NetQuiet
<1>3. CASE d # r
  <2>0. PICK packed : packed = IF nindex[r] THEN Slice(op[r], OwnColumn(r), d) ELSE Zero
    OBVIOUS
  <2>1. Call(r).kind # "bathy" /\ Call(r).kind \in {"read", "coverH", "exchange"}
    BY <1>1, CurrentRound
  <2>2. /\ nindex[r] /\ packed = Slice(op[r], OwnColumn(r), d)
        /\ packed = Expected(calls[op[r]], op[r], d, RoundColumn(op[r], jp[r], r))
    BY <1>1, <1>3, <2>0, <2>1, PackedContent
  <2>3. Slice(op[r], OwnColumn(r), d) \in Slices
    BY <1>1, InCall, OwnColumnType, SliceType, PartType
  <2>4. Transfer(op[r], jp[r], r, d) /\ Tag(r, r) = RoundTag(op[r], jp[r], r)
    BY <1>1, <1>3, RoundOfSend, TagOfRound
  <2>5. works'[r][d] = packed
    BY <1>1, <2>0
  <2>6. packed \in Slices
    BY <2>2, <2>3
  <2>7. \/ /\ NonBlocking(Call(r)) /\ Post(Message(r, d, Zero, TRUE, FALSE))
           /\ nreq' = [nreq EXCEPT ![r][IREQ(r, d)] = d]
        \/ /\ \E sync \in BOOLEAN : Post(Message(r, d, packed, FALSE, sync))
           /\ UNCHANGED nreq
    BY <1>3, <2>0 DEF PackAndSend
  <2>8. CASE /\ NonBlocking(Call(r)) /\ Post(Message(r, d, Zero, TRUE, FALSE))
             /\ nreq' = [nreq EXCEPT ![r][IREQ(r, d)] = d]
    <3>1. PICK m \in Messages : m = Message(r, d, Zero, TRUE, FALSE)
      BY MessageType, PartType
    <3>2. /\ m.src = r /\ m.dst = d /\ m.op = op[r] /\ m.jp = jp[r] /\ m.seq = sent[r][d]
          /\ m.tag = RoundTag(op[r], jp[r], r) /\ m.ref = TRUE
      BY <2>4, <3>1 DEF Message
    <3>3. net' = net \cup {m} /\ sent' = [sent EXCEPT ![r][d] = @ + 1]
      BY <2>8, <3>1, <3>2 DEF Post
    <3>4. Content(m)' = Expected(calls[op[r]], op[r], d, RoundColumn(op[r], jp[r], r))
      BY <2>2, <2>5, <3>2 DEF Content
    <3>5. nreq \in [Rank -> [1 .. NPROC-1 -> 0 .. NPROC]]
      BY DEF Base, TypeOK
    <3>6. \A x, y \in Rank : (x # y /\ (x # r \/ y # d)) =>
            nreq'[x][IREQ(x, y)] = nreq[x][IREQ(x, y)]
      <4> SUFFICES ASSUME NEW x \in Rank, NEW y \in Rank, x # y, x # r \/ y # d
                   PROVE  nreq'[x][IREQ(x, y)] = nreq[x][IREQ(x, y)]
        OBVIOUS
      <4>1. CASE x # r
        BY <2>8, <3>5, <4>1
      <4>2. CASE x = r
        BY <1>3, <2>8, <3>5, <4>2, ISENDSlots
      <4> QED
        BY <4>1, <4>2
    <3>7. IREQ(r, d) \in 1 .. NPROC-1
      BY <1>3, CallsAssumption DEF IREQ, Rank
    <3>8. nreq'[r][IREQ(r, d)] = d
      BY <2>8, <3>5, <3>7
    <3>9. Call(r)' = Call(r)
      BY <1>1 DEF Call
    <3>10. Awaited(m)'
      BY <1>1, <2>1, <2>8, <3>2, <3>8, <3>9 DEF Awaited, NonBlocking, IsExchange
    <3> QED
      BY <1>1, <1>3, <2>4, <3>2, <3>3, <3>4, <3>6, <3>10, NetPost, ZenonT(40)
  <2>9. CASE /\ \E sync \in BOOLEAN : Post(Message(r, d, packed, FALSE, sync))
             /\ UNCHANGED nreq
    <3>1. PICK sync \in BOOLEAN : Post(Message(r, d, packed, FALSE, sync))
      BY <2>9
    <3>2. PICK m \in Messages : m = Message(r, d, packed, FALSE, sync)
      BY <2>6, MessageType
    <3>3. /\ m.src = r /\ m.dst = d /\ m.op = op[r] /\ m.jp = jp[r] /\ m.seq = sent[r][d]
          /\ m.tag = RoundTag(op[r], jp[r], r) /\ m.ref = FALSE /\ m.val = packed
      BY <2>4, <3>2 DEF Message
    <3>4. net' = net \cup {m} /\ sent' = [sent EXCEPT ![r][d] = @ + 1]
      BY <3>1, <3>2, <3>3 DEF Post
    <3>5. Content(m)' = Expected(calls[op[r]], op[r], d, RoundColumn(op[r], jp[r], r))
      BY <2>2, <3>3 DEF Content
    <3>6. \A x, y \in Rank : (x # y /\ (x # r \/ y # d)) =>
            nreq'[x][IREQ(x, y)] = nreq[x][IREQ(x, y)]
      BY <2>9
    <3> QED
      BY <1>1, <1>3, <2>4, <3>3, <3>4, <3>5, <3>6, NetPost
  <2> QED
    BY <2>7, <2>8, <2>9
<1> QED
  BY <1>2, <1>3

LEMMA NetSend ==
  ASSUME Base, LocalInv, NetInv, NoBathy, NEW r \in Rank, SendToPIO(r)
  PROVE  NetInv'
<1>1. /\ pc[r] = "send" /\ pc'[r] = "send" /\ todo[r] = {NPIO} /\ r # NPIO
      /\ Call(r).kind \in {"write", "coverA"} /\ Others(r) /\ todo'[r] = {}
      /\ UNCHANGED <<calls, op, pc, jp, works, nreq>>
      /\ \E sync \in BOOLEAN :
           Post(Message(r, NPIO,
                        Slice(op[r], OwnColumn(r),
                              IF Call(r).kind = "write" THEN r ELSE Whole),
                        FALSE, sync))
  BY SendEffect
<1>2. PICK v : v = Slice(op[r], OwnColumn(r), IF Call(r).kind = "write" THEN r ELSE Whole)
  OBVIOUS
<1>3. v \in Slices
  BY <1>1, <1>2, InCall, OwnColumnType, SliceType, PartType
<1>4. PICK sync \in BOOLEAN : Post(Message(r, NPIO, v, FALSE, sync))
  BY <1>1, <1>2
<1>5. /\ NPIO \in todo[r] /\ NPIO \in Rank
      /\ Transfer(op[r], jp[r], r, NPIO) /\ Tag(r, r) = RoundTag(op[r], jp[r], r)
  BY <1>1, RankType, RoundOfSend, TagOfRound
<1>6. v = Expected(calls[op[r]], op[r], NPIO, RoundColumn(op[r], jp[r], r))
  <2>1. Call(r) = calls[op[r]]
    BY DEF Call
  <2> QED
    BY <1>1, <1>2, <2>1 DEF OwnColumn, RoundColumn, Expected, IsCover, IsExchange
<1>7. PICK m \in Messages : m = Message(r, NPIO, v, FALSE, sync)
  BY <1>3, <1>5, MessageType
<1>8. /\ m.src = r /\ m.dst = NPIO /\ m.op = op[r] /\ m.jp = jp[r] /\ m.seq = sent[r][NPIO]
      /\ m.tag = RoundTag(op[r], jp[r], r) /\ m.ref = FALSE /\ m.val = v
  BY <1>5, <1>7 DEF Message
<1>9. net' = net \cup {m} /\ sent' = [sent EXCEPT ![r][NPIO] = @ + 1]
  BY <1>4, <1>7, <1>8 DEF Post
<1>10. Content(m)' = v /\ todo'[r] = todo[r] \ {NPIO}
  BY <1>1, <1>8 DEF Content
<1>11. /\ \A x, y \in Rank : works'[x][y] = works[x][y]
       /\ \A x, y \in Rank : nreq'[x][IREQ(x, y)] = nreq[x][IREQ(x, y)]
  BY <1>1
<1> QED
  BY <1>1, <1>5, <1>6, <1>8, <1>9, <1>10, <1>11, NetPost

(* The steps that post and receive nothing.  A task that leaves a round has *)
(* no MPI_ISEND of that round pending.                                      *)

LEMMA NoPending ==
  ASSUME Base, NetInv, NEW r \in Rank,
         \/ pc[r] \notin {"send", "recv"}
         \/ Call(r).kind \notin {"coverH", "exchange"}
  PROVE  \A m \in net : ~(m.ref /\ m.src = r)
  BY DEF NetInv, PendingOK, Awaited

LEMMA AllReceived ==
  ASSUME Base, NetInv, NoBathy, NEW r \in Rank, EndReceive(r)
  PROVE  \A m \in net : ~(m.ref /\ m.src = r)
<1> SUFFICES ASSUME NEW m \in net, m.ref, m.src = r PROVE FALSE
  OBVIOUS
<1>1. pc[r] = "recv" /\ WaitAll(r)
  BY EndReceiveEffect
<1>2. Awaited(m) /\ OnItsWay(m) /\ m.dst \in Rank
  BY MessageTypes DEF NetInv, PendingOK, NetOK, Base
<1>3. r # m.dst /\ (Call(r).kind = "coverH" => HasColumn(Call(r).n, r, jp[r]))
  BY <1>2 DEF OnItsWay, Awaited, Transfer, HasRound, Call
<1>4. \A q \in 1 .. NPROC-1 : PendingTo(r, nreq[r][q]) = {}
  BY <1>1, <1>2, <1>3 DEF WaitAll, Awaited, IsExchange
<1>5. IREQ(r, m.dst) \in 1 .. NPROC-1
  BY <1>2, <1>3, CallsAssumption DEF IREQ, Rank
<1>6. PendingTo(r, m.dst) = {}
  BY <1>2, <1>4, <1>5 DEF Awaited
<1> QED
  BY <1>6 DEF PendingTo

LEMMA NetStep ==
  ASSUME Base, Base', LocalInv, NetInv, NoBathy, NEW r \in Rank, TaskStep(r)
  PROVE  NetInv'
<1>1. CASE FirstCall(r) \/ NextCall(r)
  <2>1. PICK c \in CallSet : EnterCall(r, c) /\ CallsKept
    BY <1>1, Entering
  <2>2. pc[r] = "idle" /\ Others(r) /\ UNCHANGED <<works, nreq, sent, net>>
    BY <2>1, EnterEffect
  <2>3. \A m \in net : ~(m.ref /\ m.src = r)
    BY <2>2, NoPending
  <2>4. \A m \in net : works'[m.src][m.dst] = works[m.src][m.dst]
    BY <2>2
  <2> QED
    BY <1>1, <2>1, <2>2, <2>3, <2>4, EnterRounds, NetQuiet
<1>2. CASE Broadcast(r)
  <2>1. /\ pc[r] = "bcast" /\ Others(r) /\ UNCHANGED <<calls, works, nreq, sent, net>>
    BY <1>2, BroadcastEffect
  <2>2. \A m \in net : ~(m.ref /\ m.src = r)
    BY <2>1, NoPending
  <2>3. \A m \in net : works'[m.src][m.dst] = works[m.src][m.dst]
    BY <2>1
  <2> QED
    BY <1>2, <2>1, <2>2, <2>3, BroadcastRounds, NoCallLost, NetQuiet
<1>3. CASE ReadColumn(r)
  <2>1. /\ pc[r] = "pass" /\ Others(r) /\ UNCHANGED <<calls, works, nreq, sent, net>>
    BY <1>3, ReadColumnEffect
  <2>2. \A m \in net : ~(m.ref /\ m.src = r)
    BY <2>1, NoPending
  <2>3. \A m \in net : works'[m.src][m.dst] = works[m.src][m.dst]
    BY <2>1
  <2> QED
    BY <1>3, <2>1, <2>2, <2>3, ReadColumnRounds, NoCallLost, NetQuiet
<1>4. CASE NoColumn(r)
  <2>1. /\ pc[r] = "pass" /\ Others(r) /\ UNCHANGED <<calls, works, nreq, sent, net>>
    BY <1>4, NoColumnEffect
  <2>2. \A m \in net : ~(m.ref /\ m.src = r)
    BY <2>1, NoPending
  <2>3. \A m \in net : works'[m.src][m.dst] = works[m.src][m.dst]
    BY <2>1
  <2> QED
    BY <1>4, <2>1, <2>2, <2>3, NoColumnRounds, NoCallLost, NetQuiet
<1>5. CASE EndColumns(r)
  <2>1. /\ pc[r] = "pass" /\ Others(r) /\ UNCHANGED <<calls, works, nreq, sent, net>>
    BY <1>5, EndColumnsEffect
  <2>2. \A m \in net : ~(m.ref /\ m.src = r)
    BY <2>1, NoPending
  <2>3. \A m \in net : works'[m.src][m.dst] = works[m.src][m.dst]
    BY <2>1
  <2> QED
    BY <1>5, <2>1, <2>2, <2>3, EndColumnsRounds, NoCallLost, NetQuiet
<1>6. CASE \E d \in Rank : PackAndSend(r, d)
  BY <1>6, NetPack
<1>7. CASE SendToPIO(r)
  BY <1>7, NetSend
<1>8. CASE EndSend(r)
  <2>1. /\ Others(r) /\ UNCHANGED <<calls, works, nreq, sent, net>>
        /\ \/ Call(r).kind \in {"read", "write", "coverA"}
           \/ pc'[r] = "recv" /\ UNCHANGED <<op, jp>>
    BY <1>8, EndSendEffect
  <2>2. \A m \in net : (m.ref /\ m.src = r) =>
          op'[r] = op[r] /\ jp'[r] = jp[r] /\ pc'[r] \in {"send", "recv"}
    BY <2>1, NoPending
  <2>3. \A m \in net : works'[m.src][m.dst] = works[m.src][m.dst]
    BY <2>1
  <2> QED
    BY <1>8, <2>1, <2>2, <2>3, EndSendRounds, NoCallLost, NetQuiet
<1>9. CASE \E s \in Rank : Receive(r, s)
  BY <1>9, NetReceive
<1>10. CASE EndReceive(r)
  <2>1. Others(r) /\ UNCHANGED <<calls, works, nreq, sent, net>>
    BY <1>10, EndReceiveEffect
  <2>2. \A m \in net : ~(m.ref /\ m.src = r)
    BY <1>10, AllReceived
  <2>3. \A m \in net : works'[m.src][m.dst] = works[m.src][m.dst]
    BY <2>1
  <2> QED
    BY <1>10, <2>1, <2>2, <2>3, EndReceiveRounds, NoCallLost, NetQuiet
<1> QED
  BY <1>1, <1>2, <1>3, <1>4, <1>5, <1>6, <1>7, <1>8, <1>9, <1>10 DEF TaskStep

LEMMA NetSame ==
  ASSUME NetInv, UNCHANGED <<calls, op, pc, jp, todo, works, nreq, sent, net>>
  PROVE  NetInv'
<1> USE DEF NetInv
<1>1. /\ \A x, y, k, j : Posted(x, y, k, j)' <=> Posted(x, y, k, j)
      /\ \A x, y, k, j : Received(x, y, k, j)' <=> Received(x, y, k, j)
  BY DEF Posted, Received
<1>2. NetOK'
  BY <1>1 DEF NetOK, OnItsWay, Content, Transfer, RoundTag, RoundColumn
<1>3. PendingOK'
  BY DEF PendingOK, Awaited, Call
<1>4. OrderOK' /\ UniqueOK'
  BY DEF OrderOK, UniqueOK, Earlier
<1>5. InFlight' /\ Causal'
  BY <1>1 DEF InFlight, Causal, Passes, Transfer
<1> QED
  BY <1>2, <1>3, <1>4, <1>5
-----------------------------------------------------------------------------
(* What the tasks store. *)

LEMMA PlacementKept ==
  ASSUME Base, Base', Placement, CallsKept, UNCHANGED got
  PROVE  Placement'
<1> SUFFICES ASSUME NEW r \in Rank, NEW e \in got[r]
             PROVE  /\ e.op \in 1 .. Len(calls')
                    /\ e.val = Expected(calls'[e.op], e.op, r, e.col)
  BY DEF Placement
<1>1. e.op \in 1 .. Len(calls) /\ e.val = Expected(calls[e.op], e.op, r, e.col)
  BY DEF Placement
<1>2. Len(calls) \in Nat /\ Len(calls') \in Nat
  BY DEF Base, TypeOK
<1>3. calls'[e.op] = calls[e.op] /\ e.op \in 1 .. Len(calls')
  BY <1>1, <1>2, SameCall
<1> QED
  BY <1>1, <1>3

LEMMA PlacementStore ==
  ASSUME Base, Placement, NEW r \in Rank, pc[r] # "idle", UNCHANGED calls,
         NEW c, NEW v, Store(r, c, v), v = Expected(calls[op[r]], op[r], r, c)
  PROVE  Placement'
<1> SUFFICES ASSUME NEW x \in Rank, NEW e \in got'[x]
             PROVE  /\ e.op \in 1 .. Len(calls)
                    /\ e.val = Expected(calls[e.op], e.op, x, e.col)
  BY DEF Placement
<1>1. got \in [Rank -> SUBSET Entries] /\ op[r] \in 1 .. Len(calls)
  BY InCall DEF Base, TypeOK
<1>2. CASE e \in got[x]
  BY <1>2 DEF Placement
<1>3. CASE e \notin got[x]
  <2>1. x = r /\ e = [op |-> op[r], col |-> c, val |-> v]
    BY <1>1, <1>3 DEF Store
  <2> QED
    BY <1>1, <2>1
<1> QED
  BY <1>2, <1>3

LEMMA PlacementEndSend ==
  ASSUME Base, Base', LocalInv, Placement, NEW r \in Rank, EndSend(r)
  PROVE  Placement'
<1>1. /\ pc[r] = "send" /\ todo[r] = {} /\ UNCHANGED calls
      /\ \/ Call(r).kind = "read" /\ Store(r, 1, works[r][r])
         \/ Call(r).kind = "coverH" /\ Store(r, OwnColumn(r), works[r][r])
         \/ UNCHANGED got
  BY EndSendEffect
<1>2. Own(r) /\ Call(r) = calls[op[r]]
  BY DEF LocalInv, OwnOK, Call
<1>3. CASE Call(r).kind = "read" /\ Store(r, 1, works[r][r])
  <2>1. works[r][r] = Expected(calls[op[r]], op[r], r, 1)
    BY <1>1, <1>2, <1>3 DEF Own, OwnColumn, Expected, IsCover, IsExchange
  <2> QED
    BY <1>1, <1>3, <2>1, PlacementStore
<1>4. CASE Call(r).kind = "coverH" /\ Store(r, OwnColumn(r), works[r][r])
  <2>1. works[r][r] = Expected(calls[op[r]], op[r], r, OwnColumn(r))
    BY <1>1, <1>2, <1>4 DEF Own, Expected, IsExchange
  <2> QED
    BY <1>1, <1>4, <2>1, PlacementStore
<1>5. CASE UNCHANGED got
  BY <1>1, <1>5, NoCallLost, PlacementKept
<1> QED
  BY <1>1, <1>3, <1>4, <1>5

LEMMA PlacementReceive ==
  ASSUME Base, LocalInv, NetInv, NoBathy, Placement, NEW r \in Rank, NEW s \in Rank,
         Receive(r, s)
  PROVE  Placement'
<1>1. /\ pc[r] = "recv" /\ s \in todo[r] /\ Receiving(r) /\ UNCHANGED calls
      /\ \/ s = r /\ Store(r, s, Slice(op[r], OwnColumn(r), r))
         \/ /\ s # r
            /\ \E m \in Oldest(Matching(r, s)) : Store(r, TargetColumn(r, s), Content(m))
  BY ReceiveEffect
<1>2. CASE s = r /\ Store(r, s, Slice(op[r], OwnColumn(r), r))
  <2>1. Call(r).kind = "write" \/ Call(r).kind = "exchange"
    BY <1>1, <1>2, CurrentRound DEF Receiving, Sources
  <2>2. Slice(op[r], OwnColumn(r), r) = Expected(calls[op[r]], op[r], r, s)
    BY <1>2, <2>1 DEF OwnColumn, Expected, Call, IsCover, IsExchange
  <2> QED
    BY <1>1, <1>2, <2>2, PlacementStore
<1>3. CASE /\ s # r
           /\ \E m \in Oldest(Matching(r, s)) : Store(r, TargetColumn(r, s), Content(m))
  <2>1. PICK m \in Oldest(Matching(r, s)) : Store(r, TargetColumn(r, s), Content(m))
    BY <1>3
  <2>2. Content(m) = Expected(calls[op[r]], op[r], r, TargetColumn(r, s))
    BY <1>1, <1>3, RightContent
  <2> QED
    BY <1>1, <2>1, <2>2, PlacementStore
<1> QED
  BY <1>1, <1>2, <1>3

LEMMA PlacementStep ==
  ASSUME Base, Base', LocalInv, NetInv, NoBathy, Placement, NEW r \in Rank, TaskStep(r)
  PROVE  Placement'
<1>1. CASE FirstCall(r) \/ NextCall(r)
  <2>1. PICK c \in CallSet : EnterCall(r, c) /\ CallsKept
    BY <1>1, Entering
  <2>2. UNCHANGED got
    BY <2>1, EnterEffect
  <2> QED
    BY <2>1, <2>2, PlacementKept
<1>2. CASE Broadcast(r)
  <2>1. /\ pc[r] = "bcast" /\ UNCHANGED calls
        /\ \/ Call(r).kind = "scalar" /\ Store(r, 1, Slice(op[r], 1, Whole))
           \/ UNCHANGED got
    BY <1>2, BroadcastEffect
  <2>2. Call(r).kind = "scalar" =>
          Slice(op[r], 1, Whole) = Expected(calls[op[r]], op[r], r, 1)
    BY DEF Call, Expected, IsExchange
  <2> QED
    BY <2>1, <2>2, NoCallLost, PlacementKept, PlacementStore
<1>3. CASE ReadColumn(r)
  <2>0. PICK c : c = Column(Call(r).n, r, jp[r])
    OBVIOUS
  <2>1. /\ pc[r] = "pass" /\ UNCHANGED calls
        /\ \/ Call(r).kind = "coverA" /\ Store(r, c, Slice(op[r], c, Whole))
           \/ UNCHANGED got
    BY <1>3, <2>0, ReadColumnEffect
  <2>2. Call(r).kind = "coverA" =>
          Slice(op[r], c, Whole) = Expected(calls[op[r]], op[r], r, c)
    BY DEF Call, Expected, IsExchange
  <2> QED
    BY <2>1, <2>2, NoCallLost, PlacementKept, PlacementStore
<1>4. CASE EndSend(r)
  BY <1>4, PlacementEndSend
<1>5. CASE \E s \in Rank : Receive(r, s)
  BY <1>5, PlacementReceive
<1>6. CASE \/ NoColumn(r) \/ EndColumns(r) \/ SendToPIO(r) \/ EndReceive(r)
           \/ \E d \in Rank : PackAndSend(r, d)
  <2>1. UNCHANGED <<calls, got>>
    BY <1>6 DEF NoColumn, EndColumns, SendToPIO, EndReceive, PackAndSend
  <2> QED
    BY <2>1, NoCallLost, PlacementKept
<1> QED
  BY <1>1, <1>2, <1>3, <1>4, <1>5, <1>6 DEF TaskStep

-----------------------------------------------------------------------------
(* The invariant. *)

LEMMA InitInv == Init => Inv
<1> SUFFICES ASSUME Init PROVE Inv
  OBVIOUS
<1>1. Base
  BY InitBase
<1>2. /\ calls = << >> /\ net = {} /\ Len(calls) = 0
      /\ \A r \in Rank : /\ op[r] = 1 /\ pc[r] = "idle" /\ idxR[r] = 0 /\ idxW[r] = 0
                         /\ (GSPEC \/ r = NPIO) => nindex[r]
                         /\ got[r] = {}
  BY DEF Init
<1>3. LocalInv
  <2>1. TagsOK
    BY <1>2 DEF TagsOK, CallTags, Tags
  <2>2. NindexOK /\ OwnOK
    BY <1>2 DEF NindexOK, Nindex, OwnOK, Own
  <2> QED
    BY <2>1, <2>2 DEF LocalInv
<1>4. NetInv
  BY <1>2 DEF NetInv, NetOK, PendingOK, OrderOK, UniqueOK, InFlight, Causal
<1>5. Placement
  BY <1>2 DEF Placement
<1> QED
  BY <1>1, <1>3, <1>4, <1>5 DEF Inv

LEMMA LocalStep ==
  ASSUME Base, LocalInv, NEW r \in Rank, TaskStep(r)
  PROVE  LocalInv'
  BY LocalEnter, LocalBroadcast, LocalReadColumn, LocalNoColumn, LocalEndColumns,
     LocalPack, LocalSend, LocalEndSend, LocalReceive, LocalEndReceive DEF TaskStep

(* No task is in TREAT_BATHYFIELD. *)
LEMMA NoReuse ==
  ASSUME Base, NoBathy, NEW r \in Rank, StorageReused(r)
  PROVE  FALSE
<1>1. pc[r] = "recv" /\ Call(r).kind = "bathy"
  BY DEF StorageReused
<1> QED
  BY <1>1, CurrentRound

LEMMA NextInv == ASSUME NoBathy PROVE Inv /\ [Next]_vars => Inv'
<1> SUFFICES ASSUME Inv, [Next]_vars PROVE Inv'
  OBVIOUS
<1> USE DEF Inv
<1>1. Base'
  BY NextBase
<1>2. ASSUME NEW r \in Rank, TaskStep(r) PROVE Inv'
  BY <1>1, <1>2, LocalStep, NetStep, PlacementStep
<1>3. ASSUME NEW m \in net, CopyOut(m) PROVE Inv'
  <2>1. /\ UNCHANGED <<calls, op, pc, jp, todo, idxR, idxW, nindex, iflag, works, got>>
    BY <1>3 DEF CopyOut
  <2>2. LocalInv'
    BY <2>1, LocalSame
  <2>3. NetInv'
    BY <1>1, <1>3, NetCopyOut
  <2>4. Placement'
    BY <1>1, <2>1, NoCallLost, PlacementKept
  <2> QED
    BY <1>1, <2>2, <2>3, <2>4
<1>4. ASSUME NEW r \in Rank, StorageReused(r) PROVE Inv'
  BY <1>4, NoReuse
<1>5. CASE UNCHANGED vars
  <2>1. UNCHANGED <<calls, op, pc, jp, todo, idxR, idxW, nindex, iflag, works, nreq, sent,
                    net, got>>
    BY <1>5 DEF vars
  <2>2. LocalInv' /\ NetInv' /\ Placement'
    BY <1>1, <2>1, LocalSame, NetSame, NoCallLost, PlacementKept
  <2> QED
    BY <1>1, <2>2
<1> QED
  BY <1>2, <1>3, <1>4, <1>5 DEF Next, Finalize

-----------------------------------------------------------------------------
(* The results.  They hold of programs without TREAT_BATHYFIELD, whose     *)
(* exchange of counts leaves requests pending on a buffer that is gone.    *)

(* The inductive invariant holds in every state of every program that does *)
(* not call TREAT_BATHYFIELD.                                              *)
THEOREM Invariance == ASSUME NoBathy PROVE Spec => []Inv
<1>1. Init => Inv
  BY InitInv
<1>2. Inv /\ [Next]_vars => Inv'
  BY NextInv
<1> QED
  BY <1>1, <1>2, PTL DEF Spec

(* Every value a task stores in a column of a field is its own part of that *)
(* column of that call, for any number of tasks, threads and calls: the     *)
(* receives of READ_AND_SEND_MPI, GATHER_AND_WRITE_MPI and READ_SURF_COV    *)
(* never take the message of another call or pass.                          *)
THEOREM PlacementHolds == ASSUME NoBathy PROVE Spec => []Placement
<1>1. Inv => Placement
  BY DEF Inv
<1> QED
  BY <1>1, Invariance, PTL

(* No step writes to a column of XWORKS that a pending MPI_ISEND reads. *)
LEMMA BufferStep ==
  ASSUME Inv, NoBathy, [Next]_vars, NEW m \in net, m.ref, m \in net'
  PROVE  works'[m.src][m.dst] = works[m.src][m.dst]
<1> USE DEF Inv
<1>1. Awaited(m) /\ OnItsWay(m) /\ m.src \in Rank /\ m.dst \in Rank
  BY MessageTypes DEF NetInv, PendingOK, NetOK, Base
<1>2. ASSUME NEW r \in Rank, NEW d \in Rank, PackAndSend(r, d), m.src = r, m.dst = d
      PROVE  FALSE
  <2>1. pc[r] = "send" /\ d \in todo[r] /\ op[r] \in Nat /\ jp[r] \in Nat
    BY <1>2, PackEffect DEF Base, TypeOK
  <2>2. Posted(r, d, op[r], jp[r])
    BY <1>1, <1>2 DEF OnItsWay, Awaited
  <2> QED
    BY <2>1, <2>2 DEF Posted, Earlier
<1>3. ASSUME NEW r \in Rank, NEW d \in Rank, PackAndSend(r, d)
      PROVE  works'[m.src][m.dst] = works[m.src][m.dst]
  <2>1. \A x, y \in Rank : (x # r \/ y # d) => works'[x][y] = works[x][y]
    BY <1>3, PackEffect
  <2> QED
    BY <1>1, <1>2, <1>3, <2>1
<1>4. ASSUME NEW r \in Rank, StorageReused(r) PROVE FALSE
  BY <1>4, NoReuse
<1>5. ASSUME NEW r \in Rank, TaskStep(r), ~(\E d \in Rank : PackAndSend(r, d))
      PROVE  UNCHANGED works
  BY <1>5 DEF TaskStep, FirstCall, NextCall, EnterCall, Broadcast, ReadColumn, NoColumn,
     EndColumns, SendToPIO, EndSend, Receive, EndReceive
<1> QED
  BY <1>3, <1>4, <1>5 DEF Next, CopyOut, Finalize, vars

(* A column of XWORKS is not overwritten while an MPI_ISEND from it is      *)
(* pending: MPI_WAITALL, with the slots READ_AND_SEND_MPI gives to its      *)
(* requests, waits for all of them before the next pass packs the column.   *)
THEOREM BufferHolds == ASSUME NoBathy PROVE Spec => BufferIntact
<1>1. Inv /\ [Next]_vars => [\A m \in net : m.ref /\ m \in net' =>
                                works'[m.src][m.dst] = works[m.src][m.dst]]_vars
  BY BufferStep
<1> QED
  BY <1>1, Invariance, PTL DEF Spec, BufferIntact

(* When all tasks are between the same two calls, every message was         *)
(* received and the tag counters of READ_AND_SEND_MPI and                   *)
(* GATHER_AND_WRITE_MPI agree, which is what lets the next call match its   *)
(* messages by tag.                                                         *)
THEOREM SynchronisedHolds == ASSUME NoBathy PROVE Spec => []Synchronised
<1>1. Inv => Synchronised
  <2> SUFFICES ASSUME Inv, NEW k \in 1 .. MaxCalls + 1,
                      \A r \in Rank : pc[r] = "idle" /\ op[r] = k
               PROVE  /\ net = {}
                      /\ \A r, s \in Rank : idxR[r] = idxR[s] /\ idxW[r] = idxW[s]
    BY DEF Synchronised
  <2>1. ASSUME NEW m \in net PROVE FALSE
    <3>1. OnItsWay(m) /\ m.src \in Rank /\ m.dst \in Rank
      BY MessageTypes DEF Inv, NetInv, NetOK, Base
    <3>2. jp[m.src] = 0 /\ jp[m.dst] = 0
      BY <3>1 DEF Inv, Base, ControlOK, Control
    <3> QED
      BY <3>1, <3>2 DEF OnItsWay, Posted, Received
  <2>2. ASSUME NEW r \in Rank, NEW s \in Rank
        PROVE  idxR[r] = idxR[s] /\ idxW[r] = idxW[s]
    <3>1. /\ k \in Nat /\ Len(calls) \in Nat /\ k <= Len(calls) + 1
          /\ idxR[r] \in Nat /\ idxR[s] \in Nat /\ idxW[r] \in Nat /\ idxW[s] \in Nat
      BY DEF Inv, Base, TypeOK, PositionOK
    <3>2. Tags(r) /\ Tags(s)
      BY DEF Inv, LocalInv, TagsOK
    <3>3. CASE k <= Len(calls)
      <4>1. calls[k].idxW \in Nat
        BY <3>1, <3>3, CallTypes DEF Inv, Base
      <4> QED
        BY <3>2, <3>3, <4>1 DEF Tags
    <3>4. CASE k = Len(calls) + 1
      BY <3>2, <3>4 DEF Tags
    <3> QED
      BY <3>1, <3>3, <3>4
  <2> QED
    BY <2>1, <2>2
<1> QED
  BY <1>1, Invariance, PTL

-----------------------------------------------------------------------------
(* A task has all it asked for when it leaves a call (Completeness), and the  *)
(* protocol implements CollectiveIO.  What has arrived in the call a task is  *)
(* in (Arrived) is read off its place in the loops over passes and over tasks. *)

(* g has something in column c of the array of call k. *)
Has(g, k, c) == \E e \in g : e.op = k /\ e.col = c

(* The calls task r has left gave it every column it asked for. *)
Past(r) == \A k \in 1 .. op[r] - 1 : \A c \in Columns(calls[k], r) : Has(got[r], k, c)

(* A task that receives has stored what came from the tasks it no longer   *)
(* waits for.                                                              *)
FromTask(r, s) ==
  /\ Call(r).kind = "read" /\ s = Call(r).n => Has(got[r], op[r], 1)
  /\ Call(r).kind = "write" \/ IsExchange(Call(r)) => Has(got[r], op[r], s)
  /\ IsCover(Call(r)) /\ HasColumn(Call(r).n, s, jp[r])
       => Has(got[r], op[r], Column(Call(r).n, s, jp[r]))

Current(r) == pc[r] = "recv" => \A s \in Rank \ todo[r] : FromTask(r, s)

(* A task that keeps the columns of a cover has those of the passes before. *)
Keeps(r) == Call(r).kind = "coverH" \/ (Call(r).kind = "coverA" /\ r = NPIO)

Passed(r) ==
  pc[r] # "idle" /\ Keeps(r) =>
    \A s \in Rank : \A j \in 1 .. jp[r] - 1 :
      HasColumn(Call(r).n, s, j) => Has(got[r], op[r], Column(Call(r).n, s, j))

Arrived(r) == Past(r) /\ Current(r) /\ Passed(r)
ArrivedOK == \A r \in Rank : Arrived(r)

-----------------------------------------------------------------------------
(* Every column of a cover is read by a task in a pass. *)

LEMMA Division ==
  ASSUME NEW a \in Nat, NEW p \in Nat \ {0}
  PROVE  a \div p \in Nat /\ a % p \in 0 .. p - 1 /\ a = p * (a \div p) + (a % p)
  BY SMT

LEMMA EnoughColumns == ASSUME NEW n \in Nat PROVE IPAS(n) * NPROC >= n
  BY CallsAssumption, SMT DEF IPAS

LEMMA Smaller ==
  ASSUME NEW p \in Nat, NEW a \in Nat, NEW b \in Nat, p * a < p * b
  PROVE  a < b
  BY SMT

LEMMA Covered ==
  ASSUME NEW n \in Nat, NEW c \in 1 .. n
  PROVE  \E s \in Rank : \E j \in 1 .. IPAS(n) : HasColumn(n, s, j) /\ Column(n, s, j) = c
<1>0. PICK p \in Nat : p = IPAS(n)
  BY IPASType
<1>1. p * NPROC >= n /\ NPROC \in Nat
  BY <1>0, EnoughColumns, RankType
<1>2. p \in Nat \ {0}
  BY <1>1, SMT
<1>3. PICK s \in Nat, m \in 0 .. p - 1 : c - 1 = p * s + m
  <2>1. c - 1 \in Nat
    OBVIOUS
  <2>2. /\ (c - 1) \div p \in Nat /\ (c - 1) % p \in 0 .. p - 1
        /\ c - 1 = p * ((c - 1) \div p) + ((c - 1) % p)
    BY <1>2, <2>1, Division
  <2> QED
    BY <2>2, Zenon
<1>4. p * s < p * NPROC
  <2>1. p * s \in Nat /\ p * NPROC \in Nat
    BY <1>1, <1>2
  <2> QED
    BY <1>1, <1>3, <2>1
<1>5. s \in Rank
  BY <1>1, <1>4, Smaller DEF Rank
<1>6. m + 1 \in 1 .. p /\ Column(n, s, m + 1) = c
  BY <1>0, <1>2, <1>3, SMT DEF Column
<1> QED
  BY <1>0, <1>5, <1>6 DEF HasColumn

LEMMA ColumnRange ==
  ASSUME Base, NEW r \in Rank, pc[r] # "idle", NEW s \in Rank, jp[r] >= 1,
         HasColumn(Call(r).n, s, jp[r])
  PROVE  Column(Call(r).n, s, jp[r]) \in 1 .. Call(r).n
<1>1. Call(r).n \in Nat /\ IPAS(Call(r).n) \in Nat /\ jp[r] \in Nat /\ s \in Nat
  BY InCall, RankType
<1>2. PICK p \in Nat : p = IPAS(Call(r).n)
  BY <1>1
<1>3. p * s \in Nat
  BY <1>1, <1>2
<1>4. Column(Call(r).n, s, jp[r]) = p * s + jp[r]
  BY <1>2 DEF Column
<1> QED
  BY <1>1, <1>3, <1>4 DEF HasColumn

(* A task that reads a column has a pass to read it in. *)
LEMMA AColumn ==
  ASSUME NEW n \in Nat, NEW s \in Rank, HasColumn(n, s, 1)
  PROVE  IPAS(n) >= 1
<1>1. PICK p \in Nat : p = IPAS(n)
  BY IPASType
<1>2. p * s \in Nat /\ p * s + 1 <= n
  BY <1>1, RankType DEF HasColumn, Column
<1>3. p * NPROC >= n /\ NPROC \in Nat
  BY <1>1, EnoughColumns, RankType
<1>4. p # 0
  BY <1>2, <1>3
<1> QED
  BY <1>1, <1>4

-----------------------------------------------------------------------------
(* What a step leaves of what has arrived. *)

LEMMA HasMore ==
  ASSUME NEW g, NEW h, g \subseteq h, NEW k, NEW c, Has(g, k, c)
  PROVE  Has(h, k, c)
  BY DEF Has

LEMMA StoreGives ==
  ASSUME Base, NEW r \in Rank, NEW c, NEW v, Store(r, c, v)
  PROVE  /\ Has(got'[r], op[r], c)
         /\ \A x \in Rank : got[x] \subseteq got'[x]
<1> DEFINE e == [op |-> op[r], col |-> c, val |-> v]
<1>1. got \in [Rank -> SUBSET Entries] /\ got' = [got EXCEPT ![r] = @ \cup {e}]
  BY DEF Base, TypeOK, Store
<1>2. e \in got'[r] /\ e.op = op[r] /\ e.col = c
  BY <1>1
<1>3. \A x \in Rank : got[x] \subseteq got'[x]
  BY <1>1
<1> HIDE DEF e
<1> QED
  BY <1>2, <1>3 DEF Has

(* A task in the same call has what the calls before gave. *)
LEMMA PastStay ==
  ASSUME Base, NEW x \in Rank, Past(x), CallsKept, op'[x] = op[x], got[x] \subseteq got'[x]
  PROVE  Past(x)'
<1> SUFFICES ASSUME NEW k \in 1 .. op[x] - 1, NEW c \in Columns(calls'[k], x)
             PROVE  Has(got'[x], k, c)
  BY DEF Past
<1>1. k \in 1 .. Len(calls)
  BY DEF Base, TypeOK, PositionOK
<1>2. c \in Columns(calls[k], x)
  BY <1>1 DEF CallsKept
<1>3. Has(got[x], k, c)
  BY <1>2 DEF Past
<1> QED
  BY <1>3, HasMore

(* A task that leaves a call has what it gave, if all its columns came. *)
LEMMA ArrivedLeave ==
  ASSUME Base, NEW r \in Rank, Past(r), UNCHANGED calls, got[r] \subseteq got'[r],
         op'[r] = op[r] + 1, pc'[r] = "idle",
         \A c \in Columns(Call(r), r) : Has(got'[r], op[r], c)
  PROVE  Arrived(r)'
<1>1. Past(r)'
  <2> SUFFICES ASSUME NEW k \in 1 .. op'[r] - 1, NEW c \in Columns(calls'[k], r)
               PROVE  Has(got'[r], k, c)
    BY DEF Past
  <2>1. op[r] \in Nat
    BY DEF Base, TypeOK
  <2>2. CASE k = op[r]
    BY <2>2 DEF Call
  <2>3. CASE k \in 1 .. op[r] - 1
    <3>1. Has(got[r], k, c)
      BY <2>3 DEF Past
    <3> QED
      BY <3>1, HasMore
  <2> QED
    BY <2>1, <2>2, <2>3
<1>2. Current(r)' /\ Passed(r)'
  BY DEF Current, Passed
<1> QED
  BY <1>1, <1>2 DEF Arrived

LEMMA FromKept ==
  ASSUME NEW x \in Rank, NEW s \in Rank, FromTask(x, s), got[x] \subseteq got'[x],
         op'[x] = op[x], jp'[x] = jp[x], calls'[op[x]] = calls[op[x]]
  PROVE  FromTask(x, s)'
  BY HasMore DEF FromTask, Call, IsExchange, IsCover

LEMMA CurrentFrame ==
  ASSUME NEW x \in Rank, Current(x), got[x] \subseteq got'[x],
         pc'[x] = pc[x], op'[x] = op[x], jp'[x] = jp[x], todo'[x] = todo[x],
         pc[x] # "idle" => calls'[op[x]] = calls[op[x]]
  PROVE  Current(x)'
  BY FromKept DEF Current

LEMMA PassedFrame ==
  ASSUME NEW x \in Rank, Passed(x), got[x] \subseteq got'[x], pc[x] # "idle",
         op'[x] = op[x], jp'[x] = jp[x], calls'[op[x]] = calls[op[x]]
  PROVE  Passed(x)'
<1> SUFFICES ASSUME Keeps(x)', NEW s \in Rank, NEW j \in 1 .. jp[x] - 1,
                    HasColumn(Call(x)'.n, s, j)
             PROVE  Has(got'[x], op[x], Column(Call(x)'.n, s, j))
  BY DEF Passed
<1>1. Call(x)' = Call(x)
  BY DEF Call
<1>2. Keeps(x)
  BY <1>1 DEF Keeps
<1>3. Has(got[x], op[x], Column(Call(x).n, s, j))
  BY <1>1, <1>2 DEF Passed
<1> QED
  BY <1>1, <1>3, HasMore

(* The tasks that do not move. *)
LEMMA ArrivedOthers ==
  ASSUME Base, ArrivedOK, NEW r \in Rank, Others(r), CallsKept,
         \A x \in Rank : got[x] \subseteq got'[x],
         Arrived(r)'
  PROVE  ArrivedOK'
<1> SUFFICES ASSUME NEW x \in Rank \ {r} PROVE Arrived(x)'
  BY DEF ArrivedOK
<1>1. op'[x] = op[x] /\ pc'[x] = pc[x] /\ jp'[x] = jp[x] /\ todo'[x] = todo[x]
  BY DEF Others
<1>2. Arrived(x) /\ got[x] \subseteq got'[x]
  BY DEF ArrivedOK
<1>3. pc[x] # "idle" => calls'[op[x]] = calls[op[x]]
  BY InCall DEF CallsKept
<1>4. Past(x)'
  BY <1>1, <1>2, PastStay DEF Arrived
<1>5. Current(x)'
  BY <1>1, <1>2, <1>3, CurrentFrame DEF Arrived
<1>6. Passed(x)'
  <2>1. CASE pc[x] = "idle"
    BY <1>1, <2>1 DEF Passed
  <2> QED
    BY <1>1, <1>2, <1>3, <2>1, PassedFrame DEF Arrived
<1> QED
  BY <1>4, <1>5, <1>6 DEF Arrived

(* A task that stays in its call. *)
LEMMA ArrivedStay ==
  ASSUME Base, ArrivedOK, NEW r \in Rank, Others(r), UNCHANGED calls, op'[r] = op[r],
         \A x \in Rank : got[x] \subseteq got'[x],
         Current(r)', Passed(r)'
  PROVE  ArrivedOK'
<1>1. CallsKept
  BY NoCallLost
<1>2. Past(r)'
  BY <1>1, PastStay DEF ArrivedOK, Arrived
<1> QED
  BY <1>1, <1>2, ArrivedOthers DEF Arrived

(* A task that leaves its call. *)
LEMMA ArrivedLeaves ==
  ASSUME Base, ArrivedOK, NEW r \in Rank, Others(r), LeaveCall(r), UNCHANGED calls,
         \A x \in Rank : got[x] \subseteq got'[x],
         \A c \in Columns(Call(r), r) : Has(got'[r], op[r], c)
  PROVE  ArrivedOK'
<1>1. op'[r] = op[r] + 1 /\ pc'[r] = "idle"
  BY DEF LeaveCall, Base, TypeOK
<1>2. Arrived(r)'
  BY <1>1, ArrivedLeave DEF ArrivedOK, Arrived
<1> QED
  BY <1>2, NoCallLost, ArrivedOthers

-----------------------------------------------------------------------------
(* What each action leaves. *)

LEMMA EnterArrives ==
  ASSUME Base, ArrivedOK, NEW r \in Rank, FirstCall(r) \/ NextCall(r)
  PROVE  ArrivedOK'
<1>1. PICK c \in CallSet :
        /\ EnterCall(r, c) /\ op[r] \in 1 .. Len(calls')
        /\ calls'[op[r]].kind = c.kind /\ calls'[op[r]].n = c.n
        /\ CallsKept
  BY Entering
<1>2. /\ Others(r) /\ UNCHANGED <<op, got>>
      /\ jp'[r] = (IF IsCover(c) THEN 1 ELSE 0)
      /\ pc'[r] = "recv" => /\ c.kind \in {"read", "write"}
                            /\ c.kind = "read" => todo'[r] = {c.n}
                            /\ c.kind = "write" => todo'[r] = AllTasks
  BY <1>1, EnterEffect
<1>3. Call(r)'.kind = c.kind /\ Call(r)'.n = c.n
  BY <1>1, <1>2 DEF Call
<1>4. Past(r)'
  BY <1>1, <1>2, PastStay DEF ArrivedOK, Arrived
<1>5. Current(r)'
  <2> SUFFICES ASSUME pc'[r] = "recv", NEW s \in Rank \ todo'[r] PROVE FromTask(r, s)'
    BY DEF Current
  <2>1. c.kind = "read" /\ s # c.n
    BY <1>2 DEF AllTasks, Rank
  <2> QED
    BY <1>3, <2>1 DEF FromTask, IsExchange, IsCover
<1>6. Passed(r)'
  BY <1>2, <1>3 DEF Passed, Keeps, IsCover
<1> QED
  BY <1>1, <1>2, <1>4, <1>5, <1>6, ArrivedOthers DEF Arrived

LEMMA BroadcastArrives ==
  ASSUME Base, ArrivedOK, NEW r \in Rank, Broadcast(r)
  PROVE  ArrivedOK'
<1>1. /\ pc[r] = "bcast" /\ Others(r) /\ UNCHANGED calls
      /\ \/ /\ Call(r).kind = "scalar" /\ LeaveCall(r)
            /\ Store(r, 1, Slice(op[r], 1, Whole))
         \/ pc'[r] = "pass" /\ UNCHANGED <<op, jp, got>>
  BY BroadcastEffect
<1>2. CASE /\ Call(r).kind = "scalar" /\ LeaveCall(r)
           /\ Store(r, 1, Slice(op[r], 1, Whole))
  <2>1. Has(got'[r], op[r], 1) /\ \A x \in Rank : got[x] \subseteq got'[x]
    BY <1>2, StoreGives
  <2>2. Columns(Call(r), r) = {1}
    BY <1>2 DEF Columns, IsExchange
  <2> QED
    BY <1>1, <1>2, <2>1, <2>2, ArrivedLeaves
<1>3. CASE pc'[r] = "pass" /\ UNCHANGED <<op, jp, got>>
  <2>1. Current(r)'
    BY <1>3 DEF Current
  <2>2. Passed(r)'
    BY <1>1, <1>3, PassedFrame DEF ArrivedOK, Arrived
  <2> QED
    BY <1>1, <1>3, <2>1, <2>2, ArrivedStay
<1> QED
  BY <1>1, <1>2, <1>3

LEMMA ReadColumnArrives ==
  ASSUME Base, ArrivedOK, NEW r \in Rank, ReadColumn(r)
  PROVE  ArrivedOK'
<1>0. PICK c : c = Column(Call(r).n, r, jp[r])
  OBVIOUS
<1>1. /\ pc[r] = "pass" /\ IsCover(Call(r)) /\ Others(r) /\ UNCHANGED <<calls, op, jp>>
      /\ \/ /\ Call(r).kind = "coverA" /\ r = NPIO
            /\ Store(r, c, Slice(op[r], c, Whole))
            /\ pc'[r] = "recv" /\ todo'[r] = Sources(r, jp[r])
         \/ UNCHANGED got /\ pc'[r] = "send"
  BY <1>0, ReadColumnEffect
<1>2. \A x \in Rank : got[x] \subseteq got'[x]
  BY <1>1, StoreGives
<1>3. Passed(r)'
  BY <1>1, <1>2, PassedFrame DEF ArrivedOK, Arrived
<1>4. Current(r)'
  <2> SUFFICES ASSUME pc'[r] = "recv", NEW s \in Rank \ todo'[r] PROVE FromTask(r, s)'
    BY DEF Current
  <2>1. /\ Store(r, c, Slice(op[r], c, Whole)) /\ todo'[r] = Sources(r, jp[r])
    BY <1>1
  <2>2. Has(got'[r], op[r], c)
    BY <2>1, StoreGives
  <2>3. s = r \/ ~HasColumn(Call(r).n, s, jp[r])
    BY <2>1 DEF Sources
  <2>4. Call(r)' = Call(r)
    BY <1>1 DEF Call
  <2> QED
    BY <1>0, <1>1, <2>2, <2>3, <2>4 DEF FromTask, IsCover, IsExchange
<1> QED
  BY <1>1, <1>2, <1>3, <1>4, ArrivedStay

LEMMA NoColumnArrives ==
  ASSUME Base, ArrivedOK, NEW r \in Rank, NoColumn(r)
  PROVE  ArrivedOK'
<1>1. /\ pc[r] = "pass" /\ IsCover(Call(r)) /\ ~HasColumn(Call(r).n, r, jp[r])
      /\ Others(r) /\ UNCHANGED <<calls, op, got>>
      /\ \/ /\ pc'[r] = "recv" /\ todo'[r] = Sources(r, jp[r]) /\ jp'[r] = jp[r]
         \/ /\ Call(r).kind = "coverA" /\ r # NPIO
            /\ pc'[r] = "pass" /\ jp'[r] = jp[r] + 1
  BY NoColumnEffect
<1>2. Call(r)' = Call(r)
  BY <1>1 DEF Call
<1>3. Passed(r)'
  <2>1. CASE jp'[r] = jp[r]
    BY <1>1, <2>1, PassedFrame DEF ArrivedOK, Arrived
  <2>2. CASE Call(r).kind = "coverA" /\ r # NPIO
    BY <1>2, <2>2 DEF Passed, Keeps
  <2> QED
    BY <1>1, <2>1, <2>2
<1>4. Current(r)'
  <2> SUFFICES ASSUME pc'[r] = "recv", NEW s \in Rank \ todo'[r] PROVE FromTask(r, s)'
    BY DEF Current
  <2>1. todo'[r] = Sources(r, jp[r]) /\ jp'[r] = jp[r]
    BY <1>1
  <2>2. ~HasColumn(Call(r).n, s, jp[r])
    BY <1>1, <2>1 DEF Sources
  <2> QED
    BY <1>1, <1>2, <2>1, <2>2 DEF FromTask, IsCover, IsExchange
<1> QED
  BY <1>1, <1>3, <1>4, ArrivedStay

LEMMA EndColumnsArrives ==
  ASSUME Base, ArrivedOK, NEW r \in Rank, EndColumns(r)
  PROVE  ArrivedOK'
<1>1. /\ pc[r] = "pass" /\ IsCover(Call(r)) /\ jp[r] > IPAS(Call(r).n)
      /\ Others(r) /\ LeaveCall(r) /\ UNCHANGED <<calls, got>>
  BY EndColumnsEffect
<1>2. ASSUME NEW c \in Columns(Call(r), r) PROVE Has(got[r], op[r], c)
  <2>1. Keeps(r) /\ c \in 1 .. Call(r).n
    BY <1>1 DEF Columns, Keeps, IsCover, IsExchange
  <2>2. Call(r).n \in Nat /\ IPAS(Call(r).n) \in Nat /\ jp[r] \in Nat
    BY <1>1, InCall
  <2>3. PICK s \in Rank, j \in 1 .. IPAS(Call(r).n) :
          HasColumn(Call(r).n, s, j) /\ Column(Call(r).n, s, j) = c
    BY <2>1, <2>2, Covered
  <2>4. j \in 1 .. jp[r] - 1
    BY <1>1, <2>2
  <2> QED
    BY <1>1, <2>1, <2>3, <2>4 DEF ArrivedOK, Arrived, Passed
<1> QED
  BY <1>1, <1>2, ArrivedLeaves

LEMMA SendArrives ==
  ASSUME Base, ArrivedOK, NEW r \in Rank,
         SendToPIO(r) \/ \E d \in Rank : PackAndSend(r, d)
  PROVE  ArrivedOK'
<1>1. /\ pc[r] = "send" /\ pc'[r] = "send" /\ Others(r) /\ UNCHANGED <<calls, op, jp, got>>
  BY SendEffect, PackEffect
<1>2. Current(r)'
  BY <1>1 DEF Current
<1>3. Passed(r)'
  BY <1>1, PassedFrame DEF ArrivedOK, Arrived
<1> QED
  BY <1>1, <1>2, <1>3, ArrivedStay

LEMMA EndSendArrives ==
  ASSUME Base, ArrivedOK, NEW r \in Rank, EndSend(r)
  PROVE  ArrivedOK'
<1>0. PICK v : v = works[r][r]
  OBVIOUS
<1>1. /\ pc[r] = "send" /\ Others(r) /\ UNCHANGED calls
      /\ \/ /\ Call(r).kind = "read" /\ Store(r, 1, v) /\ LeaveCall(r)
         \/ /\ Call(r).kind = "write" /\ r # NPIO /\ LeaveCall(r) /\ UNCHANGED got
         \/ /\ Call(r).kind = "coverH" /\ Store(r, OwnColumn(r), v)
            /\ pc'[r] = "recv" /\ todo'[r] = Sources(r, jp[r])
            /\ UNCHANGED <<op, jp>>
         \/ /\ IsExchange(Call(r)) /\ pc'[r] = "recv" /\ todo'[r] = AllTasks
            /\ UNCHANGED <<op, jp, got>>
         \/ /\ Call(r).kind = "coverA" /\ r # NPIO /\ pc'[r] = "pass"
            /\ UNCHANGED <<op, got>>
  BY <1>0, EndSendEffect
<1>2. Call(r).kind \in Kinds
  BY <1>1, InCall
<1>3. CASE Call(r).kind = "read" /\ Store(r, 1, v) /\ LeaveCall(r)
  <2>1. Has(got'[r], op[r], 1) /\ \A x \in Rank : got[x] \subseteq got'[x]
    BY <1>3, StoreGives
  <2>2. Columns(Call(r), r) = {1}
    BY <1>3 DEF Columns, IsExchange
  <2> QED
    BY <1>1, <1>3, <2>1, <2>2, ArrivedLeaves
<1>4. CASE Call(r).kind = "write" /\ r # NPIO /\ LeaveCall(r) /\ UNCHANGED got
  <2>1. Columns(Call(r), r) = {}
    BY <1>4 DEF Columns, IsExchange
  <2> QED
    BY <1>1, <1>4, <2>1, ArrivedLeaves
<1>5. CASE /\ Call(r).kind = "coverH" /\ Store(r, OwnColumn(r), v)
           /\ pc'[r] = "recv" /\ todo'[r] = Sources(r, jp[r])
           /\ UNCHANGED <<op, jp>>
  <2>1. Has(got'[r], op[r], OwnColumn(r)) /\ \A x \in Rank : got[x] \subseteq got'[x]
    BY <1>5, StoreGives
  <2>2. OwnColumn(r) = Column(Call(r).n, r, jp[r]) /\ Call(r)' = Call(r)
    BY <1>1, <1>5 DEF OwnColumn, IsCover, IsExchange, Call
  <2>3. Current(r)'
    <3> SUFFICES ASSUME NEW s \in Rank \ todo'[r] PROVE FromTask(r, s)'
      BY DEF Current
    <3>1. s = r \/ ~HasColumn(Call(r).n, s, jp[r])
      BY <1>5 DEF Sources
    <3> QED
      BY <1>5, <2>1, <2>2, <3>1 DEF FromTask, IsCover, IsExchange
  <2>4. Passed(r)'
    BY <1>1, <1>5, <2>1, PassedFrame DEF ArrivedOK, Arrived
  <2> QED
    BY <1>1, <1>5, <2>1, <2>3, <2>4, ArrivedStay
<1>6. CASE /\ IsExchange(Call(r)) /\ pc'[r] = "recv" /\ todo'[r] = AllTasks
           /\ UNCHANGED <<op, jp, got>>
  <2>1. Current(r)'
    BY <1>6 DEF Current, AllTasks, Rank
  <2>2. Passed(r)'
    BY <1>1, <1>6, PassedFrame DEF ArrivedOK, Arrived
  <2> QED
    BY <1>1, <1>6, <2>1, <2>2, ArrivedStay
<1>7. CASE /\ Call(r).kind = "coverA" /\ r # NPIO /\ pc'[r] = "pass"
           /\ UNCHANGED <<op, got>>
  <2>1. Current(r)'
    BY <1>7 DEF Current
  <2>2. Call(r)' = Call(r)
    BY <1>1, <1>7 DEF Call
  <2>3. Passed(r)'
    BY <1>7, <2>2 DEF Passed, Keeps
  <2> QED
    BY <1>1, <1>7, <2>1, <2>3, ArrivedStay
<1> QED
  BY <1>1, <1>3, <1>4, <1>5, <1>6, <1>7

LEMMA ReceiveArrives ==
  ASSUME Base, ArrivedOK, NEW r \in Rank, NEW s \in Rank, Receive(r, s)
  PROVE  ArrivedOK'
<1>1. /\ pc[r] = "recv" /\ s \in todo[r] /\ Receiving(r) /\ Others(r)
      /\ todo'[r] = todo[r] \ {s} /\ UNCHANGED <<calls, op, pc, jp>>
      /\ \/ s = r /\ Store(r, s, Slice(op[r], OwnColumn(r), r))
         \/ \E m \in Oldest(Matching(r, s)) : Store(r, TargetColumn(r, s), Content(m))
  BY ReceiveEffect
<1>2. \/ s = r /\ Has(got'[r], op[r], s)
      \/ Has(got'[r], op[r], TargetColumn(r, s))
  BY <1>1, StoreGives
<1>3. \A x \in Rank : got[x] \subseteq got'[x]
  BY <1>1, StoreGives
<1>4. Call(r)' = Call(r)
  BY <1>1 DEF Call
<1>5. FromTask(r, s)'
  <2>1. CASE s = r /\ Has(got'[r], op[r], s)
    <3>1. Call(r).kind # "read" \/ s # Call(r).n
      BY <1>1, <2>1 DEF Receiving, IsExchange
    <3>2. ~IsCover(Call(r))
      BY <1>1, <2>1 DEF Receiving, Sources, IsCover, IsExchange
    <3> QED
      BY <1>1, <1>4, <2>1, <3>1, <3>2 DEF FromTask
  <2>2. CASE Has(got'[r], op[r], TargetColumn(r, s))
    BY <1>1, <1>4, <2>2 DEF FromTask, TargetColumn, IsCover, IsExchange
  <2> QED
    BY <1>2, <2>1, <2>2
<1>6. Current(r)'
  <2> SUFFICES ASSUME NEW x \in Rank \ todo'[r] PROVE FromTask(r, x)'
    BY DEF Current
  <2>1. CASE x = s
    BY <1>5, <2>1
  <2>2. CASE x # s
    <3>1. x \in Rank \ todo[r]
      BY <1>1, <2>2
    <3>2. FromTask(r, x)
      BY <1>1, <3>1 DEF ArrivedOK, Arrived, Current
    <3> QED
      BY <1>1, <1>3, <3>2, FromKept
  <2> QED
    BY <2>1, <2>2
<1>7. Passed(r)'
  BY <1>1, <1>3, PassedFrame DEF ArrivedOK, Arrived
<1> QED
  BY <1>1, <1>3, <1>6, <1>7, ArrivedStay

LEMMA EndReceiveArrives ==
  ASSUME Base, ArrivedOK, NEW r \in Rank, EndReceive(r)
  PROVE  ArrivedOK'
<1>1. /\ pc[r] = "recv" /\ todo[r] = {} /\ Receiving(r) /\ Others(r)
      /\ UNCHANGED <<calls, got>>
      /\ \/ IsCover(Call(r)) /\ pc'[r] = "pass" /\ jp'[r] = jp[r] + 1 /\ UNCHANGED op
         \/ ~IsCover(Call(r)) /\ LeaveCall(r)
  BY EndReceiveEffect
<1>2. \A s \in Rank : FromTask(r, s)
  BY <1>1 DEF ArrivedOK, Arrived, Current
<1>3. CASE IsCover(Call(r)) /\ pc'[r] = "pass" /\ jp'[r] = jp[r] + 1 /\ UNCHANGED op
  <2>1. Call(r)' = Call(r) /\ op[r] \in Nat /\ jp[r] \in Nat
    BY <1>1, <1>3, InCall DEF Call
  <2>2. Passed(r)'
    <3> SUFFICES ASSUME Keeps(r), NEW s \in Rank, NEW j \in 1 .. jp[r],
                        HasColumn(Call(r).n, s, j)
                 PROVE  Has(got[r], op[r], Column(Call(r).n, s, j))
      BY <1>1, <1>3, <2>1 DEF Passed, Keeps
    <3>1. CASE j = jp[r]
      BY <1>2, <1>3, <3>1 DEF FromTask
    <3>2. CASE j \in 1 .. jp[r] - 1
      BY <1>1, <3>2 DEF ArrivedOK, Arrived, Passed
    <3> QED
      BY <2>1, <3>1, <3>2
  <2>3. Current(r)'
    BY <1>3 DEF Current
  <2> QED
    BY <1>1, <1>3, <2>2, <2>3, ArrivedStay
<1>4. CASE ~IsCover(Call(r)) /\ LeaveCall(r)
  <2>1. \/ Call(r).kind = "read" /\ Call(r).n \in Rank
        \/ Call(r).kind = "write" /\ r = NPIO
        \/ IsExchange(Call(r))
    BY <1>1, <1>4, InCall DEF Receiving, IsCover
  <2>2. ASSUME NEW c \in Columns(Call(r), r) PROVE Has(got[r], op[r], c)
    BY <1>2, <2>1 DEF Columns, FromTask, IsExchange
  <2> QED
    BY <1>1, <1>4, <2>2, ArrivedLeaves
<1> QED
  BY <1>1, <1>3, <1>4

LEMMA ArrivedSame ==
  ASSUME Base, ArrivedOK, UNCHANGED <<calls, op, pc, jp, todo, got>>
  PROVE  ArrivedOK'
<1> SUFFICES ASSUME NEW x \in Rank PROVE Arrived(x)'
  BY DEF ArrivedOK
<1>1. Arrived(x)
  BY DEF ArrivedOK
<1>2. Past(x)'
  BY <1>1, NoCallLost, PastStay DEF Arrived
<1>3. Current(x)'
  BY <1>1, CurrentFrame DEF Arrived
<1>4. Passed(x)'
  BY <1>1, PassedFrame DEF Arrived, Passed
<1> QED
  BY <1>2, <1>3, <1>4 DEF Arrived

LEMMA NextArrived == Base /\ ArrivedOK /\ [Next]_vars => ArrivedOK'
<1> SUFFICES ASSUME Base, ArrivedOK, [Next]_vars PROVE ArrivedOK'
  OBVIOUS
<1>1. ASSUME NEW r \in Rank, TaskStep(r) PROVE ArrivedOK'
  BY <1>1, EnterArrives, BroadcastArrives, ReadColumnArrives, NoColumnArrives,
     EndColumnsArrives, SendArrives, EndSendArrives, ReceiveArrives,
     EndReceiveArrives DEF TaskStep
<1>2. ASSUME NEW m \in net, CopyOut(m) PROVE ArrivedOK'
  BY <1>2, ArrivedSame DEF CopyOut
<1>3. ASSUME NEW r \in Rank, StorageReused(r) PROVE ArrivedOK'
  BY <1>3, ArrivedSame DEF StorageReused
<1>4. CASE UNCHANGED vars
  BY <1>4, ArrivedSame DEF vars
<1> QED
  BY <1>1, <1>2, <1>3, <1>4 DEF Next, Finalize

LEMMA InitArrived == Init => ArrivedOK
  BY DEF Init, ArrivedOK, Arrived, Past, Current, Passed

(* When a task leaves a call, every column it asked for has arrived: the    *)
(* loops of READ_AND_SEND_MPI, GATHER_AND_WRITE_MPI and READ_SURF_COV miss  *)
(* no task, no pass and no column, for any number of tasks and threads and  *)
(* any sequence of calls, those of TREAT_BATHYFIELD included.               *)
THEOREM CompletenessHolds == Spec => []Completeness
<1>1. Init => ArrivedOK
  BY InitArrived
<1>2. Base /\ ArrivedOK /\ [Next]_vars => ArrivedOK'
  BY NextArrived
<1>3. ArrivedOK => Completeness
  BY DEF ArrivedOK, Arrived, Past, Completeness, Has
<1> QED
  BY <1>1, <1>2, <1>3, TypeCorrect, PTL DEF Spec

-----------------------------------------------------------------------------
(* What the refinement needs beside it. *)

(* A task stores only in the columns it asked for. *)
ColumnsOK == \A r \in Rank : \A e \in got[r] : e.col \in Columns(calls[e.op], r)

(* NPIO is in the call it broadcasts, or past it ... *)
BcastOK == \A k \in bcast : k <= op[NPIO]

(* ... and with HDIR='H' a task that reads columns has heard from it. *)
Heard(r) ==
  pc[r] \in {"pass", "send", "recv"} /\ Call(r).kind = "coverH" => op[r] <= op[NPIO]

HeardOK == \A r \in Rank : Heard(r)

(* A step of a task in a call leaves the call, or stays in it. *)
LEMMA InsideStep ==
  ASSUME Base, NEW r \in Rank, TaskStep(r), ~(FirstCall(r) \/ NextCall(r))
  PROVE  /\ pc[r] # "idle" /\ Others(r) /\ UNCHANGED calls
         /\ LeaveCall(r) \/ UNCHANGED op
<1>1. CASE Broadcast(r)
  BY <1>1, BroadcastEffect
<1>2. CASE ReadColumn(r)
  BY <1>2, ReadColumnEffect
<1>3. CASE NoColumn(r)
  BY <1>3, NoColumnEffect
<1>4. CASE EndColumns(r)
  BY <1>4, EndColumnsEffect
<1>5. CASE \E d \in Rank : PackAndSend(r, d)
  BY <1>5, PackEffect
<1>6. CASE SendToPIO(r)
  BY <1>6, SendEffect
<1>7. CASE EndSend(r)
  BY <1>7, EndSendEffect
<1>8. CASE \E s \in Rank : Receive(r, s)
  BY <1>8, ReceiveEffect
<1>9. CASE EndReceive(r)
  BY <1>9, EndReceiveEffect
<1> QED
  BY <1>1, <1>2, <1>3, <1>4, <1>5, <1>6, <1>7, <1>8, <1>9 DEF TaskStep

LEMMA StoredColumn ==
  ASSUME Base, NEW r \in Rank, TaskStep(r)
  PROVE  \/ UNCHANGED got
         \/ /\ pc[r] # "idle" /\ UNCHANGED calls
            /\ \E c \in Columns(Call(r), r) : \E v : Store(r, c, v)
<1>1. CASE FirstCall(r) \/ NextCall(r)
  BY <1>1, Entering, EnterEffect
<1>2. CASE Broadcast(r)
  <2>1. \/ UNCHANGED got
        \/ /\ pc[r] = "bcast" /\ UNCHANGED calls
           /\ Call(r).kind = "scalar" /\ Store(r, 1, Slice(op[r], 1, Whole))
    BY <1>2, BroadcastEffect
  <2> QED
    BY <2>1 DEF Columns, IsExchange
<1>3. CASE ReadColumn(r)
  <2>0. PICK c : c = Column(Call(r).n, r, jp[r])
    OBVIOUS
  <2>1. /\ pc[r] = "pass" /\ UNCHANGED calls /\ jp[r] >= 1 /\ HasColumn(Call(r).n, r, jp[r])
        /\ \/ UNCHANGED got
           \/ /\ Call(r).kind = "coverA" /\ r = NPIO
              /\ Store(r, c, Slice(op[r], c, Whole))
    BY <1>3, <2>0, ReadColumnEffect
  <2>2. c \in 1 .. Call(r).n
    BY <2>0, <2>1, ColumnRange
  <2> QED
    BY <2>1, <2>2 DEF Columns, IsExchange
<1>4. CASE EndSend(r)
  <2>0. PICK v : v = works[r][r]
    OBVIOUS
  <2>1. /\ pc[r] = "send" /\ UNCHANGED calls
        /\ \/ UNCHANGED got
           \/ Call(r).kind = "read" /\ Store(r, 1, v)
           \/ /\ Call(r).kind = "coverH" /\ HasColumn(Call(r).n, r, jp[r])
              /\ Store(r, OwnColumn(r), v)
    BY <1>4, <2>0, EndSendEffect
  <2>2. CASE /\ Call(r).kind = "coverH" /\ HasColumn(Call(r).n, r, jp[r])
             /\ Store(r, OwnColumn(r), v)
    <3>1. OwnColumn(r) = Column(Call(r).n, r, jp[r]) /\ jp[r] >= 1
      BY <2>1, <2>2 DEF OwnColumn, IsCover, IsExchange, Base, ControlOK, Control
    <3>2. OwnColumn(r) \in 1 .. Call(r).n
      BY <2>1, <2>2, <3>1, ColumnRange
    <3>3. OwnColumn(r) \in Columns(Call(r), r)
      BY <2>2, <3>2 DEF Columns, IsExchange
    <3> QED
      BY <2>1, <2>2, <3>3
  <2>3. CASE Call(r).kind = "read" /\ Store(r, 1, v)
    <3>1. 1 \in Columns(Call(r), r)
      BY <2>3 DEF Columns, IsExchange
    <3> QED
      BY <2>1, <2>3, <3>1
  <2> QED
    BY <2>1, <2>2, <2>3
<1>5. CASE \E s \in Rank : Receive(r, s)
  <2>1. PICK s \in Rank : Receive(r, s)
    BY <1>5
  <2>2. /\ pc[r] = "recv" /\ s \in todo[r] /\ Receiving(r) /\ UNCHANGED calls
        /\ \/ s = r /\ Store(r, s, Slice(op[r], OwnColumn(r), r))
           \/ \E m \in Oldest(Matching(r, s)) : Store(r, TargetColumn(r, s), Content(m))
    BY <2>1, ReceiveEffect
  <2>3. TargetColumn(r, s) \in Columns(Call(r), r)
    <3>1. CASE Call(r).kind = "write" \/ IsExchange(Call(r))
      <4>1. TargetColumn(r, s) = s
        BY <3>1 DEF TargetColumn, IsExchange, IsCover
      <4>2. Call(r).kind = "write" => r = NPIO
        BY <2>2 DEF Receiving, IsExchange
      <4>3. Columns(Call(r), r) = Rank
        BY <3>1, <4>2 DEF Columns, IsExchange
      <4> QED
        BY <4>1, <4>3
    <3>2. CASE IsCover(Call(r))
      <4>1. /\ HasColumn(Call(r).n, s, jp[r]) /\ jp[r] >= 1
            /\ Call(r).kind = "coverH" \/ (Call(r).kind = "coverA" /\ r = NPIO)
        BY <2>2, <3>2 DEF Receiving, Sources, IsCover, IsExchange, Base, ControlOK, Control
      <4>2. Column(Call(r).n, s, jp[r]) \in 1 .. Call(r).n
        BY <2>2, <4>1, ColumnRange
      <4> QED
        BY <4>1, <4>2 DEF TargetColumn, Columns, IsCover, IsExchange
    <3>3. CASE Call(r).kind = "read"
      BY <3>3 DEF TargetColumn, Columns, IsCover, IsExchange
    <3> QED
      BY <2>2, <3>1, <3>2, <3>3 DEF Receiving, IsCover
  <2>4. s = r => s \in Columns(Call(r), r)
    BY <2>2 DEF Receiving, Sources, Columns, IsExchange
  <2> QED
    BY <2>2, <2>3, <2>4
<1>6. CASE \/ NoColumn(r) \/ EndColumns(r) \/ SendToPIO(r) \/ EndReceive(r)
           \/ \E d \in Rank : PackAndSend(r, d)
  BY <1>6 DEF NoColumn, EndColumns, SendToPIO, EndReceive, PackAndSend
<1> QED
  BY <1>1, <1>2, <1>3, <1>4, <1>5, <1>6 DEF TaskStep

(* What a step stores is of the call of its task. *)
LEMMA StoredNow ==
  ASSUME Base, NEW r \in Rank, TaskStep(r), NEW x \in Rank
  PROVE  /\ got[x] \subseteq got'[x]
         /\ \A e \in got'[x] \ got[x] :
              x = r /\ e.op = op[r] /\ e.col \in Columns(Call(r), r)
<1>1. CASE UNCHANGED got
  BY <1>1
<1>2. ASSUME NEW c \in Columns(Call(r), r), NEW v, Store(r, c, v)
      PROVE  /\ got[x] \subseteq got'[x]
             /\ \A e \in got'[x] \ got[x] :
                  x = r /\ e.op = op[r] /\ e.col \in Columns(Call(r), r)
  <2>1. got \in [Rank -> SUBSET Entries]
    BY DEF Base, TypeOK
  <2>2. got'[x] = IF x = r THEN got[x] \cup {[op |-> op[r], col |-> c, val |-> v]}
                           ELSE got[x]
    BY <1>2, <2>1 DEF Store
  <2> QED
    BY <2>2
<1> QED
  BY <1>1, <1>2, StoredColumn

LEMMA ColumnsKept ==
  ASSUME Base, ColumnsOK, NEW r \in Rank, TaskStep(r), CallsKept, Placement
  PROVE  ColumnsOK'
<1> SUFFICES ASSUME NEW x \in Rank, NEW e \in got'[x]
             PROVE  e.col \in Columns(calls'[e.op], x)
  BY DEF ColumnsOK, Columns, IsExchange
<1>1. CASE e \in got[x]
  <2>1. e.op \in 1 .. Len(calls) /\ e.col \in Columns(calls[e.op], x)
    BY <1>1 DEF Placement, ColumnsOK
  <2> QED
    BY <2>1 DEF CallsKept
<1>2. CASE e \notin got[x]
  <2>1. x = r /\ e.op = op[r] /\ e.col \in Columns(Call(r), r) /\ UNCHANGED calls
    BY <1>2, StoredNow, StoredColumn
  <2> QED
    BY <2>1 DEF Call
<1> QED
  BY <1>1, <1>2

(* No task goes back. *)
LEMMA OpGrows ==
  ASSUME Base, NEW r \in Rank, TaskStep(r), NEW x \in Rank
  PROVE  op[x] \in Nat /\ op'[x] \in Nat /\ op[x] <= op'[x]
<1>1. op \in [Rank -> Nat \ {0}]
  BY DEF Base, TypeOK
<1>2. CASE FirstCall(r) \/ NextCall(r)
  <2>1. op' = op
    BY <1>2, Entering, EnterEffect
  <2> QED
    BY <1>1, <2>1
<1>3. CASE LeaveCall(r)
  BY <1>1, <1>3 DEF LeaveCall
<1>4. CASE UNCHANGED op
  BY <1>1, <1>4
<1> QED
  BY <1>2, <1>3, <1>4, InsideStep

LEMMA BcastKept ==
  ASSUME Base, BcastOK, NEW r \in Rank, TaskStep(r)
  PROVE  BcastOK'
<1>1. op[NPIO] \in Nat /\ op'[NPIO] \in Nat /\ op[NPIO] <= op'[NPIO]
  BY OpGrows, RankType
<1>2. bcast \subseteq Nat
  BY DEF Base, TypeOK
<1>3. bcast' \subseteq bcast \cup {op[NPIO]}
  BY DEF TaskStep, FirstCall, NextCall, EnterCall, Broadcast, ReadColumn, NoColumn, EndColumns,
     PackAndSend, SendToPIO, EndSend, Receive, EndReceive
<1> QED
  BY <1>1, <1>2, <1>3 DEF BcastOK

LEMMA HeardKept ==
  ASSUME Base, BcastOK, HeardOK, NEW r \in Rank, TaskStep(r), CallsKept
  PROVE  HeardOK'
<1>1. op[NPIO] \in Nat /\ op'[NPIO] \in Nat /\ op[NPIO] <= op'[NPIO]
  BY OpGrows, RankType
<1>2. Others(r)
  BY InsideStep, Entering, EnterEffect
<1>3. ASSUME NEW x \in Rank \ {r} PROVE Heard(x)'
  <2>1. op'[x] = op[x] /\ pc'[x] = pc[x] /\ op[x] \in Nat
    BY <1>2 DEF Others, Base, TypeOK
  <2>2. pc[x] # "idle" => calls'[op[x]] = calls[op[x]]
    BY InCall DEF CallsKept
  <2> QED
    BY <1>1, <2>1, <2>2 DEF HeardOK, Heard, Call
<1>4. Heard(r)'
  <2>1. CASE FirstCall(r) \/ NextCall(r)
    <3>1. PICK c \in CallSet :
            /\ EnterCall(r, c) /\ calls'[op[r]].kind = c.kind
      BY <2>1, Entering
    <3>2. /\ UNCHANGED op
          /\ pc'[r] = "send" => c.kind \in {"read", "write"} \/ IsExchange(c)
          /\ pc'[r] = "recv" => c.kind \in {"read", "write"}
          /\ pc'[r] = "pass" => (c.kind = "coverH" => NPROC = 1)
      BY <3>1, EnterEffect
    <3>3. NPROC = 1 => r = NPIO
      BY CallsAssumption DEF Rank
    <3> QED
      BY <1>1, <3>1, <3>2, <3>3 DEF Heard, Call, IsExchange
  <2>2. CASE LeaveCall(r)
    <3>1. pc'[r] = "idle"
      BY <2>2 DEF LeaveCall, Base, TypeOK
    <3> QED
      BY <3>1 DEF Heard
  <2>3. CASE Broadcast(r) /\ UNCHANGED <<calls, op>>
    <3>1. r = NPIO \/ op[r] \in bcast
      BY <2>3 DEF Broadcast
    <3>2. op[r] <= op[NPIO]
      BY <1>1, <3>1 DEF BcastOK
    <3> QED
      BY <2>3, <3>2 DEF Heard
  <2>4. CASE /\ UNCHANGED <<calls, op>>
             /\ pc[r] \in {"pass", "send", "recv"}
    <3>1. Call(r)' = Call(r)
      BY <2>4 DEF Call
    <3> QED
      BY <2>4, <3>1 DEF HeardOK, Heard
  <2>5. pc[r] \in {"pass", "send", "recv"} \/ Broadcast(r) \/ FirstCall(r) \/ NextCall(r)
    BY DEF TaskStep, ReadColumn, NoColumn, EndColumns, PackAndSend, SendToPIO, EndSend,
       Receive, EndReceive
  <2> QED
    BY <2>1, <2>2, <2>3, <2>4, <2>5, InsideStep
<1> QED
  BY <1>3, <1>4 DEF HeardOK

-----------------------------------------------------------------------------
(* The tasks that r needs in a call have come to it when r leaves. *)

Needs(k, r, s) ==
  \/ calls[k].kind = "scalar" /\ s = NPIO
  \/ calls[k].kind = "read" /\ s = calls[k].n
  \/ calls[k].kind = "write" /\ r = NPIO
  \/ IsExchange(calls[k])
  \/ calls[k].kind = "coverH" /\ (s = NPIO \/ HasColumn(calls[k].n, s, 1))
  \/ calls[k].kind = "coverA" /\ r = NPIO /\ HasColumn(calls[k].n, s, 1)

(* A task whose message was received has come to the call. *)
LEMMA SourceThere ==
  ASSUME Base, NetInv, NEW r \in Rank, NEW s \in Rank, pc[r] # "idle", NEW j \in Nat,
         Transfer(op[r], j, s, r), Received(s, r, op[r], j)
  PROVE  op[r] <= op[s]
<1>1. op[r] \in 1 .. Len(calls) /\ op[r] \in Nat /\ op[s] \in Nat
  BY InCall DEF Base, TypeOK
<1>2. j \in Passes(op[r])
  BY <1>1, TransferPass DEF Base
<1>3. Posted(s, r, op[r], j)
  BY <1>1, <1>2 DEF NetInv, Causal
<1> QED
  BY <1>1, <1>3 DEF Posted, Earlier

LEMMA NeededThere ==
  ASSUME Base, NetInv, NoBathy, BcastOK, HeardOK, NEW r \in Rank, TaskStep(r), LeaveCall(r),
         ~(FirstCall(r) \/ NextCall(r)),
         NEW s \in Rank, Needs(op[r], r, s)
  PROVE  op[r] <= op[s]
<1>1. /\ op[r] \in 1 .. Len(calls) /\ op[r] \in Nat /\ jp[r] \in Nat /\ pc[r] # "idle"
      /\ Call(r).kind \in Kinds /\ Call(r).n \in Nat /\ IPAS(Call(r).n) \in Nat
  BY InsideStep, InCall
<1>2. Call(r) = calls[op[r]]
  BY DEF Call
<1>3. op'[r] = op[r] + 1 /\ pc'[r] = "idle"
  BY DEF LeaveCall, Base, TypeOK
<1>4. CASE s = r
  BY <1>1, <1>4
<1>5. CASE Broadcast(r)
  <2>1. Call(r).kind = "scalar" /\ (r = NPIO \/ op[r] \in bcast)
    BY <1>1, <1>3, <1>5, BroadcastEffect DEF Broadcast
  <2>2. s = NPIO
    BY <1>2, <2>1 DEF Needs, IsExchange
  <2> QED
    BY <1>1, <2>1, <2>2 DEF BcastOK
<1>6. CASE EndColumns(r)
  <2>1. pc[r] = "pass" /\ IsCover(Call(r)) /\ jp[r] > IPAS(Call(r).n)
    BY <1>6, EndColumnsEffect
  <2>2. CASE Call(r).kind = "coverH" /\ s = NPIO
    BY <2>1, <2>2 DEF HeardOK, Heard
  <2>3. CASE /\ HasColumn(Call(r).n, s, 1) /\ s # r
             /\ Call(r).kind = "coverH" \/ (Call(r).kind = "coverA" /\ r = NPIO)
    <3>1. IPAS(Call(r).n) >= 1
      BY <1>1, <2>3, AColumn
    <3>2. Transfer(op[r], 1, s, r)
      BY <1>2, <2>3, <3>1 DEF Transfer, HasRound
    <3>3. Received(s, r, op[r], 1)
      BY <1>1, <2>1, <3>1 DEF Received, Earlier
    <3> QED
      BY <1>1, <3>2, <3>3, SourceThere
  <2> QED
    BY <1>2, <1>4, <2>1, <2>2, <2>3 DEF Needs, IsCover, IsExchange
<1>7. CASE EndSend(r)
  <2>1. \/ Call(r).kind = "read" /\ r = Call(r).n
        \/ Call(r).kind = "write" /\ r # NPIO
    BY <1>1, <1>3, <1>7, EndSendEffect
  <2> QED
    BY <1>2, <1>4, <2>1 DEF Needs, IsExchange
<1>8. CASE EndReceive(r)
  <2>1. pc[r] = "recv" /\ todo[r] = {} /\ Receiving(r) /\ ~IsCover(Call(r))
    BY <1>1, <1>3, <1>8, EndReceiveEffect
  <2>2. jp[r] = 0 /\ (IsExchange(Call(r)) => Call(r).kind = "exchange")
    BY <2>1, CurrentRound
  <2>3. Received(s, r, op[r], 0)
    BY <2>1, <2>2 DEF Received
  <2>4. s # r => Transfer(op[r], 0, s, r)
    BY <1>2, <2>1, <2>2 DEF Needs, Transfer, Receiving, IsCover, IsExchange
  <2> QED
    BY <1>1, <1>4, <2>3, <2>4, SourceThere
<1>9. Broadcast(r) \/ EndColumns(r) \/ EndSend(r) \/ EndReceive(r)
  <2>1. CASE ReadColumn(r)
    BY <1>1, <1>3, <2>1, ReadColumnEffect
  <2>2. CASE NoColumn(r)
    BY <1>1, <1>3, <2>2, NoColumnEffect
  <2>3. CASE \E d \in Rank : PackAndSend(r, d)
    BY <1>1, <1>3, <2>3, PackEffect
  <2>4. CASE SendToPIO(r)
    BY <1>1, <1>3, <2>4, SendEffect
  <2>5. CASE \E x \in Rank : Receive(r, x)
    BY <1>1, <1>3, <2>5, ReceiveEffect
  <2> QED
    BY <2>1, <2>2, <2>3, <2>4, <2>5 DEF TaskStep
<1> QED
  BY <1>5, <1>6, <1>7, <1>8, <1>9

-----------------------------------------------------------------------------
(* The steps of the protocol are steps of CollectiveIO, or leave it alone. *)

AbsCalls == [k \in 1 .. Len(calls) |-> [kind |-> calls[k].kind, n |-> calls[k].n]]
AbsDone == [r \in Rank |-> op[r] - 1]
AbsResult == [r \in Rank |-> {e \in got[r] : e.op < op[r]}]

(* The definitions CollectiveIO shares with the protocol. *)
LEMMA SharedDefinitions ==
  /\ Abstract!Rank = Rank
  /\ \A call, k, r : Abstract!Filled(call, k, r) = Filled(call, k, r)
  BY DEF Abstract!Rank, Rank, Abstract!Filled, Filled, Abstract!Columns, Columns,
     Abstract!IsExchange, IsExchange, Abstract!Expected, Expected, Abstract!Slice, Slice,
     Abstract!Whole, Whole

(* What a call gives depends on its kind and its number only. *)
LEMMA SameFilled ==
  ASSUME NEW a, NEW b, a.kind = b.kind, a.n = b.n, NEW k, NEW r
  PROVE  Filled(a, k, r) = Filled(b, k, r)
<1>1. Columns(a, r) = Columns(b, r)
  BY DEF Columns, IsExchange
<1>2. \A c : Expected(a, k, r, c) = Expected(b, k, r, c)
  BY DEF Expected, IsExchange
<1> QED
  BY <1>1, <1>2 DEF Filled

LEMMA ContributorsNeeded ==
  ASSUME TypeOK, NEW k \in 1 .. Len(calls), NEW r \in Rank,
         NEW s \in Abstract!Contributors(AbsCalls[k], r),
         calls[k].kind = "read" => calls[k].n \in Rank
  PROVE  s \in Rank /\ Needs(k, r, s)
<1>1. calls[k].kind \in Kinds
  BY CallTypes
<1>2. AbsCalls[k] = [kind |-> calls[k].kind, n |-> calls[k].n]
  BY DEF AbsCalls
<1>3. NPIO \in Rank
  BY RankType
<1> QED
  BY <1>1, <1>2, <1>3
  DEF Abstract!Contributors, Abstract!IsExchange, Abstract!Rank, Rank, Abstract!HasColumn,
      HasColumn, Abstract!Column, Column, Abstract!IPAS, IPAS, Needs, IsExchange, Kinds

(* The first task to arrive chooses the call. *)
LEMMA AgreeStep ==
  ASSUME Base, NEW r \in Rank, FirstCall(r)
  PROVE  \E c \in CallSet : Abstract!Agree(c)
<1>1. PICK c \in CallSet :
        /\ calls' = Append(calls, [kind |-> c.kind, n |-> c.n,
                                   idxR |-> idxR[r], idxW |-> idxW[r]])
        /\ EnterCall(r, c)
  BY DEF FirstCall
<1>2. op[r] = Len(calls) + 1 /\ op[r] <= MaxCalls
  BY DEF FirstCall
<1>3. UNCHANGED <<op, got>>
  BY <1>1, EnterEffect
<1>4. calls \in Seq(CallRecords) /\ Len(calls) \in Nat
  BY DEF Base, TypeOK
<1>5. c = [kind |-> c.kind, n |-> c.n]
  BY CallsAssumption
<1>6. [kind |-> c.kind, n |-> c.n, idxR |-> idxR[r], idxW |-> idxW[r]] \in CallRecords
  BY CallsAssumption DEF Base, TypeOK, CallRecords
<1>7. AbsCalls' = Append(AbsCalls, c)
  <2>1. Len(calls') = Len(calls) + 1
    BY <1>1, <1>4, <1>6
  <2>2. \A k \in 1 .. Len(calls) : calls'[k] = calls[k]
    BY <1>1, <1>4, <1>6
  <2>3. calls'[Len(calls) + 1].kind = c.kind /\ calls'[Len(calls) + 1].n = c.n
    BY <1>1, <1>4, <1>6
  <2> QED
    BY <1>4, <1>5, <2>1, <2>2, <2>3 DEF AbsCalls
<1>8. Len(AbsCalls) = Len(calls) /\ AbsDone[r] = Len(calls)
  BY <1>2, <1>4 DEF AbsCalls, AbsDone
<1>9. AbsDone' = AbsDone /\ AbsResult' = AbsResult
  BY <1>3 DEF AbsDone, AbsResult
<1>10. Len(calls) < MaxCalls
  BY <1>2, <1>4, CallsAssumption
<1>11. Abstract!Agree(c)
  BY <1>7, <1>8, <1>9, <1>10
  DEF Abstract!Agree, Abstract!Rank, Rank, AbsCalls, AbsDone, AbsResult
<1> QED
  BY <1>11

(* A step inside a call gives nothing yet. *)
LEMMA InsideResult ==
  ASSUME Base, NEW r \in Rank, TaskStep(r), UNCHANGED op
  PROVE  AbsDone' = AbsDone /\ AbsResult' = AbsResult
<1>1. ASSUME NEW x \in Rank
      PROVE  {e \in got'[x] : e.op < op'[x]} = {e \in got[x] : e.op < op[x]}
  <2>1. op[r] \in Nat /\ op'[x] = op[x]
    BY DEF Base, TypeOK
  <2>2. got[x] \subseteq got'[x] /\ \A e \in got'[x] \ got[x] : x = r /\ e.op = op[r]
    BY StoredNow
  <2> QED
    BY <2>1, <2>2
<1> QED
  BY <1>1 DEF AbsDone, AbsResult

(* What a task has of a call it leaves is what the call promises. *)
LEMMA LeaveResult ==
  ASSUME Base, Base', Placement', ColumnsOK', Completeness', NEW r \in Rank, TaskStep(r),
         pc[r] # "idle", UNCHANGED calls, op'[r] = op[r] + 1
  PROVE  {e \in got'[r] : e.op < op'[r]}
           = {e \in got[r] : e.op < op[r]} \cup Filled(calls[op[r]], op[r], r)
<1> DEFINE F == Filled(calls[op[r]], op[r], r)
<1>1. /\ op[r] \in 1 .. Len(calls) /\ op[r] \in Nat
      /\ got[r] \subseteq Entries /\ got'[r] \subseteq Entries
  BY InCall DEF Base, TypeOK
<1>2. \A e \in got'[r] : e.op \in Nat
  BY <1>1 DEF Entries
<1>3. ASSUME NEW e \in got'[r], e.op = op[r]
      PROVE  /\ e.col \in Columns(calls[op[r]], r)
             /\ e = [op |-> op[r], col |-> e.col,
                     val |-> Expected(calls[op[r]], op[r], r, e.col)]
  <2>1. e.val = Expected(calls[op[r]], op[r], r, e.col)
    BY <1>3 DEF Placement, Expected, Slice, Whole, IsExchange
  <2>2. e.col \in Columns(calls[op[r]], r)
    BY <1>3 DEF ColumnsOK, Columns, IsExchange
  <2>3. e = [op |-> e.op, col |-> e.col, val |-> e.val]
    BY <1>1, <1>3 DEF Entries
  <2> QED
    BY <1>3, <2>1, <2>2, <2>3
<1>4. ASSUME NEW e \in got'[r], e.op = op[r] PROVE e \in F
  BY <1>3, <1>4 DEF Filled
<1>5. ASSUME NEW e \in F PROVE e \in got'[r] /\ e.op = op[r]
  <2>1. PICK c \in Columns(calls[op[r]], r) :
          e = [op |-> op[r], col |-> c, val |-> Expected(calls[op[r]], op[r], r, c)]
    BY <1>5 DEF Filled
  <2>2. op[r] \in 1 .. op'[r] - 1
    BY <1>1
  <2>3. PICK x \in got'[r] : x.op = op[r] /\ x.col = c
    <3>1. \A k \in 1 .. op'[r] - 1 : \A b \in Columns(calls'[k], r) :
            \E x \in got'[r] : x.op = k /\ x.col = b
      BY DEF Completeness
    <3> QED
      BY <2>1, <2>2, <3>1
  <2>4. x = e
    BY <1>3, <2>1, <2>3
  <2> QED
    BY <2>1, <2>3, <2>4
<1>6. got[r] \subseteq got'[r] /\ \A e \in got'[r] \ got[r] : e.op = op[r]
  BY StoredNow
<1> HIDE DEF F
<1>7. {e \in got'[r] : e.op < op'[r]} = {e \in got[r] : e.op < op[r]} \cup F
  BY <1>1, <1>2, <1>4, <1>5, <1>6
<1> QED
  BY <1>7 DEF F

LEMMA CompleteStep ==
  ASSUME Inv, Inv', NoBathy, BcastOK, HeardOK, ColumnsOK', Completeness',
         NEW r \in Rank, TaskStep(r), LeaveCall(r), ~(FirstCall(r) \/ NextCall(r))
  PROVE  Abstract!Complete(r)
<1> USE DEF Inv
<1>1. pc[r] # "idle" /\ Others(r) /\ UNCHANGED calls
  BY InsideStep
<1>2. /\ op[r] \in 1 .. Len(calls) /\ op[r] \in Nat /\ Len(calls) \in Nat
      /\ Call(r).kind = "read" => Call(r).n \in Rank
  BY <1>1, InCall
<1>3. op \in [Rank -> Nat \ {0}] /\ op' = [op EXCEPT ![r] = @ + 1]
  BY DEF Base, TypeOK, LeaveCall
<1>4. op'[r] = op[r] + 1
  BY <1>3
<1>5. AbsDone[r] + 1 = op[r] /\ Len(AbsCalls) = Len(calls)
  BY <1>2 DEF AbsDone, AbsCalls
<1>6. AbsDone' = [AbsDone EXCEPT ![r] = op[r]]
  <2>1. op'[r] - 1 = op[r] /\ \A x \in Rank \ {r} : op'[x] - 1 = op[x] - 1
    BY <1>2, <1>3
  <2> QED
    BY <2>1 DEF AbsDone
<1>7. AbsCalls' = AbsCalls
  BY <1>1 DEF AbsCalls
<1>8. \A s \in Abstract!Contributors(AbsCalls[op[r]], r) : AbsDone[s] >= op[r] - 1
  <2> SUFFICES ASSUME NEW s \in Abstract!Contributors(AbsCalls[op[r]], r)
               PROVE  AbsDone[s] >= op[r] - 1
    OBVIOUS
  <2>1. s \in Rank /\ Needs(op[r], r, s)
    BY <1>2, ContributorsNeeded DEF Base, Call
  <2>2. op[r] <= op[s]
    BY <2>1, NeededThere
  <2> QED
    BY <1>2, <1>3, <2>1, <2>2 DEF AbsDone
<1>9. AbsResult' = [AbsResult EXCEPT ![r] = @ \cup Abstract!Filled(AbsCalls[op[r]], op[r], r)]
  <2>1. Abstract!Filled(AbsCalls[op[r]], op[r], r) = Filled(calls[op[r]], op[r], r)
    <3>1. AbsCalls[op[r]].kind = calls[op[r]].kind /\ AbsCalls[op[r]].n = calls[op[r]].n
      BY <1>2 DEF AbsCalls
    <3> QED
      BY <3>1, SharedDefinitions, SameFilled
  <2>2. AbsResult'[r] = AbsResult[r] \cup Filled(calls[op[r]], op[r], r)
    BY <1>1, <1>4, LeaveResult DEF AbsResult
  <2>3. ASSUME NEW x \in Rank \ {r} PROVE AbsResult'[x] = AbsResult[x]
    <3>1. got'[x] = got[x] /\ op'[x] = op[x]
      <4>1. op'[x] = op[x]
        BY <1>3
      <4>2. got[x] \subseteq got'[x] /\ \A e \in got'[x] \ got[x] : x = r
        BY StoredNow
      <4> QED
        BY <4>1, <4>2
    <3> QED
      BY <3>1 DEF AbsResult
  <2> QED
    BY <2>1, <2>2, <2>3 DEF AbsResult
<1>10. AbsDone[r] \in Nat /\ AbsDone[r] + 1 <= Len(AbsCalls)
  BY <1>2, <1>5 DEF AbsDone
<1> QED
  BY <1>2, <1>5, <1>6, <1>7, <1>8, <1>9, <1>10
  DEF Abstract!Complete, AbsCalls, AbsDone, AbsResult

-----------------------------------------------------------------------------
(* The theorem. *)

RefInv == Inv /\ ArrivedOK /\ ColumnsOK /\ BcastOK /\ HeardOK

LEMMA TaskRefines ==
  ASSUME Inv, Inv', NoBathy, ArrivedOK', ColumnsOK', BcastOK, HeardOK,
         NEW r \in Rank, TaskStep(r)
  PROVE  [Abstract!AbsNext]_(Abstract!absVars)
<1>1. CASE FirstCall(r)
  BY <1>1, AgreeStep DEF Inv, Abstract!AbsNext
<1>2. CASE NextCall(r)
  <2>1. UNCHANGED <<calls, op>>
    BY <1>2 DEF NextCall, EnterCall
  <2>2. AbsCalls' = AbsCalls /\ AbsDone' = AbsDone /\ AbsResult' = AbsResult
    BY <2>1, InsideResult DEF Inv, AbsCalls
  <2> QED
    BY <2>2 DEF Abstract!absVars, AbsCalls, AbsDone, AbsResult
<1>3. CASE LeaveCall(r) /\ ~(FirstCall(r) \/ NextCall(r))
  <2>1. Completeness'
    BY DEF ArrivedOK, Arrived, Past, Completeness, Has
  <2>2. Abstract!Complete(r)
    BY <1>3, <2>1, CompleteStep
  <2> QED
    BY <2>2, SharedDefinitions DEF Abstract!AbsNext
<1>4. CASE UNCHANGED <<calls, op>>
  <2>1. AbsCalls' = AbsCalls /\ AbsDone' = AbsDone /\ AbsResult' = AbsResult
    BY <1>4, InsideResult DEF Inv, AbsCalls
  <2> QED
    BY <2>1 DEF Abstract!absVars, AbsCalls, AbsDone, AbsResult
<1> QED
  BY <1>1, <1>2, <1>3, <1>4, InsideStep DEF Inv

LEMMA RefSame ==
  ASSUME RefInv, Inv', ArrivedOK', UNCHANGED <<calls, op, pc, bcast, got>>
  PROVE  RefInv'
<1>1. ColumnsOK' /\ BcastOK' /\ HeardOK'
  BY DEF RefInv, ColumnsOK, Columns, IsExchange, BcastOK, HeardOK, Heard, Call
<1> QED
  BY <1>1 DEF RefInv

LEMMA NextRef == ASSUME NoBathy PROVE RefInv /\ [Next]_vars => RefInv'
<1> SUFFICES ASSUME RefInv, [Next]_vars PROVE RefInv'
  OBVIOUS
<1>1. Inv' /\ ArrivedOK'
  BY NextInv, NextArrived DEF RefInv, Inv
<1>2. ASSUME NEW r \in Rank, TaskStep(r) PROVE RefInv'
  <2>1. CallsKept
    BY <1>2, InsideStep, Entering, NoCallLost DEF RefInv, Inv
  <2> QED
    BY <1>1, <1>2, <2>1, ColumnsKept, BcastKept, HeardKept DEF RefInv, Inv
<1>3. ASSUME NEW m \in net, CopyOut(m) PROVE RefInv'
  BY <1>1, <1>3, RefSame DEF CopyOut
<1>4. ASSUME NEW r \in Rank, StorageReused(r) PROVE RefInv'
  BY <1>1, <1>4, RefSame DEF StorageReused
<1>5. CASE UNCHANGED vars
  BY <1>1, <1>5, RefSame DEF vars
<1> QED
  BY <1>2, <1>3, <1>4, <1>5 DEF Next, Finalize

LEMMA NextRefines ==
  ASSUME NoBathy
  PROVE  RefInv /\ RefInv' /\ [Next]_vars => [Abstract!AbsNext]_(Abstract!absVars)
<1> SUFFICES ASSUME RefInv, RefInv', [Next]_vars
             PROVE  [Abstract!AbsNext]_(Abstract!absVars)
  OBVIOUS
<1>1. ASSUME NEW r \in Rank, TaskStep(r) PROVE [Abstract!AbsNext]_(Abstract!absVars)
  BY <1>1, TaskRefines DEF RefInv
<1>2. CASE UNCHANGED <<calls, op, got>>
  BY <1>2 DEF Abstract!absVars
<1>3. (\E r \in Rank : TaskStep(r)) \/ UNCHANGED <<calls, op, got>>
  BY DEF Next, CopyOut, StorageReused, Finalize, vars
<1> QED
  BY <1>1, <1>2, <1>3

(* The protocol implements CollectiveIO: seen from the program, each call  *)
(* of a task is one step, which gives it exactly the columns it asked for, *)
(* filled with its own points, and which is taken only when the tasks that *)
(* hold them have come to the call.                                        *)
THEOREM RefinementHolds == ASSUME NoBathy PROVE Spec => Refinement
<1>1. Init => RefInv
  <2>1. Init => ColumnsOK /\ BcastOK /\ HeardOK
    BY DEF Init, ColumnsOK, BcastOK, HeardOK, Heard
  <2> QED
    BY <2>1, InitInv, InitArrived DEF RefInv
<1>2. RefInv /\ [Next]_vars => RefInv'
  BY NextRef
<1>3. Init => Abstract!AbsInit
  BY DEF Init, Abstract!AbsInit, Abstract!Rank, Rank
<1>4. RefInv /\ RefInv' /\ [Next]_vars => [Abstract!AbsNext]_(Abstract!absVars)
  BY NextRefines
<1> QED
  BY <1>1, <1>2, <1>3, <1>4, PTL DEF Spec, Refinement, Abstract!AbsSpec

=============================================================================
