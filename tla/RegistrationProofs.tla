-------------------------- MODULE RegistrationProofs --------------------------
(***************************************************************************)
(* Proofs about Registration, for any number of handlers, channels, lists   *)
(* and requests: its types; that the codes of a list are issued in          *)
(* sequence; that a channel on the air is entitled to be there; and that    *)
(* only a channel moved between lists meets the unique constraint.          *)
(*                                                                         *)
(* None of these is inductive.  What makes CodesInSequence so is the lock   *)
(* of a list: a handler that has taken a number holds it (Exclusive), so    *)
(* that the counter is still what it has read when it commits (TxOK).  The  *)
(* others speak of what a handler has loaded and flushed as well as of the  *)
(* rows: what it is about to write on top of a row that may have changed.   *)
(***************************************************************************)
EXTENDS Registration, TLAPS

\* What is known of an open transaction, by the statement it is about to run.
TxOK(t) ==
  /\ t.stage # "idle" => /\ t.kind \in {"submit", "access", "approve", "reject"}
                         /\ t.chan \in Channels /\ t.list \in Lists
  /\ t.stage \notin {"idle", "load"} => t.seen \in ChannelRow
  /\ t.stage # "idle" /\ t.kind = "submit" => t.who \in Applicants
  /\ t.stage # "idle" /\ t.kind # "submit" => /\ t.req \in Requests
                                              /\ request[t.req] \in RequestRow
  /\ t.stage = "lookup" => t.kind = "submit"
  /\ t.stage \in {"load", "decide"} => t.kind # "submit"
  /\ t.stage = "ask" => t.kind = "access"
  /\ t.stage \in {"activate", "allocate"} => t.kind = "approve"
  /\ t.number # 0 => /\ t.stage \in {"decide", "commit"} /\ t.kind = "approve"
                     /\ t.number = next[t.list]
  /\ t.kind = "approve" /\ t.stage \in {"decide", "commit"} => t.number # 0

Transactions == \A h \in Handlers : TxOK(tx[h])

\* Two handlers never hold a number of the same list.
Exclusive ==
  \A g, h \in Handlers :
    g # h /\ tx[g].number # 0 /\ tx[h].number # 0 => tx[g].list # tx[h].list

RInv == TypeOK /\ Transactions /\ Exclusive /\ CodesInSequence

-----------------------------------------------------------------------------
\* An idle handler is a transaction of the right type, which knows nothing.
LEMMA IdleOK == Idle \in TxType /\ TxOK(Idle) /\ Idle.number = 0
  BY DEF Idle, TxType, TxOK, Kinds, Stages, ChannelRow

\* The invariant holds before the first update.
LEMMA InitRInv == Init => RInv
<1> SUFFICES ASSUME Init PROVE RInv
  OBVIOUS
<1>1. TypeOK
  BY IdleOK, RegistrationAssumption
  DEF Init, TypeOK, ChannelRow, Unregistered
<1>2. Transactions /\ Exclusive
  BY IdleOK DEF Init, Transactions, Exclusive
<1>3. CodesInSequence
  BY DEF Init, CodesInSequence
<1> QED
  BY <1>1, <1>2, <1>3 DEF RInv

\* A step that only moves one handler on keeps the invariant if the handler's
\* new state is sound and, where it holds a number, nobody else locks the list.
LEMMA StepRInv ==
  ASSUME RInv, NEW h \in Handlers, NEW t \in TxType, TxOK(t),
         t.number # 0 => ~ListLocked(h, t.list), Step(h, t)
  PROVE  RInv'
<1>1. /\ tx' = [tx EXCEPT ![h] = t] /\ channel' = channel /\ request' = request
      /\ next' = next /\ admin' = admin /\ issued' = issued /\ origin' = origin
      /\ checked' = checked /\ takedowns' = takedowns
  BY DEF Step, history
<1>2. TypeOK'
  BY <1>1 DEF RInv, TypeOK
<1>3. \A g \in Handlers : tx'[g] = IF g = h THEN t ELSE tx[g]
  BY <1>1 DEF RInv, TypeOK
<1>4. Transactions'
  BY <1>1, <1>3 DEF RInv, Transactions, TxOK
<1>5. Exclusive'
  BY <1>3 DEF RInv, Exclusive, ListLocked
<1>6. CodesInSequence'
  BY <1>1 DEF RInv, CodesInSequence
<1> QED
  BY <1>2, <1>4, <1>5, <1>6 DEF RInv

\* A handler that goes on with the number it holds still holds the lock.
LEMMA HoldsItsLock ==
  ASSUME RInv, NEW h \in Handlers, tx[h].number # 0
  PROVE  ~ListLocked(h, tx[h].list)
  BY DEF RInv, Exclusive, ListLocked

\* What a flush leaves in the channel's row is a row.
LEMMA MergedType ==
  ASSUME RInv, NEW h \in Handlers, tx[h].stage # "idle",
         NEW changed \in ChannelRow
  PROVE  Merged(h, changed) \in ChannelRow /\ Flushed(h, changed) \in ChannelRow \cup {NoRow}
<1> DEFINE now == IF tx[h].row = NoRow THEN channel[tx[h].chan] ELSE tx[h].row
<1>1. tx[h] \in TxType /\ tx[h].chan \in Channels
  BY DEF RInv, TypeOK, Transactions, TxOK
<1>2. now \in ChannelRow
  BY <1>1 DEF RInv, TypeOK, TxType
<1>3. Merged(h, changed) \in ChannelRow
  BY <1>2 DEF Merged, ChannelRow
<1> QED
  BY <1>1, <1>3 DEF Flushed, TxType

\* The rows the statements of a handler write.
LEMMA SubmittedType ==
  ASSUME RInv, NEW h \in Handlers, tx[h].stage = "lookup"
  PROVE  Submitted(h) \in ChannelRow
<1>1. tx[h].seen \in ChannelRow /\ tx[h].list \in Lists
  BY DEF RInv, Transactions, TxOK
<1> QED
  BY <1>1 DEF Submitted, ChannelRow, ChannelStatus

LEMMA ActivatedType ==
  ASSUME RInv, NEW h \in Handlers, tx[h].stage \in {"activate", "decide"}
  PROVE  Activated(h) \in ChannelRow
<1>1. tx[h].seen \in ChannelRow /\ tx[h].list \in Lists
  BY DEF RInv, Transactions, TxOK
<1> QED
  BY <1>1 DEF Activated, ChannelRow, ChannelStatus

LEMMA DecidedType ==
  ASSUME RInv, NEW h \in Handlers, tx[h].stage = "decide"
  PROVE  Decided(h) \in ChannelRow
<1>1. /\ tx[h].seen \in ChannelRow /\ tx[h].answer \in BOOLEAN /\ tx[h].number \in Nat
      /\ tx[h].kind \in {"access", "approve", "reject"}
  BY DEF RInv, TypeOK, TxType, Transactions, TxOK
<1>2. Activated(h) \in ChannelRow
  BY ActivatedType
<1> QED
  BY <1>1, <1>2 DEF Decided, ChannelRow, ChannelStatus

-----------------------------------------------------------------------------
(* One lemma for each statement of a handler.                               *)

LEMMA SubmitRInv ==
  ASSUME RInv, NEW h \in Handlers, NEW c \in Channels, NEW a \in Applicants,
         NEW l \in Lists, Submit(h, c, a, l)
  PROVE  RInv'
<1> DEFINE t == [Idle EXCEPT !.kind = "submit", !.stage = "lookup", !.chan = c,
                             !.list = l, !.who = a, !.seen = channel[c]]
<1>1. channel[c] \in ChannelRow
  BY DEF RInv, TypeOK
<1>2. t \in TxType /\ TxOK(t) /\ t.number = 0
  BY <1>1 DEF TxType, TxOK, Idle, Kinds, Stages
<1>3. Step(h, t)
  BY DEF Submit
<1> HIDE DEF t
<1> QED
  BY <1>2, <1>3, StepRInv

LEMMA LookupRInv ==
  ASSUME RInv, NEW h \in Handlers, Lookup(h)
  PROVE  RInv'
<1>1. tx[h].stage = "lookup" /\ tx[h] \in TxType /\ TxOK(tx[h])
  BY DEF Lookup, RInv, TypeOK, Transactions
<1>2. PICK r \in Requests \cup {NoRequest} :
        Step(h, [tx[h] EXCEPT !.stage = "commit", !.row = Flushed(h, Submitted(h)), !.req = r])
  BY DEF Lookup, Unused
<1> DEFINE t == [tx[h] EXCEPT !.stage = "commit", !.row = Flushed(h, Submitted(h)), !.req = r]
<1>3. Flushed(h, Submitted(h)) \in ChannelRow \cup {NoRow}
  BY <1>1, SubmittedType, MergedType
<1>4. t \in TxType /\ TxOK(t) /\ t.number = 0
  BY <1>1, <1>3 DEF TxType, TxOK, Kinds, Stages
<1> HIDE DEF t
<1> QED
  BY <1>2, <1>4, StepRInv DEF t

LEMMA ChooseRInv ==
  ASSUME RInv, NEW h \in Handlers, NEW kind \in {"access", "approve", "reject"},
         NEW r \in Requests, Choose(h, kind, r)
  PROVE  RInv'
<1> DEFINE t == [Idle EXCEPT !.kind = kind, !.stage = "load", !.req = r,
                             !.chan = request[r].channel, !.list = request[r].list]
<1>1. request[r] \in RequestRow
  BY DEF RInv, TypeOK, Choose
<1>2. t \in TxType /\ TxOK(t) /\ t.number = 0
  BY <1>1 DEF TxType, TxOK, Idle, Kinds, Stages, RequestRow
<1>3. Step(h, t)
  BY DEF Choose
<1> HIDE DEF t
<1> QED
  BY <1>2, <1>3, StepRInv

LEMMA LoadRInv ==
  ASSUME RInv, NEW h \in Handlers, Load(h)
  PROVE  RInv'
<1>1. tx[h].stage = "load" /\ tx[h] \in TxType /\ TxOK(tx[h])
  BY DEF Load, RInv, TypeOK, Transactions
<1>2. channel[tx[h].chan] \in ChannelRow
  BY <1>1 DEF TxOK, RInv, TypeOK
<1>3. tx[h].kind \in {"access", "approve", "reject"} /\ tx[h].number = 0
  BY <1>1 DEF TxOK, TxType
<1> DEFINE t(s) == [tx[h] EXCEPT !.seen = channel[tx[h].chan], !.stage = s]
<1>4. CASE tx[h].kind = "access"
  <2>1. Step(h, t("ask"))
    BY <1>4 DEF Load
  <2>2. t("ask") \in TxType /\ TxOK(t("ask")) /\ t("ask").number = 0
    BY <1>1, <1>2, <1>3, <1>4 DEF TxType, TxOK, Kinds, Stages
  <2> QED
    BY <2>1, <2>2, StepRInv
<1>5. CASE tx[h].kind = "approve"
  <2>1. Step(h, t("activate"))
    BY <1>5 DEF Load
  <2>2. t("activate") \in TxType /\ TxOK(t("activate")) /\ t("activate").number = 0
    BY <1>1, <1>2, <1>3, <1>5 DEF TxType, TxOK, Kinds, Stages
  <2> QED
    BY <2>1, <2>2, StepRInv
<1>6. CASE tx[h].kind = "reject"
  <2>1. Step(h, t("decide"))
    BY <1>6 DEF Load
  <2>2. t("decide") \in TxType /\ TxOK(t("decide")) /\ t("decide").number = 0
    BY <1>1, <1>2, <1>3, <1>6 DEF TxType, TxOK, Kinds, Stages
  <2> QED
    BY <2>1, <2>2, StepRInv
<1> QED
  BY <1>3, <1>4, <1>5, <1>6

LEMMA AskRInv ==
  ASSUME RInv, NEW h \in Handlers, Ask(h)
  PROVE  RInv'
<1> DEFINE t == [tx[h] EXCEPT !.answer = (<<tx[h].chan, tx[h].list>> \in admin), !.stage = "decide"]
<1>1. tx[h].stage = "ask" /\ tx[h] \in TxType /\ TxOK(tx[h])
  BY DEF Ask, RInv, TypeOK, Transactions
<1>2. (<<tx[h].chan, tx[h].list>> \in admin) \in BOOLEAN
  OBVIOUS
<1>3. t \in TxType /\ TxOK(t) /\ t.number = 0
  BY <1>1, <1>2 DEF TxType, TxOK, Kinds, Stages
<1>4. Step(h, t)
  BY DEF Ask, FullAccess
<1> HIDE DEF t
<1> QED
  BY <1>3, <1>4, StepRInv

LEMMA ActivateRInv ==
  ASSUME RInv, NEW h \in Handlers, Activate(h)
  PROVE  RInv'
<1> DEFINE t == [tx[h] EXCEPT !.row = Flushed(h, Activated(h)), !.stage = "allocate"]
<1>1. tx[h].stage = "activate" /\ tx[h] \in TxType /\ TxOK(tx[h])
  BY DEF Activate, RInv, TypeOK, Transactions
<1>2. Flushed(h, Activated(h)) \in ChannelRow \cup {NoRow}
  BY <1>1, ActivatedType, MergedType
<1>3. t \in TxType /\ TxOK(t) /\ t.number = tx[h].number /\ t.list = tx[h].list
  BY <1>1, <1>2 DEF TxType, TxOK, Kinds, Stages
<1>4. Step(h, t)
  BY DEF Activate
<1> HIDE DEF t
<1> QED
  BY <1>3, <1>4, StepRInv, HoldsItsLock

\* The lock is free when the number is taken, and the number is the counter's.
LEMMA AllocateRInv ==
  ASSUME RInv, NEW h \in Handlers, Allocate(h)
  PROVE  RInv'
<1> DEFINE t == [tx[h] EXCEPT !.number = next[tx[h].list], !.stage = "decide"]
<1>1. tx[h].stage = "allocate" /\ tx[h] \in TxType /\ TxOK(tx[h])
  BY DEF Allocate, RInv, TypeOK, Transactions
<1>2. tx[h].list \in Lists
  BY <1>1 DEF TxOK
<1>3. next[tx[h].list] \in Nat /\ next[tx[h].list] # 0
  BY <1>2 DEF RInv, TypeOK, CodesInSequence
<1>4. t \in TxType /\ TxOK(t) /\ t.list = tx[h].list
  BY <1>1, <1>3 DEF TxType, TxOK, Kinds, Stages
<1>5. Step(h, t) /\ ~ListLocked(h, tx[h].list)
  BY DEF Allocate, Number, Allocatable
<1> HIDE DEF t
<1> QED
  BY <1>4, <1>5, StepRInv

LEMMA DecideRInv ==
  ASSUME RInv, NEW h \in Handlers, Decide(h)
  PROVE  RInv'
<1> DEFINE t == [tx[h] EXCEPT !.row = Flushed(h, Decided(h)), !.stage = "commit"]
<1>1. tx[h].stage = "decide" /\ tx[h] \in TxType /\ TxOK(tx[h])
  BY DEF Decide, RInv, TypeOK, Transactions
<1>2. Flushed(h, Decided(h)) \in ChannelRow \cup {NoRow}
  BY <1>1, DecidedType, MergedType
<1>3. t \in TxType /\ TxOK(t) /\ t.number = tx[h].number /\ t.list = tx[h].list
  BY <1>1, <1>2 DEF TxType, TxOK, Kinds, Stages
<1>4. Step(h, t)
  BY DEF Decide
<1> HIDE DEF t
<1> QED
  BY <1>3, <1>4, StepRInv, HoldsItsLock

-----------------------------------------------------------------------------
(* The end of a transaction.                                                *)

\* The handlers that go on are as sound as before when one of them ends, as
\* long as the counters of the lists they have locked stay.
LEMMA EndKeeps ==
  ASSUME RInv, NEW h \in Handlers, tx' = [tx EXCEPT ![h] = Idle],
         \A r \in Requests : request[r] \in RequestRow => request'[r] \in RequestRow,
         \A g \in Handlers : g # h /\ tx[g].number # 0 => next'[tx[g].list] = next[tx[g].list]
  PROVE  Transactions' /\ Exclusive' /\ tx' \in [Handlers -> TxType]
<1>1. \A g \in Handlers : tx'[g] = IF g = h THEN Idle ELSE tx[g]
  BY DEF RInv, TypeOK
<1>2. Transactions'
  <2> SUFFICES ASSUME NEW g \in Handlers PROVE TxOK(tx[g])'
    BY DEF Transactions
  <2>1. CASE g = h
    BY <2>1, <1>1 DEF TxOK, Idle
  <2>2. CASE g # h
    BY <2>2, <1>1 DEF RInv, Transactions, TxOK
  <2> QED
    BY <2>1, <2>2
<1>3. Exclusive'
  BY <1>1, IdleOK DEF RInv, Exclusive
<1> QED
  BY <1>1, <1>2, <1>3, IdleOK DEF RInv, TypeOK

LEMMA CommitRInv ==
  ASSUME RInv, NEW h \in Handlers, Commit(h)
  PROVE  RInv'
<1> DEFINE t == tx[h]
<1>1. t.stage = "commit" /\ t \in TxType /\ TxOK(t)
  BY DEF Commit, RInv, TypeOK, Transactions
<1>2. t.chan \in Channels /\ t.list \in Lists /\ t.kind \in {"submit", "access", "approve", "reject"}
  BY <1>1 DEF TxOK
<1>3. tx' = [tx EXCEPT ![h] = Idle]
  BY DEF Commit
<1>4. channel' \in [Channels -> ChannelRow]
  BY <1>1, <1>2 DEF Commit, Left, RInv, TypeOK, TxType
<1>5. t.kind # "access" /\ t.req # NoRequest => Resolved(t) \in RequestRow /\ t.req \in Requests
  <2> SUFFICES ASSUME t.kind # "access", t.req # NoRequest
               PROVE  Resolved(t) \in RequestRow /\ t.req \in Requests
    OBVIOUS
  <2>1. t.req \in Requests
    BY <1>1 DEF TxType
  <2>2. (IF t.kind = "submit" THEN t.who ELSE request[t.req].applicant) \in Applicants
    BY <1>1 DEF TxOK, RequestRow
  <2>3. Resolution[t.kind] \in RequestStatus
    BY <1>2 DEF Resolution, RequestStatus
  <2> QED
    BY <2>1, <2>2, <2>3, <1>2 DEF Resolved, RequestRow
<1>6. /\ request' \in [Requests -> RequestRow \cup {NoRow}]
      /\ \A r \in Requests : request[r] \in RequestRow => request'[r] \in RequestRow
  BY <1>5 DEF Commit, RInv, TypeOK
<1>7. /\ next' \in [Lists -> Nat] /\ issued' \in [Lists -> Seq(Nat)]
      /\ CodesInSequence'
      /\ \A g \in Handlers : g # h /\ tx[g].number # 0 => next'[tx[g].list] = next[tx[g].list]
  <2>1. CASE t.kind = "approve"
    <3>1. t.number # 0 /\ t.number = next[t.list] /\ t.number \in Nat
      BY <1>1, <2>1 DEF TxOK, TxType
    <3>2. /\ next' = [next EXCEPT ![t.list] = t.number + 1]
          /\ issued' = [issued EXCEPT ![t.list] = Append(issued[t.list], t.number)]
      BY <2>1 DEF Commit
    <3>3. /\ next' \in [Lists -> Nat] /\ issued' \in [Lists -> Seq(Nat)]
      BY <1>2, <3>1, <3>2 DEF RInv, TypeOK
    <3>4. CodesInSequence'
      <4> SUFFICES ASSUME NEW l \in Lists
                   PROVE  /\ next'[l] = Len(issued'[l]) + 1
                          /\ \A i \in 1..Len(issued'[l]) : issued'[l][i] = i
        BY DEF CodesInSequence
      <4>1. /\ next[l] = Len(issued[l]) + 1 /\ issued[l] \in Seq(Nat)
            /\ \A i \in 1..Len(issued[l]) : issued[l][i] = i
        BY DEF RInv, TypeOK, CodesInSequence
      <4>2. CASE l # t.list
        BY <4>1, <4>2, <3>2 DEF RInv, TypeOK
      <4>3. CASE l = t.list
        <5>1. next'[l] = t.number + 1 /\ issued'[l] = Append(issued[l], t.number)
          BY <4>3, <3>2 DEF RInv, TypeOK
        <5> QED
          BY <5>1, <4>1, <4>3, <3>1
      <4> QED
        BY <4>2, <4>3
    <3>5. ASSUME NEW g \in Handlers, g # h, tx[g].number # 0
          PROVE  next'[tx[g].list] = next[tx[g].list]
      <4>1. tx[g].list # t.list
        BY <3>1, <3>5 DEF RInv, Exclusive
      <4> QED
        BY <4>1, <3>2 DEF RInv, TypeOK
    <3> QED
      BY <3>3, <3>4, <3>5
  <2>2. CASE t.kind # "approve"
    BY <2>2 DEF Commit, RInv, TypeOK, CodesInSequence
  <2> QED
    BY <2>1, <2>2
<1>8. Transactions' /\ Exclusive' /\ tx' \in [Handlers -> TxType]
  BY <1>3, <1>6, <1>7, EndKeeps
<1>9. /\ checked' \subseteq Channels \X Lists
      /\ admin' = admin /\ takedowns' = takedowns
  BY <1>2 DEF Commit, RInv, TypeOK
<1>10. origin' \in [Channels -> Lists \cup {NoList}]
  <2>1. \/ origin' = origin
        \/ origin' = [origin EXCEPT ![t.chan] = t.list]
        \/ origin' = [origin EXCEPT ![t.chan] = origin[t.chan]]
    BY DEF Commit
  <2> QED
    BY <1>2, <2>1 DEF RInv, TypeOK
<1>11. TypeOK'
  BY <1>4, <1>6, <1>7, <1>8, <1>9, <1>10 DEF TypeOK, RInv
<1> QED
  BY <1>7, <1>8, <1>11 DEF RInv

LEMMA FailRInv ==
  ASSUME RInv, NEW h \in Handlers, Fail(h)
  PROVE  RInv'
<1>1. /\ tx' = [tx EXCEPT ![h] = Idle] /\ channel' = channel /\ request' = request
      /\ next' = next /\ admin' = admin /\ issued' = issued /\ origin' = origin
      /\ checked' = checked /\ takedowns' = takedowns
  BY DEF Fail, Refunded
<1>2. Transactions' /\ Exclusive' /\ tx' \in [Handlers -> TxType]
  BY <1>1, EndKeeps
<1>3. TypeOK' /\ CodesInSequence'
  BY <1>1, <1>2 DEF RInv, TypeOK, CodesInSequence
<1> QED
  BY <1>2, <1>3 DEF RInv

-----------------------------------------------------------------------------
(* Others who write channels, and Rubika.                                   *)

\* A takedown only writes the row of a channel.
LEMMA TakeDownRInv ==
  ASSUME RInv, NEW c \in Channels, NEW row \in ChannelRow, TakeDown(c, row)
  PROVE  RInv'
<1>1. /\ channel' = [channel EXCEPT ![c] = row] /\ takedowns' = takedowns + 1
      /\ takedowns < MaxTakedowns
      /\ tx' = tx /\ request' = request /\ next' = next /\ admin' = admin
      /\ issued' = issued /\ origin' = origin /\ checked' = checked
  BY DEF TakeDown
<1>2. TypeOK'
  BY <1>1, RegistrationAssumption DEF RInv, TypeOK
<1>3. Transactions' /\ Exclusive' /\ CodesInSequence'
  BY <1>1 DEF RInv, Transactions, TxOK, Exclusive, CodesInSequence
<1> QED
  BY <1>2, <1>3 DEF RInv

\* Rubika's administrators are nobody's lock.
LEMMA AdminRInv ==
  ASSUME RInv, NEW c \in Channels, NEW l \in Lists, AdminChange(c, l)
  PROVE  RInv'
<1>1. /\ admin' \subseteq Channels \X Lists
      /\ channel' = channel /\ request' = request /\ next' = next /\ tx' = tx
      /\ issued' = issued /\ origin' = origin /\ checked' = checked
      /\ takedowns' = takedowns
  BY DEF AdminChange, history, RInv, TypeOK
<1>2. TypeOK'
  BY <1>1 DEF RInv, TypeOK
<1>3. Transactions' /\ Exclusive' /\ CodesInSequence'
  BY <1>1 DEF RInv, Transactions, TxOK, Exclusive, CodesInSequence
<1> QED
  BY <1>2, <1>3 DEF RInv

-----------------------------------------------------------------------------
(* The theorems.                                                            *)

LEMMA NextRInv == RInv /\ [Next]_vars => RInv'
<1> SUFFICES ASSUME RInv, [Next]_vars PROVE RInv'
  OBVIOUS
<1>1. ASSUME NEW h \in Handlers, Handle(h) PROVE RInv'
  BY <1>1, SubmitRInv, LookupRInv, ChooseRInv, LoadRInv, AskRInv, ActivateRInv,
     AllocateRInv, DecideRInv, CommitRInv, FailRInv DEF Handle
<1>2. ASSUME NEW c \in Channels, Strike(c) \/ Suspend(c) \/ Remove(c) PROVE RInv'
  <2>1. channel[c] \in ChannelRow
    BY DEF RInv, TypeOK
  <2>2. /\ [channel[c] EXCEPT !.status = "suspended"] \in ChannelRow
        /\ [channel[c] EXCEPT !.status = "removed"] \in ChannelRow
        /\ [channel[c] EXCEPT !.status = "removed", !.list = NoList] \in ChannelRow
    BY <2>1 DEF ChannelRow, ChannelStatus
  <2> QED
    BY <1>2, <2>2, TakeDownRInv DEF Strike, Suspend, Remove
<1>3. ASSUME NEW c \in Channels, NEW l \in Lists, AdminChange(c, l) PROVE RInv'
  BY <1>3, AdminRInv
<1>4. CASE UNCHANGED vars
  BY <1>4 DEF vars, history, RInv, TypeOK, Transactions, TxOK, Exclusive, CodesInSequence
<1> QED
  BY <1>1, <1>2, <1>3, <1>4 DEF Next

LEMMA RInvCorrect == Spec => []RInv
<1> QED
  BY InitRInv, NextRInv, PTL DEF Spec

\* Every row, and everything a handler has loaded, keeps its type
\* (models.py:115-149).
THEOREM RegistrationTypeCorrect == Spec => []TypeOK
<1>1. RInv => TypeOK
  BY DEF RInv
<1> QED
  BY <1>1, RInvCorrect, PTL

\* The codes of a list are 1, 2, 3, ... in the order of the approvals, whatever
\* the number of admins who approve at once and however often they fail
\* (services.py:233-242).
THEOREM CodesInSequenceCorrect == Spec => []CodesInSequence
<1>1. RInv => CodesInSequence
  BY DEF RInv
<1> QED
  BY <1>1, RInvCorrect, PTL

-----------------------------------------------------------------------------
(* ActiveIsEntitled.  A channel's row is entitled to what it says (Entitled)  *)
(* because each flush keeps, of the row as it is now, every column that its   *)
(* handler has not changed, and because a row that is flushed is locked.      *)
(* Between the two flushes of an approval the row is active without a code:   *)
(* it is never committed like that (EntitledTx).                              *)

Checked  == {c \in Channels : \E l \in Lists : <<c, l>> \in checked}
GivenOut == UNION {1..Len(issued[l]) : l \in Lists}

Entitled(c, row) ==
  /\ row.verified \/ row.status = "active" => c \in Checked
  /\ row.code # 0 => row.code \in GivenOut
  /\ row.status = "active" => row.code # 0

EntitledTx(t) ==
  /\ t.stage \notin {"idle", "load"} /\ t.seen.code # 0 => channel[t.chan].code # 0
  /\ t.stage \notin {"idle", "load"} /\ t.kind = "approve" => t.chan \in Checked
  /\ t.row # NoRow =>
       /\ channel[t.chan].code # 0 => t.row.code # 0
       /\ t.row.verified => t.chan \in Checked \/ (t.kind = "access" /\ t.answer)
       /\ t.row.status = "active" => t.chan \in Checked
       /\ t.row.status = "active" /\ t.row.code = 0 => t.kind = "approve" /\ t.stage # "commit"
       /\ t.row.code # 0 => t.row.code \in GivenOut \/ t.row.code = t.number
       /\ t.stage \in {"allocate", "commit"} \/ (t.stage = "decide" /\ t.kind = "approve")

\* The row lock: no two handlers have flushed the same channel.
OneFlushes ==
  \A g, h \in Handlers :
    g # h /\ tx[g].row # NoRow /\ tx[h].row # NoRow => tx[g].chan # tx[h].chan

EInv ==
  /\ \A c \in Channels : Entitled(c, channel[c])
  /\ \A h \in Handlers : EntitledTx(tx[h])
  /\ OneFlushes

\* A session in which nothing has been loaded claims nothing.
LEMMA InitEInv == Init => EInv
<1> SUFFICES ASSUME Init PROVE EInv
  OBVIOUS
<1>1. \A c \in Channels : Entitled(c, channel[c])
  BY DEF Init, Unregistered, Entitled
<1>2. \A h \in Handlers : EntitledTx(tx[h])
  BY DEF Init, Idle, EntitledTx
<1>3. OneFlushes
  BY DEF Init, Idle, OneFlushes
<1> QED
  BY <1>1, <1>2, <1>3 DEF EInv

\* A step that only moves one handler on, and locks at most a row nobody else
\* has flushed.
LEMMA StepEInv ==
  ASSUME RInv, EInv, NEW h \in Handlers, NEW t \in TxType, EntitledTx(t), Step(h, t),
         t.row # NoRow => ~ChannelLocked(h, t.chan)
  PROVE  EInv'
<1>1. /\ tx' = [tx EXCEPT ![h] = t] /\ channel' = channel
      /\ issued' = issued /\ checked' = checked
  BY DEF Step, history
<1>2. \A g \in Handlers : tx'[g] = IF g = h THEN t ELSE tx[g]
  BY <1>1 DEF RInv, TypeOK
<1>3. \A c \in Channels : Entitled(c, channel[c])'
  BY <1>1 DEF EInv, Entitled, Checked, GivenOut
<1>4. ASSUME NEW g \in Handlers PROVE EntitledTx(tx[g])'
  <2>1. EntitledTx(tx'[g])
    BY <1>2 DEF EInv
  <2> QED
    BY <1>1, <2>1 DEF EntitledTx, Checked, GivenOut
<1>5. OneFlushes'
  BY <1>2 DEF EInv, OneFlushes, ChannelLocked
<1> QED
  BY <1>3, <1>4, <1>5 DEF EInv

\* Whoever has flushed a channel holds its lock.
LEMMA HoldsItsChannel ==
  ASSUME EInv, NEW h \in Handlers, tx[h].row # NoRow
  PROVE  ~ChannelLocked(h, tx[h].chan)
  BY DEF EInv, OneFlushes, ChannelLocked

\* The row as it is when the handler's UPDATE takes the lock.
Now(h) == IF tx[h].row = NoRow THEN channel[tx[h].chan] ELSE tx[h].row

\* Column by column, a flush leaves what the handler has changed, and what is
\* there now elsewhere; and it leaves the handler with the lock.
LEMMA FlushedColumns ==
  ASSUME RInv, EInv, NEW h \in Handlers, tx[h].stage # "idle", tx[h].seen \in ChannelRow,
         NEW changed \in ChannelRow, CanFlush(h, changed), Flushed(h, changed) # NoRow
  PROVE  LET f == Flushed(h, changed)  now == Now(h)  seen == tx[h].seen IN
         /\ f.status = IF changed.status # seen.status THEN changed.status ELSE now.status
         /\ f.code = IF changed.code # seen.code THEN changed.code ELSE now.code
         /\ f.verified = IF changed.verified # seen.verified THEN changed.verified ELSE now.verified
         /\ ~ChannelLocked(h, tx[h].chan)
<1>1. CASE changed = tx[h].seen
  <2>1. Flushed(h, changed) = tx[h].row /\ tx[h].row = Now(h)
    BY <1>1 DEF Flushed, Now
  <2> QED
    BY <1>1, <2>1, HoldsItsChannel
<1>2. CASE changed # tx[h].seen
  <2>1. Flushed(h, changed) = Merged(h, changed) /\ ~ChannelLocked(h, tx[h].chan)
    BY <1>2 DEF Flushed, CanFlush
  <2> QED
    BY <2>1 DEF Merged, Now
<1> QED
  BY <1>1, <1>2

\* What the row as it is now is entitled to: the committed one, or the one that
\* the handler's own first flush has left.
LEMMA NowEntitled ==
  ASSUME RInv, EInv, NEW h \in Handlers, tx[h].stage # "idle"
  PROVE  LET t == tx[h]  now == Now(h) IN
         /\ channel[t.chan].code # 0 => now.code # 0
         /\ now.verified => t.chan \in Checked \/ (t.kind = "access" /\ t.answer)
         /\ now.status = "active" => t.chan \in Checked
         /\ now.status = "active" /\ now.code = 0 => t.kind = "approve" /\ t.stage # "commit"
         /\ now.code # 0 => now.code \in GivenOut \/ now.code = t.number
<1>1. tx[h].chan \in Channels
  BY DEF RInv, Transactions, TxOK
<1>2. Entitled(tx[h].chan, channel[tx[h].chan]) /\ EntitledTx(tx[h])
  BY <1>1 DEF EInv
<1>3. CASE tx[h].row = NoRow
  BY <1>2, <1>3 DEF Now, Entitled
<1>4. CASE tx[h].row # NoRow
  BY <1>2, <1>4 DEF Now, EntitledTx
<1> QED
  BY <1>3, <1>4

-----------------------------------------------------------------------------
\* The statements that flush nothing: Submit, Choose, Load, Ask and Allocate.
\* Load lets an approval go on only if the permissions have been checked.
LEMMA ReadsEInv ==
  ASSUME RInv, EInv, NEW h \in Handlers,
         \/ \E c \in Channels, a \in Applicants, l \in Lists : Submit(h, c, a, l)
         \/ \E kind \in {"access", "approve", "reject"}, r \in Requests : Choose(h, kind, r)
         \/ Load(h) \/ Ask(h) \/ Allocate(h)
  PROVE  EInv'
<1>1. tx[h] \in TxType /\ TxOK(tx[h]) /\ EntitledTx(tx[h])
  BY DEF RInv, TypeOK, Transactions, EInv
<1>2. ASSUME NEW c \in Channels, NEW a \in Applicants, NEW l \in Lists, Submit(h, c, a, l)
      PROVE  EInv'
  <2> DEFINE t == [Idle EXCEPT !.kind = "submit", !.stage = "lookup", !.chan = c,
                               !.list = l, !.who = a, !.seen = channel[c]]
  <2>1. channel[c] \in ChannelRow
    BY DEF RInv, TypeOK
  <2>2. t \in TxType /\ t.row = NoRow
    BY <2>1 DEF TxType, Idle, Kinds, Stages
  <2>3. EntitledTx(t)
    BY <2>2 DEF EntitledTx, Idle
  <2>4. Step(h, t)
    BY <1>2 DEF Submit
  <2> HIDE DEF t
  <2> QED
    BY <2>2, <2>3, <2>4, StepEInv
<1>3. ASSUME NEW kind \in {"access", "approve", "reject"}, NEW r \in Requests, Choose(h, kind, r)
      PROVE  EInv'
  <2> DEFINE t == [Idle EXCEPT !.kind = kind, !.stage = "load", !.req = r,
                               !.chan = request[r].channel, !.list = request[r].list]
  <2>1. request[r] \in RequestRow
    BY <1>3 DEF RInv, TypeOK, Choose
  <2>2. t \in TxType /\ t.row = NoRow
    BY <2>1 DEF TxType, Idle, Kinds, Stages, RequestRow
  <2>3. EntitledTx(t)
    BY <2>2 DEF EntitledTx, Idle
  <2>4. Step(h, t)
    BY <1>3 DEF Choose
  <2> HIDE DEF t
  <2> QED
    BY <2>2, <2>3, <2>4, StepEInv
<1>4. ASSUME Load(h) PROVE EInv'
  <2> DEFINE s == CASE tx[h].kind = "access" -> "ask"
                    [] tx[h].kind = "approve" -> "activate"
                    [] tx[h].kind = "reject" -> "decide"
             t == [tx[h] EXCEPT !.seen = channel[tx[h].chan], !.stage = s]
  <2>1. /\ tx[h].stage = "load" /\ tx[h].chan \in Channels
        /\ tx[h].kind \in {"access", "approve", "reject"} /\ tx[h].row = NoRow
    BY <1>1, <1>4 DEF Load, TxOK, EntitledTx
  <2>2. channel[tx[h].chan] \in ChannelRow /\ Entitled(tx[h].chan, channel[tx[h].chan])
    BY <2>1 DEF RInv, TypeOK, EInv
  <2>3. s \in Stages
    BY <2>1 DEF Stages
  <2>4. tx[h].kind = "approve" => tx[h].chan \in Checked
    BY <1>4, <2>2 DEF Load, Permitted, Entitled
  <2>5. Step(h, t)
    BY <1>4 DEF Load
  <2> HIDE DEF s
  <2>6. t \in TxType /\ t.row = NoRow
    BY <1>1, <2>1, <2>2, <2>3 DEF TxType
  <2>7. EntitledTx(t)
    BY <1>1, <2>1, <2>4, <2>6 DEF EntitledTx, TxType
  <2> HIDE DEF t
  <2> QED
    BY <2>5, <2>6, <2>7, StepEInv
<1>5. ASSUME Ask(h) PROVE EInv'
  <2> DEFINE t == [tx[h] EXCEPT !.answer = FullAccess(tx[h].chan, tx[h].list), !.stage = "decide"]
  <2>1. tx[h].stage = "ask" /\ tx[h].kind = "access" /\ tx[h].row = NoRow
    BY <1>1, <1>5 DEF Ask, TxOK, EntitledTx
  <2>2. FullAccess(tx[h].chan, tx[h].list) \in BOOLEAN
    BY DEF FullAccess
  <2>3. t \in TxType /\ t.row = NoRow
    BY <1>1, <2>1, <2>2 DEF TxType, Stages
  <2>4. EntitledTx(t)
    BY <1>1, <2>1, <2>3 DEF EntitledTx, TxType
  <2>5. Step(h, t)
    BY <1>5 DEF Ask
  <2> HIDE DEF t
  <2> QED
    BY <2>3, <2>4, <2>5, StepEInv
<1>6. ASSUME Allocate(h) PROVE EInv'
  <2> DEFINE t == [tx[h] EXCEPT !.number = next[tx[h].list], !.stage = "decide"]
  <2>1. /\ tx[h].stage = "allocate" /\ tx[h].kind = "approve" /\ tx[h].list \in Lists
        /\ tx[h].number = 0
    BY <1>1, <1>6 DEF Allocate, TxOK, TxType
  <2>2. next[tx[h].list] \in Nat
    BY <2>1 DEF RInv, TypeOK
  <2>3. t \in TxType /\ t.row = tx[h].row /\ t.chan = tx[h].chan
    BY <1>1, <2>2 DEF TxType, Stages
  <2>4. EntitledTx(t)
    BY <1>1, <2>1, <2>3 DEF EntitledTx, TxType
  <2>5. Step(h, t)
    BY <1>6 DEF Allocate, Number
  <2> HIDE DEF t
  <2> QED
    BY <2>3, <2>4, <2>5, StepEInv, HoldsItsChannel
<1> QED
  BY <1>2, <1>3, <1>4, <1>5, <1>6

\* A submission changes the status of a new channel only, to pending.
LEMMA LookupEInv ==
  ASSUME RInv, EInv, NEW h \in Handlers, Lookup(h)
  PROVE  EInv'
<1> DEFINE f == Flushed(h, Submitted(h))
           t(r) == [tx[h] EXCEPT !.stage = "commit", !.row = f, !.req = r]
<1>1. /\ tx[h].stage = "lookup" /\ tx[h] \in TxType /\ tx[h].kind = "submit"
      /\ tx[h].seen \in ChannelRow /\ tx[h].list \in Lists /\ EntitledTx(tx[h])
  BY DEF Lookup, RInv, TypeOK, Transactions, TxOK, EInv
<1>2. PICK r \in Requests \cup {NoRequest} : Step(h, t(r))
  BY DEF Lookup, Unused
<1>3. Submitted(h) \in ChannelRow /\ f \in ChannelRow \cup {NoRow}
  BY <1>1, SubmittedType, MergedType
<1>4. /\ Submitted(h).code = tx[h].seen.code /\ Submitted(h).verified = tx[h].seen.verified
      /\ Submitted(h).status # tx[h].seen.status => Submitted(h).status = "pending"
  BY <1>1 DEF Submitted, ChannelRow
<1>5. f # NoRow =>
        /\ f.status \in {"pending", Now(h).status} /\ f.code = Now(h).code
        /\ f.verified = Now(h).verified /\ ~ChannelLocked(h, tx[h].chan)
  BY <1>1, <1>3, <1>4, FlushedColumns DEF Lookup
<1> HIDE DEF f
<1>6. t(r) \in TxType /\ t(r).chan = tx[h].chan /\ t(r).row = f
  BY <1>1, <1>3 DEF TxType, Stages
<1>7. EntitledTx(t(r))
  BY <1>1, <1>5, <1>6, NowEntitled DEF EntitledTx, TxType
<1> QED
  BY <1>2, <1>5, <1>6, <1>7, StepEInv

\* The first flush of an approval: the channel is active, and its permissions
\* have been checked.
LEMMA ActivateEInv ==
  ASSUME RInv, EInv, NEW h \in Handlers, Activate(h)
  PROVE  EInv'
<1> DEFINE f == Flushed(h, Activated(h))
           t == [tx[h] EXCEPT !.row = f, !.stage = "allocate"]
<1>1. /\ tx[h].stage = "activate" /\ tx[h] \in TxType /\ tx[h].kind = "approve"
      /\ tx[h].seen \in ChannelRow /\ EntitledTx(tx[h]) /\ tx[h].chan \in Checked
  BY DEF Activate, RInv, TypeOK, Transactions, TxOK, EInv, EntitledTx
<1>2. Step(h, t)
  BY DEF Activate
<1>3. Activated(h) \in ChannelRow /\ f \in ChannelRow \cup {NoRow}
  BY <1>1, ActivatedType, MergedType
<1>4. Activated(h).code = tx[h].seen.code /\ Activated(h).verified = tx[h].seen.verified
  BY <1>1 DEF Activated, ChannelRow
<1>5. f # NoRow =>
        f.code = Now(h).code /\ f.verified = Now(h).verified /\ ~ChannelLocked(h, tx[h].chan)
  BY <1>1, <1>3, <1>4, FlushedColumns DEF Activate
<1> HIDE DEF f
<1>6. t \in TxType /\ t.chan = tx[h].chan /\ t.row = f
  BY <1>1, <1>3 DEF TxType, Stages
<1>7. EntitledTx(t)
  BY <1>1, <1>5, <1>6, NowEntitled DEF EntitledTx, TxType
<1> HIDE DEF t
<1> QED
  BY <1>2, <1>5, <1>6, <1>7, StepEInv

\* The last flush of a decision.  An approval leaves a code: its number, or, if
\* that is the code it has loaded, the one that is there, because no channel ever
\* loses its code.
LEMMA DecideEInv ==
  ASSUME RInv, EInv, NEW h \in Handlers, Decide(h)
  PROVE  EInv'
<1> DEFINE f == Flushed(h, Decided(h))
           t == [tx[h] EXCEPT !.row = f, !.stage = "commit"]
<1>1. /\ tx[h].stage = "decide" /\ tx[h] \in TxType
      /\ tx[h].kind \in {"access", "approve", "reject"}
      /\ tx[h].seen \in ChannelRow /\ EntitledTx(tx[h]) /\ tx[h].answer \in BOOLEAN
      /\ tx[h].kind = "approve" => tx[h].number # 0
      /\ tx[h].kind # "approve" => tx[h].row = NoRow
  BY DEF Decide, RInv, TypeOK, TxType, Transactions, TxOK, EInv, EntitledTx
<1>2. Step(h, t)
  BY DEF Decide
<1>3. Decided(h) \in ChannelRow /\ f \in ChannelRow \cup {NoRow}
  BY <1>1, DecidedType, MergedType
<1>4. f # NoRow =>
        /\ f.status = IF Decided(h).status # tx[h].seen.status THEN Decided(h).status ELSE Now(h).status
        /\ f.code = IF Decided(h).code # tx[h].seen.code THEN Decided(h).code ELSE Now(h).code
        /\ f.verified = IF Decided(h).verified # tx[h].seen.verified
                        THEN Decided(h).verified ELSE Now(h).verified
        /\ ~ChannelLocked(h, tx[h].chan)
  BY <1>1, <1>3, FlushedColumns DEF Decide
<1>5. t.chan = tx[h].chan /\ t.row = f /\ t.kind = tx[h].kind /\ t.stage = "commit"
      /\ t.seen = tx[h].seen /\ t.number = tx[h].number /\ t.answer = tx[h].answer
  BY <1>1 DEF TxType
<1>6. t \in TxType
  <2> HIDE DEF f
  <2> QED
    BY <1>1, <1>3 DEF TxType, Stages
<1>7. EntitledTx(t)
  <2> HIDE DEF f, t
  <2>1. CASE tx[h].kind = "access"
    <3>1. /\ Decided(h).status = tx[h].seen.status /\ Decided(h).code = tx[h].seen.code
          /\ Decided(h).verified = tx[h].answer
      BY <1>1, <2>1 DEF Decided, ChannelRow
    <3> QED
      BY <1>1, <1>4, <1>5, <2>1, <3>1, NowEntitled DEF EntitledTx
  <2>2. CASE tx[h].kind = "reject"
    <3>1. /\ Decided(h).status = "pending" /\ Decided(h).code = tx[h].seen.code
          /\ Decided(h).verified = tx[h].seen.verified
      BY <1>1, <2>2 DEF Decided, ChannelRow
    <3> QED
      BY <1>1, <1>4, <1>5, <2>2, <3>1, NowEntitled DEF EntitledTx
  <2>3. CASE tx[h].kind = "approve"
    <3>1. /\ Decided(h).code = tx[h].number
          /\ Decided(h).verified = tx[h].seen.verified
      BY <1>1, <2>3 DEF Decided, Activated, ChannelRow
    <3>2. tx[h].chan \in Checked
      BY <1>1, <2>3 DEF EntitledTx
    <3>3. f # NoRow => f.code # 0 /\ (f.code \in GivenOut \/ f.code = tx[h].number)
      <4>1. CASE tx[h].number # tx[h].seen.code
        BY <1>1, <1>4, <2>3, <3>1, <4>1
      <4>2. CASE tx[h].number = tx[h].seen.code
        <5>1. channel[tx[h].chan].code # 0
          BY <1>1, <2>3, <4>2 DEF EntitledTx
        <5> QED
          BY <1>1, <1>4, <3>1, <4>2, <5>1, NowEntitled
      <4> QED
        BY <4>1, <4>2
    <3> QED
      BY <1>1, <1>4, <1>5, <2>3, <3>1, <3>2, <3>3, NowEntitled DEF EntitledTx
  <2> QED
    BY <1>1, <2>1, <2>2, <2>3
<1> HIDE DEF t, f
<1> QED
  BY <1>2, <1>4, <1>5, <1>6, <1>7, StepEInv

-----------------------------------------------------------------------------
\* What was checked and given out stays so, and no channel loses its code: then
\* every handler that goes on is as entitled as before.
LEMMA EntitledKeeps ==
  ASSUME RInv, NEW g \in Handlers, EntitledTx(tx[g]), tx'[g] = tx[g],
         Checked \subseteq Checked',
         GivenOut \subseteq GivenOut',
         tx[g].chan \in Channels =>
           /\ channel[tx[g].chan].code # 0 => channel'[tx[g].chan].code # 0
           /\ tx[g].row # NoRow => channel'[tx[g].chan] = channel[tx[g].chan]
  PROVE  EntitledTx(tx[g])'
<1>1. tx[g] \in TxType /\ TxOK(tx[g])
  BY DEF RInv, TypeOK, Transactions
<1>2. CASE tx[g].stage = "idle"
  BY <1>2 DEF EntitledTx
<1>3. CASE tx[g].stage # "idle"
  <2>1. tx[g].chan \in Channels
    BY <1>1, <1>3 DEF TxOK
  <2> QED
    BY <2>1 DEF EntitledTx
<1> QED
  BY <1>2, <1>3

\* The channels after a COMMIT.
LEMMA CommittedChannel ==
  ASSUME RInv, NEW h \in Handlers, Commit(h)
  PROVE  channel' = IF tx[h].row = NoRow THEN channel
                    ELSE [channel EXCEPT ![tx[h].chan] = tx[h].row]
<1>1. channel' = [channel EXCEPT ![tx[h].chan] = Left(tx[h])]
  BY DEF Commit
<1>2. tx[h].row = NoRow => [channel EXCEPT ![tx[h].chan] = channel[tx[h].chan]] = channel
  BY DEF RInv, TypeOK
<1> QED
  BY <1>1, <1>2 DEF Left

\* The COMMIT of a row that its handler has locked: an approval gives out its
\* number, a permission check is on record.
LEMMA CommitEInv ==
  ASSUME RInv, EInv, NEW h \in Handlers, Commit(h)
  PROVE  EInv'
<1> DEFINE t == tx[h]
           c == t.chan
<1>1. /\ t.stage = "commit" /\ t \in TxType /\ TxOK(t) /\ EntitledTx(t)
      /\ c \in Channels /\ t.list \in Lists
      /\ t.kind \in {"submit", "access", "approve", "reject"}
      /\ t.number # 0 <=> t.kind = "approve"
  BY DEF Commit, RInv, TypeOK, Transactions, TxOK, EInv
<1>2. /\ channel' = IF t.row = NoRow THEN channel ELSE [channel EXCEPT ![c] = t.row]
      /\ checked' = IF t.kind = "access" /\ t.answer THEN checked \cup {<<c, t.list>>} ELSE checked
      /\ tx' = [tx EXCEPT ![h] = Idle]
      /\ t.kind # "approve" => issued' = issued
      /\ t.kind = "approve" => issued' = [issued EXCEPT ![t.list] = Append(issued[t.list], t.number)]
  BY CommittedChannel DEF Commit
<1>3. /\ Checked \subseteq Checked'
      /\ t.kind = "access" /\ t.answer => c \in Checked'
  BY <1>1, <1>2 DEF Checked
<1>4. /\ GivenOut \subseteq GivenOut'
      /\ t.kind = "approve" => t.number \in GivenOut'
  <2>1. CASE t.kind # "approve"
    BY <1>2, <2>1 DEF GivenOut
  <2>2. CASE t.kind = "approve"
    <3>1. /\ issued[t.list] \in Seq(Nat) /\ next[t.list] = Len(issued[t.list]) + 1
          /\ t.number = next[t.list] /\ t.number \in Nat
      BY <1>1, <2>2 DEF RInv, TypeOK, CodesInSequence, TxOK, TxType
    <3>2. issued'[t.list] = Append(issued[t.list], t.number)
      BY <1>1, <1>2, <2>2 DEF RInv, TypeOK
    <3>3. Len(issued'[t.list]) = Len(issued[t.list]) + 1 /\ Len(issued[t.list]) \in Nat
      BY <3>1, <3>2
    <3>4. \A l \in Lists \ {t.list} : issued'[l] = issued[l]
      BY <1>2, <2>2 DEF RInv, TypeOK
    <3>5. t.number \in 1..Len(issued'[t.list])
      BY <1>1, <2>2, <3>1, <3>3
    <3>6. \A l \in Lists : 1..Len(issued[l]) \subseteq 1..Len(issued'[l])
      BY <3>3, <3>4
    <3>7. \A n : n \in GivenOut' <=> \E l \in Lists : n \in 1..Len(issued'[l])
      BY DEF GivenOut
    <3>8. \A n : n \in GivenOut <=> \E l \in Lists : n \in 1..Len(issued[l])
      BY DEF GivenOut
    <3> QED
      BY <1>1, <3>5, <3>6, <3>7, <3>8
  <2> QED
    BY <2>1, <2>2
<1> HIDE DEF t, c
<1>5. \A d \in Channels : channel'[d] = IF t.row # NoRow /\ d = c THEN t.row ELSE channel[d]
  BY <1>2 DEF RInv, TypeOK
<1>6. /\ channel[c].code # 0 /\ t.row # NoRow => t.row.code # 0
      /\ t.row # NoRow => t.row.code \in Nat
  BY <1>1 DEF EntitledTx, TxType, ChannelRow, c
<1>7. ASSUME NEW d \in Channels PROVE Entitled(d, channel[d])'
  <2>1. CASE t.row # NoRow /\ d = c
    <3>1. /\ t.row.verified \/ t.row.status = "active" => c \in Checked'
          /\ t.row.code # 0 => t.row.code \in GivenOut'
          /\ t.row.status = "active" => t.row.code # 0
      BY <1>1, <1>3, <1>4, <1>6, <2>1 DEF EntitledTx, c
    <3>2. channel'[d] = t.row
      BY <1>5, <2>1
    <3> QED
      BY <2>1, <3>1, <3>2 DEF Entitled
  <2>2. CASE ~(t.row # NoRow /\ d = c)
    <3>1. channel'[d] = channel[d] /\ Entitled(d, channel[d])
      BY <1>5, <2>2 DEF EInv
    <3> QED
      BY <1>3, <1>4, <3>1 DEF Entitled
  <2> QED
    BY <2>1, <2>2
<1>8. \A g \in Handlers : tx'[g] = IF g = h THEN Idle ELSE tx[g]
  BY <1>2 DEF RInv, TypeOK
<1>9. ASSUME NEW g \in Handlers PROVE EntitledTx(tx[g])'
  <2>1. CASE g = h
    BY <1>8, <2>1 DEF EntitledTx, Idle
  <2>2. CASE g # h
    <3>1. tx'[g] = tx[g] /\ EntitledTx(tx[g])
      BY <1>8, <2>2 DEF EInv
    <3>2. tx[g].row # NoRow /\ t.row # NoRow => tx[g].chan # c
      BY <2>2 DEF EInv, OneFlushes, t, c
    <3>3. tx[g].chan \in Channels =>
            /\ channel[tx[g].chan].code # 0 => channel'[tx[g].chan].code # 0
            /\ tx[g].row # NoRow => channel'[tx[g].chan] = channel[tx[g].chan]
      BY <1>5, <1>6, <3>2
    <3> QED
      BY <1>3, <1>4, <3>1, <3>3, EntitledKeeps
  <2> QED
    BY <2>1, <2>2
<1>10. OneFlushes'
  BY <1>8 DEF EInv, OneFlushes, Idle
<1> QED
  BY <1>7, <1>9, <1>10 DEF EInv

\* A rollback, the takedowns and Rubika: nobody is activated, and the row of a
\* channel somebody has flushed is left alone.
LEMMA OthersEInv ==
  ASSUME RInv, EInv,
         \/ \E h \in Handlers : Fail(h)
         \/ \E c \in Channels : Strike(c) \/ Suspend(c) \/ Remove(c)
         \/ \E c \in Channels, l \in Lists : AdminChange(c, l)
         \/ UNCHANGED vars
  PROVE  EInv'
<1>1. issued' = issued /\ checked' = checked
  BY DEF Fail, Strike, Suspend, Remove, TakeDown, AdminChange, history, vars
<1>2. /\ Checked \subseteq Checked'
      /\ GivenOut \subseteq GivenOut'
  BY <1>1 DEF Checked, GivenOut
<1>3. \A h \in Handlers : tx'[h] \in {tx[h], Idle}
  BY DEF Fail, Strike, Suspend, Remove, TakeDown, AdminChange, vars, RInv, TypeOK
<1>4. \A d \in Channels :
        \/ channel'[d] = channel[d]
        \/ /\ \A h \in Handlers : tx[h].chan # d \/ tx[h].row = NoRow
           /\ channel'[d].code = channel[d].code /\ channel'[d].verified = channel[d].verified
           /\ channel'[d].status # "active"
  <2>1. CASE \/ \E h \in Handlers : Fail(h)
             \/ \E c \in Channels, l \in Lists : AdminChange(c, l)
             \/ UNCHANGED vars
    BY <2>1 DEF Fail, AdminChange, vars
  <2>2. ASSUME NEW c \in Channels, Strike(c) \/ Suspend(c) \/ Remove(c)
        PROVE  \A d \in Channels :
                 \/ channel'[d] = channel[d]
                 \/ /\ \A h \in Handlers : tx[h].chan # d \/ tx[h].row = NoRow
                    /\ channel'[d].code = channel[d].code
                    /\ channel'[d].verified = channel[d].verified
                    /\ channel'[d].status # "active"
    <3>1. channel[c] \in ChannelRow /\ channel \in [Channels -> ChannelRow]
      BY DEF RInv, TypeOK
    <3>2. ASSUME NEW row, TakeDown(c, row), row.status # "active",
                 row.code = channel[c].code, row.verified = channel[c].verified
          PROVE  \A d \in Channels :
                   \/ channel'[d] = channel[d]
                   \/ /\ \A h \in Handlers : tx[h].chan # d \/ tx[h].row = NoRow
                      /\ channel'[d].code = channel[d].code
                      /\ channel'[d].verified = channel[d].verified
                      /\ channel'[d].status # "active"
      BY <3>1, <3>2 DEF TakeDown
    <3>3. ASSUME NEW row \in {[channel[c] EXCEPT !.status = "removed", !.list = NoList],
                              [channel[c] EXCEPT !.status = "suspended"],
                              [channel[c] EXCEPT !.status = "removed"]}
          PROVE  /\ row.status # "active" /\ row.code = channel[c].code
                 /\ row.verified = channel[c].verified
      BY <3>1 DEF ChannelRow
    <3> QED
      BY <2>2, <3>2, <3>3 DEF Strike, Suspend, Remove
  <2> QED
    BY <2>1, <2>2
<1>5. ASSUME NEW d \in Channels PROVE Entitled(d, channel[d])'
  <2>1. Entitled(d, channel[d])
    BY DEF EInv
  <2>2. Entitled(d, channel'[d])
    BY <1>4, <2>1 DEF Entitled
  <2> QED
    BY <1>1, <2>2 DEF Entitled, Checked, GivenOut
<1>6. ASSUME NEW g \in Handlers PROVE EntitledTx(tx[g])'
  <2>1. CASE tx'[g] = Idle
    BY <2>1 DEF EntitledTx, Idle
  <2>2. CASE tx'[g] = tx[g]
    <3>1. EntitledTx(tx[g])
      BY DEF EInv
    <3>2. tx[g].chan \in Channels =>
            /\ channel[tx[g].chan].code # 0 => channel'[tx[g].chan].code # 0
            /\ tx[g].row # NoRow => channel'[tx[g].chan] = channel[tx[g].chan]
      BY <1>4
    <3> QED
      BY <1>2, <2>2, <3>1, <3>2, EntitledKeeps
  <2> QED
    BY <1>3, <2>1, <2>2
<1>7. OneFlushes'
  BY <1>3 DEF EInv, OneFlushes, Idle
<1> QED
  BY <1>5, <1>6, <1>7 DEF EInv

\* Every step keeps it.
LEMMA NextEInv == RInv /\ EInv /\ [Next]_vars => EInv'
<1> SUFFICES ASSUME RInv, EInv, [Next]_vars PROVE EInv'
  OBVIOUS
<1>1. ASSUME NEW h \in Handlers, Handle(h) PROVE EInv'
  BY <1>1, ReadsEInv, LookupEInv, ActivateEInv, DecideEInv, CommitEInv, OthersEInv DEF Handle
<1>2. CASE \/ \E c \in Channels : Strike(c) \/ Suspend(c) \/ Remove(c)
           \/ \E c \in Channels, l \in Lists : AdminChange(c, l)
           \/ UNCHANGED vars
  BY <1>2, OthersEInv
<1> QED
  BY <1>1, <1>2 DEF Next

\* A channel is on the air only with permissions that were once checked and a
\* code that an approval has taken, whatever comes between the reads and the
\* writes of the handlers (services.py:128-134, 167-175).
THEOREM ActiveIsEntitledCorrect == Spec => []ActiveIsEntitled
<1>1. EInv => ActiveIsEntitled
  BY DEF EInv, Entitled, Checked, GivenOut, ActiveIsEntitled
<1> QED
  BY <1>1, InitEInv, NextEInv, RInvCorrect, PTL DEF Spec

-----------------------------------------------------------------------------
(* ClashesOnlyOnMoves.  A channel keeps the code its own list's counter gave    *)
(* it, two channels never got the same one from the same list, and a flushed   *)
(* row has the code its channel has, or a number that is on no channel of the  *)
(* handler's list yet.  A list and a code on a row can then only meet another  *)
(* channel's when one of the two rows sits outside the list its code is from.  *)

OwnRow(t) == t.row # NoRow =>
  /\ \/ t.row.code = channel[t.chan].code
     \/ t.number # 0 /\ t.row.code = t.number
  /\ t.row.list \in {t.list, channel[t.chan].list}

\* What a list has given out, and no channel shares.
Numbered(c) == channel[c].code # 0 => /\ origin[c] \in Lists
                                      /\ channel[c].code \in 1..Len(issued[origin[c]])
Apart(c, d) == c # d /\ channel[c].code # 0 /\ origin[c] = origin[d] =>
                 channel[d].code # channel[c].code

UInv ==
  /\ \A c \in Channels : Numbered(c)
  /\ \A c, d \in Channels : Apart(c, d)
  /\ \A h \in Handlers : OwnRow(tx[h])

\* The number a handler holds is on no channel of its list yet.
LEMMA NumberIsFresh ==
  ASSUME RInv, UInv, NEW h \in Handlers, tx[h].number # 0,
         NEW d \in Channels, origin[d] = tx[h].list
  PROVE  channel[d].code # tx[h].number
<1>1. tx[h].list \in Lists /\ tx[h].number = next[tx[h].list]
  BY DEF RInv, TypeOK, TxType, Transactions, TxOK
<1>2. next[tx[h].list] = Len(issued[tx[h].list]) + 1 /\ Len(issued[tx[h].list]) \in Nat
  BY <1>1 DEF RInv, TypeOK, CodesInSequence
<1>3. channel[d].code # 0 => channel[d].code \in 1..Len(issued[tx[h].list])
  BY DEF UInv, Numbered
<1> QED
  BY <1>1, <1>2, <1>3

\* What a statement changes of the code and the list: nothing, or the number and
\* the list of its handler.
Writes(h, changed) ==
  /\ changed \in ChannelRow /\ tx[h].seen \in ChannelRow
  /\ changed.code = tx[h].seen.code \/ (tx[h].number # 0 /\ changed.code = tx[h].number)
  /\ changed.list \in {tx[h].seen.list, tx[h].list}

\* The code and the list of the row that the next flush of a handler leaves.
LEMMA NextRow ==
  ASSUME RInv, UInv, NEW h \in Handlers, NEW changed, Writes(h, changed)
  PROVE  /\ \/ Merged(h, changed).code = channel[tx[h].chan].code
            \/ tx[h].number # 0 /\ Merged(h, changed).code = tx[h].number
         /\ Merged(h, changed).list \in {tx[h].list, channel[tx[h].chan].list}
         /\ OwnRow([tx[h] EXCEPT !.row = Flushed(h, changed)])
<1>1. OwnRow(tx[h]) /\ tx[h] \in TxType
  BY DEF UInv, RInv, TypeOK
<1>2. /\ \/ Merged(h, changed).code = channel[tx[h].chan].code
         \/ tx[h].number # 0 /\ Merged(h, changed).code = tx[h].number
      /\ Merged(h, changed).list \in {tx[h].list, channel[tx[h].chan].list}
  BY <1>1 DEF Merged, OwnRow, Writes
<1>3. Flushed(h, changed) \in {tx[h].row, Merged(h, changed)}
  BY DEF Flushed
<1> DEFINE t == [tx[h] EXCEPT !.row = Flushed(h, changed)]
<1>4. /\ t.row = Flushed(h, changed) /\ t.number = tx[h].number
      /\ t.chan = tx[h].chan /\ t.list = tx[h].list
  BY <1>1 DEF TxType
<1> HIDE DEF t
<1>5. OwnRow(t)
  BY <1>1, <1>2, <1>3, <1>4 DEF OwnRow
<1> QED
  BY <1>2, <1>5 DEF t

\* The statements write so.
LEMMA StatementsWrite ==
  ASSUME RInv, NEW h \in Handlers
  PROVE  /\ tx[h].stage = "lookup" => Writes(h, Submitted(h))
         /\ tx[h].stage = "activate" => Writes(h, Activated(h))
         /\ tx[h].stage = "decide" => Writes(h, Decided(h))
<1>1. /\ tx[h] \in TxType
      /\ tx[h].stage \in {"lookup", "activate", "decide"} => tx[h].seen \in ChannelRow
      /\ tx[h].stage = "decide" => tx[h].kind \in {"access", "approve", "reject"}
      /\ tx[h].stage = "decide" /\ tx[h].kind = "approve" => tx[h].number # 0
  BY DEF RInv, TypeOK, TxType, Transactions, TxOK
<1>2. ASSUME tx[h].stage = "lookup" PROVE Writes(h, Submitted(h))
  <2>1. /\ Submitted(h).code = tx[h].seen.code
        /\ Submitted(h).list \in {tx[h].seen.list, tx[h].list}
    BY <1>1, <1>2 DEF Submitted, ChannelRow
  <2> QED
    BY <1>1, <1>2, <2>1, SubmittedType DEF Writes
<1>3. ASSUME tx[h].stage = "activate" PROVE Writes(h, Activated(h))
  <2>1. Activated(h).code = tx[h].seen.code /\ Activated(h).list = tx[h].list
    BY <1>1, <1>3 DEF Activated, ChannelRow
  <2> QED
    BY <1>1, <1>3, <2>1, ActivatedType DEF Writes
<1>4. ASSUME tx[h].stage = "decide" PROVE Writes(h, Decided(h))
  <2>1. /\ Decided(h).code = tx[h].seen.code \/ (tx[h].number # 0 /\ Decided(h).code = tx[h].number)
        /\ Decided(h).list \in {tx[h].seen.list, tx[h].list}
    BY <1>1, <1>4 DEF Decided, Activated, ChannelRow
  <2> QED
    BY <1>1, <1>4, <2>1, DecidedType DEF Writes
<1> QED
  BY <1>2, <1>3, <1>4

\* Where no channel is moved, the flush that is next meets no other channel's code.
LEMMA HomeNeverCollides ==
  ASSUME RInv, UInv, \A c \in Channels : ~Moved(c), NEW h \in Handlers
  PROVE  ~Colliding(h)
<1>1. ASSUME NEW changed, Writes(h, changed), tx[h].stage # "idle"
      PROVE  ~Taken(tx[h].chan, Merged(h, changed))
  <2> DEFINE t == tx[h]
             c == t.chan
             row == Merged(h, changed)
  <2>1. c \in Channels /\ t.list \in Lists /\ t.list # NoList
    BY <1>1, RegistrationAssumption DEF RInv, Transactions, TxOK
  <2>2. /\ row.code = channel[c].code \/ (t.number # 0 /\ row.code = t.number)
        /\ row.list \in {t.list, channel[c].list}
    BY <1>1, NextRow
  <2>3. t.number # 0 => t.kind = "approve"
    BY DEF RInv, Transactions, TxOK
  <2> HIDE DEF t, row
  <2>4. ASSUME NEW d \in Channels, SameCode(c, row, d, channel[d]) PROVE FALSE
    <3>1. /\ c # d /\ row.list # NoList /\ row.code # 0
          /\ channel[d].list = row.list /\ channel[d].code = row.code
      BY <2>4 DEF SameCode
    <3>2. origin[d] = row.list
      BY <3>1 DEF Moved, Home
    <3>3. t.kind = "approve" \/ channel[c].code # 0 => t.list = Home(c)
      BY <2>1 DEF Moved, t
    <3>4. channel[c].list \in {Home(c), NoList}
      BY <2>1 DEF Moved
    <3>5. t.kind = "approve" \/ channel[c].code # 0 => row.list = t.list
      BY <2>2, <3>1, <3>3, <3>4
    <3>6. CASE row.code = channel[c].code
      <4>1. origin[c] = origin[d]
        BY <3>1, <3>2, <3>3, <3>5, <3>6 DEF Home
      <4> QED
        BY <2>1, <3>1, <3>6, <4>1 DEF UInv, Apart
    <3>7. CASE t.number # 0 /\ row.code = t.number
      <4>1. origin[d] = t.list
        BY <2>3, <3>2, <3>5, <3>7
      <4> QED
        BY <3>1, <3>7, <4>1, NumberIsFresh DEF t
    <3> QED
      BY <2>2, <3>6, <3>7
  <2> QED
    BY <2>4 DEF Taken, row, c, t
<1>2. CASE tx[h].stage = "lookup"
  BY <1>1, <1>2, StatementsWrite DEF Colliding, Clash, Wanted
<1>3. CASE tx[h].stage = "activate"
  BY <1>1, <1>3, StatementsWrite DEF Colliding, Clash, Wanted
<1>4. CASE tx[h].stage = "decide"
  BY <1>1, <1>4, StatementsWrite DEF Colliding, Clash, Wanted
<1>5. CASE tx[h].stage \notin {"lookup", "activate", "decide"}
  BY <1>5 DEF Colliding, Clash, Wanted
<1> QED
  BY <1>2, <1>3, <1>4, <1>5

\* A step that only moves one handler on keeps it.
LEMMA StepUInv ==
  ASSUME RInv, UInv, NEW h \in Handlers, NEW t, Step(h, t), OwnRow(t)
  PROVE  UInv'
<1>1. /\ tx' = [tx EXCEPT ![h] = t] /\ channel' = channel
      /\ issued' = issued /\ origin' = origin
  BY DEF Step, history
<1>2. \A g \in Handlers : tx'[g] = IF g = h THEN t ELSE tx[g]
  BY <1>1 DEF RInv, TypeOK
<1>3. ASSUME NEW g \in Handlers PROVE OwnRow(tx[g])'
  BY <1>1, <1>2 DEF UInv, OwnRow
<1>4. /\ \A c \in Channels : Numbered(c)'
      /\ \A c, d \in Channels : Apart(c, d)'
  BY <1>1 DEF UInv, Numbered, Apart
<1> QED
  BY <1>3, <1>4 DEF UInv

\* The statements that flush.
LEMMA FlushUInv ==
  ASSUME RInv, UInv, NEW h \in Handlers, Lookup(h) \/ Activate(h) \/ Decide(h)
  PROVE  UInv'
<1>1. ASSUME NEW changed, Writes(h, changed), NEW s, NEW r,
             Step(h, [tx[h] EXCEPT !.stage = s, !.row = Flushed(h, changed), !.req = r])
      PROVE  UInv'
  <2> DEFINE u == [tx[h] EXCEPT !.row = Flushed(h, changed)]
             t == [tx[h] EXCEPT !.stage = s, !.row = Flushed(h, changed), !.req = r]
  <2>1. OwnRow(u)
    BY <1>1, NextRow
  <2>2. t.row = u.row /\ t.chan = u.chan /\ t.list = u.list /\ t.number = u.number
    BY DEF RInv, TypeOK, TxType
  <2> HIDE DEF u
  <2>3. OwnRow(t)
    <3> HIDE DEF t
    <3> QED
      BY <2>1, <2>2 DEF OwnRow
  <2> QED
    BY <1>1, <2>3, StepUInv
<1>2. tx[h] \in TxType
  BY DEF RInv, TypeOK
<1>3. CASE Lookup(h)
  <2>1. PICK r : Step(h, [tx[h] EXCEPT !.stage = "commit", !.row = Flushed(h, Submitted(h)),
                                       !.req = r])
    BY <1>3 DEF Lookup
  <2>2. tx[h].stage = "lookup"
    BY <1>3 DEF Lookup
  <2> QED
    BY <1>1, <2>1, <2>2, StatementsWrite
<1>4. CASE Activate(h)
  <2>1. [tx[h] EXCEPT !.row = Flushed(h, Activated(h)), !.stage = "allocate"]
          = [tx[h] EXCEPT !.stage = "allocate", !.row = Flushed(h, Activated(h)), !.req = tx[h].req]
    BY <1>2 DEF TxType
  <2> QED
    BY <1>1, <1>4, <2>1, StatementsWrite DEF Activate
<1>5. CASE Decide(h)
  <2>1. [tx[h] EXCEPT !.row = Flushed(h, Decided(h)), !.stage = "commit"]
          = [tx[h] EXCEPT !.stage = "commit", !.row = Flushed(h, Decided(h)), !.req = tx[h].req]
    BY <1>2 DEF TxType
  <2> QED
    BY <1>1, <1>5, <2>1, StatementsWrite DEF Decide
<1> QED
  BY <1>3, <1>4, <1>5

\* The statements that only read, and the lock of the list.
LEMMA ReadsUInv ==
  ASSUME RInv, EInv, UInv, NEW h \in Handlers,
         \/ \E c \in Channels, a \in Applicants, l \in Lists : Submit(h, c, a, l)
         \/ \E kind \in {"access", "approve", "reject"}, r \in Requests : Choose(h, kind, r)
         \/ Load(h) \/ Ask(h) \/ Allocate(h)
  PROVE  UInv'
<1>0. tx[h] \in TxType /\ TxOK(tx[h]) /\ EntitledTx(tx[h]) /\ OwnRow(tx[h])
  BY DEF RInv, TypeOK, Transactions, EInv, UInv
<1>1. ASSUME NEW c \in Channels, NEW a \in Applicants, NEW l \in Lists, Submit(h, c, a, l)
      PROVE  UInv'
  <2> DEFINE t == [Idle EXCEPT !.kind = "submit", !.stage = "lookup", !.chan = c,
                               !.list = l, !.who = a, !.seen = channel[c]]
  <2>1. Step(h, t) /\ OwnRow(t)
    BY <1>1 DEF Submit, OwnRow, Idle
  <2> HIDE DEF t
  <2> QED
    BY <2>1, StepUInv
<1>2. ASSUME NEW kind \in {"access", "approve", "reject"}, NEW r \in Requests, Choose(h, kind, r)
      PROVE  UInv'
  <2> DEFINE t == [Idle EXCEPT !.kind = kind, !.stage = "load", !.req = r,
                               !.chan = request[r].channel, !.list = request[r].list]
  <2>1. Step(h, t) /\ OwnRow(t)
    BY <1>2 DEF Choose, OwnRow, Idle
  <2> HIDE DEF t
  <2> QED
    BY <2>1, StepUInv
<1>3. ASSUME Load(h) PROVE UInv'
  <2> DEFINE t == [tx[h] EXCEPT !.seen = channel[tx[h].chan],
                                !.stage = CASE tx[h].kind = "access" -> "ask"
                                            [] tx[h].kind = "approve" -> "activate"
                                            [] tx[h].kind = "reject" -> "decide"]
  <2>1. Step(h, t) /\ tx[h].row = NoRow
    BY <1>0, <1>3 DEF Load, EntitledTx, TxOK
  <2>2. t.row = NoRow
    BY <1>0, <2>1 DEF TxType
  <2> HIDE DEF t
  <2> QED
    BY <2>1, <2>2, StepUInv DEF OwnRow
<1>4. ASSUME Ask(h) PROVE UInv'
  <2> DEFINE t == [tx[h] EXCEPT !.answer = FullAccess(tx[h].chan, tx[h].list),
                                !.stage = "decide"]
  <2>1. Step(h, t) /\ tx[h].row = NoRow
    BY <1>0, <1>4 DEF Ask, EntitledTx, TxOK
  <2>2. t.row = NoRow
    BY <1>0, <2>1 DEF TxType
  <2> HIDE DEF t
  <2> QED
    BY <2>1, <2>2, StepUInv DEF OwnRow
<1>5. ASSUME Allocate(h) PROVE UInv'
  <2> DEFINE t == [tx[h] EXCEPT !.number = next[tx[h].list], !.stage = "decide"]
  <2>1. tx[h].number = 0 /\ Step(h, t)
    BY <1>0, <1>5 DEF Allocate, Number, TxOK
  <2>2. t.row = tx[h].row /\ t.chan = tx[h].chan /\ t.list = tx[h].list
    BY <1>0 DEF TxType
  <2> HIDE DEF t
  <2>3. OwnRow(t)
    BY <1>0, <2>1, <2>2 DEF OwnRow
  <2> QED
    BY <2>1, <2>3, StepUInv
<1> QED
  BY <1>1, <1>2, <1>3, <1>4, <1>5

\* A row is only committed by the handler that has locked it, so that its code is
\* still the channel's own, or the number, which is then given out.
LEMMA CommitUInv ==
  ASSUME RInv, EInv, UInv, NEW h \in Handlers, Commit(h)
  PROVE  UInv'
<1> DEFINE t == tx[h]
           n == IF Left(t).code = t.number /\ t.kind = "approve" THEN t.list ELSE origin[t.chan]
<1>1. /\ t \in TxType /\ TxOK(t) /\ OwnRow(t) /\ t.stage = "commit"
      /\ t.chan \in Channels /\ t.list \in Lists
      /\ t.number # 0 <=> t.kind = "approve"
  BY DEF Commit, RInv, TypeOK, Transactions, TxOK, UInv
<1>2. /\ \A d \in Channels : channel'[d] = IF d = t.chan THEN Left(t) ELSE channel[d]
      /\ \A d \in Channels : origin'[d] = IF d = t.chan THEN n ELSE origin[d]
      /\ \A g \in Handlers : tx'[g] = IF g = h THEN Idle ELSE tx[g]
  BY <1>1 DEF Commit, RInv, TypeOK
<1>3. /\ \A l \in Lists : 1..Len(issued[l]) \subseteq 1..Len(issued'[l])
      /\ t.kind = "approve" => t.number \in 1..Len(issued'[t.list])
  <2>1. CASE t.kind # "approve"
    BY <2>1 DEF Commit
  <2>2. CASE t.kind = "approve"
    <3>1. issued' = [issued EXCEPT ![t.list] = Append(issued[t.list], t.number)]
      BY <2>2 DEF Commit
    <3>2. /\ issued[t.list] \in Seq(Nat) /\ next[t.list] = Len(issued[t.list]) + 1
          /\ t.number = next[t.list] /\ t.number \in Nat
      BY <1>1, <2>2 DEF RInv, TypeOK, CodesInSequence, TxOK, TxType
    <3>3. issued'[t.list] = Append(issued[t.list], t.number)
      BY <1>1, <3>1 DEF RInv, TypeOK
    <3>4. Len(issued'[t.list]) = Len(issued[t.list]) + 1 /\ Len(issued[t.list]) \in Nat
      BY <3>2, <3>3
    <3>5. \A l \in Lists \ {t.list} : issued'[l] = issued[l]
      BY <3>1 DEF RInv, TypeOK
    <3> QED
      BY <3>2, <3>4, <3>5
  <2> QED
    BY <2>1, <2>2
<1>4. /\ \/ Left(t).code = channel[t.chan].code
         \/ t.kind = "approve" /\ Left(t).code = t.number
      /\ t.kind = "approve" => t.number # 0
  BY <1>1 DEF Left, OwnRow
<1>5. \/ Left(t).code = channel[t.chan].code /\ n = origin[t.chan]
      \/ t.kind = "approve" /\ Left(t).code = t.number /\ n = t.list
  BY <1>4
<1> HIDE DEF n
<1>6. ASSUME NEW c \in Channels PROVE Numbered(c)'
  <2>1. Numbered(c) /\ Numbered(t.chan)
    BY <1>1 DEF UInv
  <2>2. CASE c # t.chan
    BY <1>2, <1>3, <2>1, <2>2 DEF Numbered
  <2>3. CASE c = t.chan
    <3>1. channel'[c].code = Left(t).code /\ origin'[c] = n
      BY <1>2, <2>3
    <3>2. Left(t).code # 0 => n \in Lists /\ Left(t).code \in 1..Len(issued'[n])
      BY <1>1, <1>3, <1>5, <2>1 DEF Numbered
    <3> QED
      BY <3>1, <3>2 DEF Numbered
  <2> QED
    BY <2>2, <2>3
<1>7. ASSUME NEW c \in Channels, NEW d \in Channels PROVE Apart(c, d)'
  <2> SUFFICES ASSUME c # d, channel'[c].code # 0, origin'[c] = origin'[d]
               PROVE  channel'[d].code # channel'[c].code
    BY DEF Apart
  <2>1. Apart(c, d) /\ Apart(d, c)
    BY DEF UInv
  <2>2. ASSUME NEW e \in Channels, t.kind = "approve", origin[e] = t.list
        PROVE  channel[e].code # t.number
    BY <1>4, <2>2, NumberIsFresh
  <2>3. CASE c # t.chan /\ d # t.chan
    BY <1>2, <2>1, <2>3 DEF Apart
  <2>4. CASE c = t.chan
    <3>1. /\ channel'[c].code = Left(t).code /\ origin'[c] = n
          /\ channel'[d].code = channel[d].code /\ origin'[d] = origin[d]
      BY <1>2, <2>4
    <3> QED
      BY <1>5, <2>1, <2>2, <2>4, <3>1 DEF Apart
  <2>5. CASE d = t.chan
    <3>1. /\ channel'[d].code = Left(t).code /\ origin'[d] = n
          /\ channel'[c].code = channel[c].code /\ origin'[c] = origin[c]
      BY <1>2, <2>5
    <3> QED
      BY <1>5, <2>1, <2>2, <2>5, <3>1 DEF Apart
  <2> QED
    BY <2>3, <2>4, <2>5
<1>8. ASSUME NEW g \in Handlers PROVE OwnRow(tx[g])'
  <2>1. CASE g = h
    BY <1>2, <2>1 DEF OwnRow, Idle
  <2>2. CASE g # h
    <3>1. tx'[g] = tx[g] /\ OwnRow(tx[g])
      BY <1>2, <2>2 DEF UInv
    <3>2. tx[g].row # NoRow => channel'[tx[g].chan] = channel[tx[g].chan]
      <4>1. t.row # NoRow => ~(tx[g].row # NoRow /\ tx[g].chan = t.chan)
        BY <2>2 DEF EInv, OneFlushes
      <4>2. t.row = NoRow => channel' = channel
        BY CommittedChannel
      <4>3. tx[g].row # NoRow => tx[g].chan \in Channels
        BY DEF EInv, EntitledTx, RInv, Transactions, TxOK
      <4> QED
        BY <1>2, <4>1, <4>2, <4>3
    <3> QED
      BY <3>1, <3>2 DEF OwnRow
  <2> QED
    BY <2>1, <2>2
<1> QED
  BY <1>6, <1>7, <1>8 DEF UInv

\* A rollback forgets a row; a takedown keeps the code of a row nobody has locked.
LEMMA OthersUInv ==
  ASSUME RInv, EInv, UInv,
         \/ \E h \in Handlers : Fail(h)
         \/ \E c \in Channels : Strike(c) \/ Suspend(c) \/ Remove(c)
         \/ \E c \in Channels, l \in Lists : AdminChange(c, l)
         \/ UNCHANGED vars
  PROVE  UInv'
<1>1. issued' = issued /\ origin' = origin
  BY DEF Fail, Strike, Suspend, Remove, TakeDown, AdminChange, history, vars
<1>2. \A h \in Handlers : tx'[h] \in {tx[h], Idle}
  BY DEF Fail, Strike, Suspend, Remove, TakeDown, AdminChange, vars, RInv, TypeOK
<1>3. \A d \in Channels :
        \/ channel'[d] = channel[d]
        \/ /\ \A h \in Handlers : tx[h].chan # d \/ tx[h].row = NoRow
           /\ channel'[d].code = channel[d].code
  <2>1. CASE \/ \E h \in Handlers : Fail(h)
             \/ \E c \in Channels, l \in Lists : AdminChange(c, l)
             \/ UNCHANGED vars
    BY <2>1 DEF Fail, AdminChange, vars
  <2>2. ASSUME NEW c \in Channels, Strike(c) \/ Suspend(c) \/ Remove(c)
        PROVE  \A d \in Channels :
                 \/ channel'[d] = channel[d]
                 \/ /\ \A h \in Handlers : tx[h].chan # d \/ tx[h].row = NoRow
                    /\ channel'[d].code = channel[d].code
    <3>1. channel[c] \in ChannelRow /\ channel \in [Channels -> ChannelRow]
      BY DEF RInv, TypeOK
    <3>2. ASSUME NEW row, TakeDown(c, row), row.code = channel[c].code
          PROVE  \A d \in Channels :
                   \/ channel'[d] = channel[d]
                   \/ /\ \A h \in Handlers : tx[h].chan # d \/ tx[h].row = NoRow
                      /\ channel'[d].code = channel[d].code
      BY <3>1, <3>2 DEF TakeDown
    <3>3. /\ [channel[c] EXCEPT !.status = "removed", !.list = NoList].code = channel[c].code
          /\ [channel[c] EXCEPT !.status = "suspended"].code = channel[c].code
          /\ [channel[c] EXCEPT !.status = "removed"].code = channel[c].code
      BY <3>1 DEF ChannelRow
    <3> QED
      BY <2>2, <3>2, <3>3 DEF Strike, Suspend, Remove
  <2> QED
    BY <2>1, <2>2
<1>4. \A c \in Channels : channel'[c].code = channel[c].code
  BY <1>3
<1>5. /\ \A c \in Channels : Numbered(c)'
      /\ \A c, d \in Channels : Apart(c, d)'
  BY <1>1, <1>4 DEF UInv, Numbered, Apart
<1>6. ASSUME NEW h \in Handlers PROVE OwnRow(tx[h])'
  <2>1. CASE tx'[h] = Idle
    BY <2>1 DEF OwnRow, Idle
  <2>2. CASE tx'[h] = tx[h]
    <3>1. OwnRow(tx[h]) /\ (tx[h].row # NoRow => tx[h].chan \in Channels)
      BY DEF EInv, EntitledTx, RInv, Transactions, TxOK, UInv
    <3>2. tx[h].row # NoRow => channel'[tx[h].chan] = channel[tx[h].chan]
      BY <1>3, <3>1
    <3> QED
      BY <2>2, <3>1, <3>2 DEF OwnRow
  <2> QED
    BY <1>2, <2>1, <2>2
<1> QED
  BY <1>5, <1>6 DEF UInv

\* Every step keeps it.
LEMMA NextUInv == RInv /\ EInv /\ UInv /\ [Next]_vars => UInv'
<1> SUFFICES ASSUME RInv, EInv, UInv, [Next]_vars PROVE UInv'
  OBVIOUS
<1>1. ASSUME NEW h \in Handlers, Handle(h) PROVE UInv'
  BY <1>1, ReadsUInv, FlushUInv, CommitUInv, OthersUInv DEF Handle
<1>2. CASE \/ \E c \in Channels : Strike(c) \/ Suspend(c) \/ Remove(c)
           \/ \E c \in Channels, l \in Lists : AdminChange(c, l)
           \/ UNCHANGED vars
  BY <1>2, OthersUInv
<1> QED
  BY <1>1, <1>2 DEF Next

\* For any number of lists: as long as every channel sits in the list that gave it
\* its code and is requested for that list, no flush of any handler meets the
\* unique constraint on (list, code) (services.py:128-135, 233-242): the failure
\* that approvals do meet comes with a move between lists, and only with one.
THEOREM ClashesOnlyOnMovesCorrect == Spec => []ClashesOnlyOnMoves
<1>1. Init => UInv
  BY DEF Init, Unregistered, Idle, UInv, Numbered, Apart, OwnRow
<1>2. RInv /\ EInv /\ UInv /\ [Next]_vars => UInv'
  BY NextUInv
<1>3. RInv /\ UInv => ClashesOnlyOnMoves
  BY HomeNeverCollides DEF ClashesOnlyOnMoves, ApprovalNeverClashes
<1> QED
  BY <1>1, <1>2, <1>3, InitEInv, NextEInv, RInvCorrect, PTL DEF Spec
===============================================================================
