---------------------------- MODULE OutcomeProofs ----------------------------
(***************************************************************************)
(* Proofs about what the publication worker leaves in the database: the    *)
(* message ids of the rows, the outcomes of the targets, the strikes of    *)
(* the channels and the closed campaigns, for any number of targets,       *)
(* channels, campaigns, rollbacks and owner operations.                    *)
(*                                                                         *)
(* Ticks that overlap may settle a target twice, since retained and failed *)
(* are written without a look at the status.  What is promised to be the   *)
(* only outcome holds for one process (OneWorker), which is how the        *)
(* program is run; the rest is proved for any number of workers.           *)
(***************************************************************************)
EXTENDS PublicationProofs, FiniteSetTheorems

OneWorker == \A v, w \in Workers : v = w

-----------------------------------------------------------------------------
(* What the steps of a tick do to the rows.                                 *)

\* The targets a tick is still to ask the servers about.
Watching(w) ==
  {t \in Targets : \/ pc[w] \in {"retention", "check"} /\ t \in todo[w]
                   \/ pc[w] = "check" /\ t = cur[w]}

\* A row that has a message id has the one of the last copy that was posted,
\* and it has one from when it is published.
RowOK(row, copies) ==
  /\ row.msg # 0 => row.msg = copies /\ row.status # "planned"
  /\ row.status \in {"published", "retained"} => row.msg # 0

WritesOK(w) ==
  \A t \in Targets : Written(w, t) =>
    /\ RowOK(newTarget[w][t], posted[t])
    /\ newTarget[w][t].status = "running" => newTarget[w][t].msg = 0
    /\ target[t].msg # 0 => newTarget[w][t].msg # 0
    /\ newTarget[w][t].status \in {"running", "published"} => target[t].status = "planned"
HandsOK(w) ==
  /\ pc[w] = "record" => got[w] \in {0, posted[cur[w]]}
  /\ \A t \in Watching(w) : TargetIn(w, t).msg # 0
  /\ pc[w] = "check" => cur[w] \notin todo[w]
WatchInv ==
  /\ \A t \in Targets : RowOK(target[t], posted[t])
  /\ \A w \in Workers : WritesOK(w) /\ HandsOK(w)

\* A step of one tick leaves the others where they are.
Still(w) ==
  \A v \in Workers \ {w} :
    /\ pc'[v] = pc[v] /\ cur'[v] = cur[v] /\ todo'[v] = todo[v]
    /\ got'[v] = got[v] /\ seen'[v] = seen[v] /\ rows'[v] = rows[v]
    /\ newTarget'[v] = newTarget[v] /\ newChannel'[v] = newChannel[v]
    /\ newCampaign'[v] = newCampaign[v] /\ newViolation'[v] = newViolation[v]
    /\ dirty'[v] = dirty[v]

\* A step of a tick that writes no target and posts nothing.
Quiet(w) ==
  /\ UNCHANGED <<target, newTarget, posted>>
  /\ pc'[w] # "record"
  /\ Watching(w)' \subseteq Watching(w) \cup Watched(w)
  /\ pc'[w] = "check" => cur'[w] \notin todo'[w]

\* One that writes the row of the target in hand.
Writes(w, row) ==
  /\ UNCHANGED <<target, posted>>
  /\ newTarget' = [newTarget EXCEPT ![w][cur[w]] = row]
  /\ pc'[w] \notin {"record", "check"}
  /\ Watching(w)' \subseteq Watching(w) \ {cur[w]}
  /\ ~TargetBusy(w, cur[w])
RowFor(w, row) ==
  \/ /\ pc[w] = "claim" /\ TargetIn(w, cur[w]).status = "planned"
     /\ row = [TargetIn(w, cur[w]) EXCEPT !.status = "running"]
  \/ pc[w] = "channel" /\ row = Failed(w)
  \/ pc[w] = "record" /\ row = Outcome(w)
  \/ pc[w] = "check" /\ row \in {Failed(w), [TargetIn(w, cur[w]) EXCEPT !.status = "retained"]}

LEMMA StepIsLocal ==
  ASSUME TypeInv, NEW w \in Workers, Step(w) \/ Abort(w)
  PROVE  Still(w)
<1>1. TypeOK
  BY DEF TypeInv
<1>2. ASSUME TickBegin(w) \/ PickTarget(w) \/ Claim(w) \/ ClaimLost(w) \/ CheckChannel(w) \/ Forward(w)
      PROVE  Still(w)
  BY <1>1, <1>2 DEF TickBegin, PickTarget, Claim, ClaimLost, CheckChannel, Forward, TypeOK, Goto, Take,
     Skip, PutDown, Forget, Write, new, Still
<1>3. ASSUME Record(w) \/ RetentionBegin(w) \/ PickPublished(w) \/ CheckQuiet(w) \/ Retain(w) \/ Penalise(w)
      PROVE  Still(w)
  BY <1>1, <1>3 DEF Record, RetentionBegin, PickPublished, CheckQuiet, Retain, Penalise, TypeOK, Goto, Take,
     Skip, PutDown, Forget, Write, new, Still
<1>4. ASSUME ReconcileBegin(w) \/ Reconcile(w) \/ Commit(w) \/ Abort(w)
      PROVE  Still(w)
  BY <1>1, <1>4 DEF ReconcileBegin, Reconcile, Commit, Abort, TypeOK, Goto, Clear,
     PutDown, Forget, new, Still
<1> QED
  BY <1>2, <1>3, <1>4 DEF Step

LEMMA StepKinds ==
  ASSUME TypeInv, IInv, WatchInv, NEW w \in Workers, Step(w)
  PROVE  \/ Quiet(w)
         \/ \E row \in TargetRow : Writes(w, row) /\ RowFor(w, row)
         \/ Forward(w) \/ Commit(w)
<1>1. TypeOK /\ HandsOK(w)
  BY DEF TypeInv, WatchInv
<1>2. /\ pc \in [Workers -> Stage] /\ cur \in [Workers -> Targets \cup {NoTarget}]
      /\ todo \in [Workers -> SUBSET Targets]
  BY <1>1 DEF TypeOK
<1>3. CASE TickBegin(w) \/ PickTarget(w) \/ ClaimLost(w) \/ ReconcileBegin(w) \/ Reconcile(w)
  <2>1. /\ UNCHANGED <<target, newTarget, posted>>
        /\ pc'[w] \in {"publish", "claim", "reconcile"}
    BY <1>2, <1>3 DEF TickBegin, PickTarget, ClaimLost, ReconcileBegin, Reconcile, Goto, Skip, db, rubika, new
  <2> QED
    BY <2>1 DEF Quiet, Watching
<1>4. CASE RetentionBegin(w)
  <2>1. UNCHANGED <<target, newTarget, posted>> /\ pc'[w] = "retention" /\ todo'[w] \subseteq Watched(w)
    BY <1>2, <1>4 DEF RetentionBegin, Goto, First, db, rubika, new
  <2> QED
    BY <2>1 DEF Quiet, Watching
<1>5. CASE PickPublished(w)
  <2>1. UNCHANGED <<target, newTarget, posted>> /\ pc[w] = "retention"
    BY <1>5 DEF PickPublished, Skip, db, rubika, new
  <2>2. \/ \E t \in todo[w] : pc'[w] = "check" /\ cur'[w] = t /\ todo'[w] = todo[w] \ {t}
        \/ \E t \in todo[w] : pc'[w] = "retention" /\ todo'[w] = todo[w] \ {t}
    BY <1>2, <1>5 DEF PickPublished, Skip, Take, Goto
  <2> QED
    BY <1>2, <2>1, <2>2 DEF Quiet, Watching
<1>6. CASE CheckQuiet(w)
  <2>1. /\ UNCHANGED <<target, newTarget, posted>> /\ pc[w] = "check" /\ pc'[w] = "retention"
        /\ todo' = todo
    BY <1>2, <1>6 DEF CheckQuiet, Goto, db, rubika, new
  <2> QED
    BY <2>1 DEF Quiet, Watching
<1>7. CASE CheckChannel(w) /\ ChannelIn(w, ChannelOf[cur[w]]).status = "active"
  <2>1. UNCHANGED <<target, newTarget, posted>> /\ pc'[w] = "forward"
    BY <1>2, <1>7 DEF CheckChannel, Goto, db, rubika, new
  <2> QED
    BY <2>1 DEF Quiet, Watching
<1>8. CASE Claim(w)
  <2>1. cur[w] \in Targets
    BY <1>8 DEF Claim, TypeInv, HandOK
  <2> DEFINE row == [TargetIn(w, cur[w]) EXCEPT !.status = "running"]
  <2>2. TargetIn(w, cur[w]) \in TargetRow
    BY <1>1, <2>1, ViewTypes
  <2>3. row \in TargetRow
    BY <2>2 DEF TargetRow, TargetStatus
  <2>4. pc'[w] = "channel"
    BY <1>2, <1>8 DEF Claim, Goto
  <2>5. Writes(w, row)
    BY <1>8, <2>4 DEF Claim, Write, Writes, Watching, db, rubika
  <2>6. RowFor(w, row)
    BY <1>8 DEF Claim, Claimable, RowFor
  <2> QED
    BY <2>3, <2>5, <2>6
<1>9. CASE CheckChannel(w) /\ ChannelIn(w, ChannelOf[cur[w]]).status # "active"
  <2>1. cur[w] \in Targets /\ ~TargetBusy(w, cur[w])
    BY <1>9, HoldsAlone DEF CheckChannel, Holding
  <2>2. Failed(w) \in TargetRow
    BY <2>1, FailedType
  <2>3. pc'[w] = "publish"
    BY <1>2, <1>9 DEF CheckChannel, Goto
  <2>4. Writes(w, Failed(w)) /\ RowFor(w, Failed(w))
    BY <1>9, <2>1, <2>3 DEF CheckChannel, Write, Writes, RowFor, Watching, db, rubika
  <2> QED
    BY <2>2, <2>4
<1>10. CASE Record(w)
  <2>1. cur[w] \in Targets /\ ~TargetBusy(w, cur[w])
    BY <1>10, HoldsAlone DEF Record, Holding
  <2>2. Outcome(w) \in TargetRow
    <3>1. now \in Time /\ got[w] \in Nat /\ Failed(w) \in TargetRow
      BY <1>1, <2>1, FailedType DEF TypeOK
    <3> QED
      BY <3>1 DEF Outcome, TargetRow, TargetStatus
  <2>3. pc'[w] = "publish"
    BY <1>2, <1>10 DEF Record, Goto
  <2>4. Writes(w, Outcome(w)) /\ RowFor(w, Outcome(w))
    BY <1>10, <2>1, <2>3 DEF Record, Writes, RowFor, Watching, db, rubika
  <2> QED
    BY <2>2, <2>4
<1>11. CASE Retain(w) \/ Penalise(w)
  <2> DEFINE kept == [TargetIn(w, cur[w]) EXCEPT !.status = "retained"]
  <2>1. pc[w] = "check" /\ cur[w] \in Targets /\ ~TargetBusy(w, cur[w])
    BY <1>11 DEF Retain, Penalise, TypeInv, HandOK
  <2>2. Failed(w) \in TargetRow /\ kept \in TargetRow
    BY <1>1, <2>1, FailedType, ViewTypes DEF TargetRow, TargetStatus
  <2>3. pc'[w] = "retention" /\ todo'[w] = todo[w]
    BY <1>2, <1>11 DEF Retain, Penalise, Goto
  <2>4. Watching(w)' \subseteq Watching(w) \ {cur[w]}
    BY <1>1, <2>1, <2>3 DEF Watching, HandsOK
  <2>5. Retain(w) => Writes(w, kept)
    BY <2>1, <2>3, <2>4 DEF Retain, Write, Writes, db, rubika
  <2>6. Penalise(w) => Writes(w, Failed(w))
    BY <2>1, <2>3, <2>4 DEF Penalise, Writes, db, rubika
  <2>7. RowFor(w, kept) /\ RowFor(w, Failed(w))
    BY <2>1 DEF RowFor
  <2> HIDE DEF kept
  <2> QED
    BY <1>11, <2>2, <2>5, <2>6, <2>7
<1> QED
  BY <1>3, <1>4, <1>5, <1>6, <1>7, <1>8, <1>9, <1>10, <1>11 DEF Step

-----------------------------------------------------------------------------
(* The message ids: for any number of workers, the retention monitor        *)
(* watches the last copy that was posted.                                   *)

\* What a tick sees of a row is as good as what it has written or what is there.
LEMMA ViewOK ==
  ASSUME WatchInv, NEW w \in Workers, NEW t \in Targets
  PROVE  /\ RowOK(TargetIn(w, t), posted[t])
         /\ target[t].msg # 0 => TargetIn(w, t).msg # 0
BY DEF WatchInv, WritesOK, TargetIn, Written

LEMMA InitWatch == Init => WatchInv
<1> SUFFICES ASSUME Init PROVE WatchInv
  OBVIOUS
<1>1. \A w \in Workers : WritesOK(w)
  BY DEF Init, WritesOK, Written, NoTargetRows
<1>2. \A w \in Workers : HandsOK(w)
  BY DEF Init, HandsOK, Watching
<1>3. \A t \in Targets : RowOK(target[t], posted[t])
  BY DEF Init, RowOK
<1> QED
  BY <1>1, <1>2, <1>3 DEF WatchInv

\* Another worker, when neither the rows nor the copies have changed.
LEMMA OthersWatch ==
  ASSUME WatchInv, NEW w \in Workers, NEW v \in Workers, v # w, Still(w),
         UNCHANGED <<target, posted>>
  PROVE  WritesOK(v)' /\ HandsOK(v)'
<1>1. WritesOK(v) /\ HandsOK(v)
  BY DEF WatchInv
<1>2. newTarget'[v] = newTarget[v]
  BY DEF Still
<1>3. WritesOK(v)'
  BY <1>1, <1>2 DEF WritesOK, Written
<1>4. \A t \in Targets : t \in Watching(v)' => t \in Watching(v) /\ TargetIn(v, t)' = TargetIn(v, t)
  BY <1>2 DEF Still, Watching, TargetIn
<1>5. HandsOK(v)'
  <2>1. pc'[v] = pc[v] /\ cur'[v] = cur[v] /\ todo'[v] = todo[v] /\ got'[v] = got[v]
    BY DEF Still
  <2>2. \A t \in Watching(v)' : TargetIn(v, t)'.msg # 0
    BY <1>1, <1>4 DEF HandsOK, Watching
  <2> QED
    BY <1>1, <2>1, <2>2 DEF HandsOK
<1> QED
  BY <1>3, <1>5

LEMMA QuietWatch ==
  ASSUME WatchInv, NEW w \in Workers, Still(w), Quiet(w)
  PROVE  WatchInv'
<1>1. UNCHANGED <<target, newTarget, posted>> /\ pc'[w] # "record"
  BY DEF Quiet
<1>2. WritesOK(w)'
  BY <1>1 DEF WatchInv, WritesOK, Written
<1>3. HandsOK(w)'
  <2>1. ASSUME NEW t \in Targets, t \in Watching(w)' PROVE TargetIn(w, t)'.msg # 0
    <3>1. TargetIn(w, t)' = TargetIn(w, t)
      BY <1>1 DEF TargetIn
    <3>2. t \in Watching(w) \cup Watched(w)
      BY <2>1 DEF Quiet
    <3> QED
      BY <3>1, <3>2 DEF WatchInv, HandsOK, Watched
  <2>2. pc'[w] = "check" => cur'[w] \notin todo'[w]
    BY DEF Quiet
  <2>3. \A t \in Watching(w)' : t \in Targets
    BY DEF Watching
  <2> QED
    BY <1>1, <2>1, <2>2, <2>3 DEF HandsOK
<1>4. \A t \in Targets : RowOK(target[t], posted[t])'
  BY <1>1 DEF WatchInv
<1>5. \A v \in Workers : WritesOK(v)' /\ HandsOK(v)'
  BY <1>1, <1>2, <1>3, OthersWatch
<1> QED
  BY <1>4, <1>5 DEF WatchInv

\* What is true of a row that a tick writes.
LEMMA RowFacts ==
  ASSUME TypeInv, IInv, WatchInv, NEW w \in Workers, NEW row \in TargetRow,
         RowFor(w, row), ~TargetBusy(w, cur[w])
  PROVE  /\ cur[w] \in Targets /\ row # NoTargetRow
         /\ RowOK(row, posted[cur[w]])
         /\ row.status = "running" => row.msg = 0
         /\ target[cur[w]].msg # 0 => row.msg # 0
         /\ row.status \in {"running", "published"} => target[cur[w]].status = "planned"
         /\ \A v \in Workers \ {w} : ~Written(v, cur[w])
<1> DEFINE t == cur[w]
           old == TargetIn(w, t)
<1>1. t \in Targets /\ HandsOK(w) /\ WritesOK(w)
  BY DEF RowFor, TypeInv, HandOK, WatchInv
<1>2. old \in TargetRow /\ RowOK(old, posted[t]) /\ (target[t].msg # 0 => old.msg # 0)
  BY <1>1, ViewTypes, ViewOK DEF TypeInv
<1>3. RowOK(target[t], posted[t])
  BY <1>1 DEF WatchInv
<1>4. row # NoTargetRow /\ \A v \in Workers \ {w} : ~Written(v, t)
  BY DEF TargetRow, TargetStatus, NoTargetRow, NoWrite, TargetBusy, Written
<1>5. CASE pc[w] = "claim"
  <2>1. row.status = "running" /\ row.msg = old.msg /\ old.status = "planned"
    BY <1>2, <1>5 DEF RowFor, TargetRow
  <2>2. target[t].status = "planned"
    <3>1. newTarget[w][t].status # "planned"
      BY <1>1 DEF IInv, LockInv
    <3> QED
      BY <2>1, <3>1 DEF TargetIn
  <2> QED
    BY <1>1, <1>2, <1>4, <2>1, <2>2 DEF RowOK
<1>6. ASSUME row = Failed(w)
      PROVE  /\ RowOK(row, posted[t]) /\ row.status = "failed"
             /\ target[t].msg # 0 => row.msg # 0
  <2>1. row.status = "failed" /\ row.msg = old.msg
    BY <1>2, <1>6 DEF Failed, TargetRow
  <2> QED
    BY <1>2, <2>1 DEF RowOK
<1>7. CASE pc[w] = "channel"
  BY <1>1, <1>4, <1>6, <1>7 DEF RowFor
<1>8. CASE pc[w] = "record"
  <2>1. target[t].status = "planned" /\ got[w] \in {0, posted[t]}
    BY <1>1, <1>8, HoldsAlone DEF Holding, HandsOK
  <2>2. target[t].msg = 0
    BY <1>3, <2>1 DEF RowOK
  <2>3. CASE got[w] # 0
    BY <1>1, <1>4, <1>8, <2>1, <2>2, <2>3 DEF RowFor, Outcome, RowOK
  <2>4. CASE got[w] = 0
    BY <1>1, <1>4, <1>6, <1>8, <2>1, <2>4 DEF RowFor, Outcome
  <2> QED
    BY <2>3, <2>4
<1>9. CASE pc[w] = "check"
  <2>1. old.msg # 0
    BY <1>1, <1>9 DEF HandsOK, Watching
  <2>2. row = [old EXCEPT !.status = "retained"] => row.status = "retained" /\ row.msg = old.msg
    BY <1>2 DEF TargetRow
  <2> QED
    BY <1>1, <1>2, <1>4, <1>6, <1>9, <2>1, <2>2 DEF RowFor, RowOK
<1> QED
  BY <1>5, <1>7, <1>8, <1>9 DEF RowFor

LEMMA WriteWatch ==
  ASSUME TypeInv, IInv, WatchInv, NEW w \in Workers, Still(w), NEW row \in TargetRow,
         Writes(w, row), RowFor(w, row)
  PROVE  WatchInv'
<1> DEFINE t == cur[w]
<1>1. /\ UNCHANGED <<target, posted>> /\ pc'[w] \notin {"record", "check"}
      /\ Watching(w)' \subseteq Watching(w) \ {t} /\ ~TargetBusy(w, t)
  BY DEF Writes
<1>2. /\ t \in Targets /\ row # NoTargetRow /\ RowOK(row, posted[t])
      /\ row.status = "running" => row.msg = 0
      /\ target[t].msg # 0 => row.msg # 0
      /\ row.status \in {"running", "published"} => target[t].status = "planned"
  BY <1>1, RowFacts
<1>3. newTarget'[w][t] = row /\ \A u \in Targets \ {t} : newTarget'[w][u] = newTarget[w][u]
  BY <1>2 DEF Writes, TypeInv, TypeOK
<1>4. WritesOK(w)'
  <2> SUFFICES ASSUME NEW u \in Targets, Written(w, u)'
               PROVE  /\ RowOK(newTarget'[w][u], posted[u])
                      /\ newTarget'[w][u].status = "running" => newTarget'[w][u].msg = 0
                      /\ target[u].msg # 0 => newTarget'[w][u].msg # 0
                      /\ newTarget'[w][u].status \in {"running", "published"} =>
                           target[u].status = "planned"
    BY <1>1 DEF WritesOK
  <2>1. CASE u = t
    BY <1>2, <1>3, <2>1
  <2>2. CASE u # t
    BY <1>3, <2>2 DEF WatchInv, WritesOK, Written
  <2> QED
    BY <2>1, <2>2
<1>5. HandsOK(w)'
  <2>1. ASSUME NEW u \in Targets, u \in Watching(w)' PROVE TargetIn(w, u)'.msg # 0
    <3>1. u \in Watching(w) /\ u # t
      BY <1>1, <2>1
    <3>2. TargetIn(w, u)' = TargetIn(w, u)
      BY <1>1, <1>3, <3>1 DEF TargetIn
    <3> QED
      BY <3>1, <3>2 DEF WatchInv, HandsOK
  <2>2. \A u \in Watching(w)' : u \in Targets
    BY DEF Watching
  <2> QED
    BY <1>1, <2>1, <2>2 DEF HandsOK
<1>6. \A v \in Workers : WritesOK(v)' /\ HandsOK(v)'
  BY <1>1, <1>4, <1>5, OthersWatch
<1> QED
  BY <1>1, <1>6 DEF WatchInv

\* A new copy is posted of a target whose rows have no message id.
LEMMA ForwardWatch ==
  ASSUME TypeInv, IInv, WatchInv, NEW w \in Workers, Still(w), Forward(w)
  PROVE  WatchInv'
<1> DEFINE t == cur[w]
<1>1. /\ t \in Targets /\ Written(w, t) /\ target[t].status = "planned" /\ pc[w] = "forward"
      /\ \A v \in Workers \ {w} : ~Written(v, t)
  BY HoldsAlone DEF Forward, Holding
<1>2. /\ UNCHANGED <<target, newTarget, cur, todo>> /\ pc'[w] = "record"
  BY DEF Forward, Goto, db, new, TypeInv, TypeOK
<1>3. target[t].msg = 0 /\ newTarget[w][t].msg = 0
  <2>1. newTarget[w][t].status = "running"
    BY <1>1 DEF IInv, LockInv
  <2> QED
    BY <1>1, <2>1 DEF WatchInv, WritesOK, RowOK
<1>4. /\ \A u \in Targets \ {t} : posted'[u] = posted[u]
      /\ got'[w] \in {0, posted'[t]}
  <2>1. posted \in [Targets -> Nat] /\ got \in [Workers -> Nat]
    BY DEF TypeInv, TypeOK
  <2>2. CASE got' = [got EXCEPT ![w] = 0] /\ UNCHANGED posted
    BY <2>1, <2>2
  <2>3. CASE /\ posted' = [posted EXCEPT ![t] = @ + 1]
             /\ \E id \in AnswerIds(t) : got' = [got EXCEPT ![w] = id]
    <3>1. posted'[t] = posted[t] + 1
      BY <1>1, <2>1, <2>3
    <3> QED
      BY <1>1, <2>1, <2>3, <3>1 DEF AnswerIds
  <2> QED
    BY <2>2, <2>3 DEF Forward
<1>5. \A u \in Targets : RowOK(target[u], posted[u])'
  BY <1>2, <1>3, <1>4 DEF WatchInv, RowOK
<1>6. ASSUME NEW v \in Workers PROVE WritesOK(v)'
  <2> SUFFICES ASSUME NEW u \in Targets, Written(v, u)
               PROVE  /\ RowOK(newTarget[v][u], posted'[u])
                      /\ newTarget[v][u].status = "running" => newTarget[v][u].msg = 0
                      /\ target[u].msg # 0 => newTarget[v][u].msg # 0
                      /\ newTarget[v][u].status \in {"running", "published"} =>
                           target[u].status = "planned"
    BY <1>2 DEF WritesOK, Written
  <2>1. WritesOK(v)
    BY DEF WatchInv
  <2>2. CASE u = t
    BY <1>1, <1>3, <2>1, <2>2 DEF WritesOK, RowOK
  <2>3. CASE u # t
    BY <1>4, <2>1, <2>3 DEF WritesOK
  <2> QED
    BY <2>2, <2>3
<1>7. ASSUME NEW v \in Workers PROVE HandsOK(v)'
  <2>1. \A u \in Targets : TargetIn(v, u)' = TargetIn(v, u)
    BY <1>2 DEF TargetIn
  <2>2. CASE v = w
    <3>1. \A u \in Watching(w)' : FALSE
      BY <1>2 DEF Watching
    <3> QED
      BY <1>2, <1>4, <2>2, <3>1 DEF HandsOK
  <2>3. CASE v # w
    <3>1. pc'[v] = pc[v] /\ cur'[v] = cur[v] /\ todo'[v] = todo[v] /\ got'[v] = got[v] /\ HandsOK(v)
      BY <2>3 DEF Still, WatchInv
    <3>2. pc[v] = "record" => cur[v] \in Targets /\ cur[v] # t
      <4>1. pc[v] = "record" => cur[v] \in Targets /\ Written(v, cur[v])
        BY HoldsAlone DEF Holding
      <4> QED
        BY <1>1, <2>3, <4>1
    <3>3. \A u \in Watching(v)' : u \in Watching(v) /\ u \in Targets
      BY <3>1 DEF Watching
    <3>4. \A u \in Watching(v)' : TargetIn(v, u)'.msg # 0
      BY <2>1, <3>1, <3>3 DEF HandsOK
    <3> QED
      BY <1>4, <3>1, <3>2, <3>4 DEF HandsOK
  <2> QED
    BY <2>2, <2>3
<1> QED
  BY <1>5, <1>6, <1>7 DEF WatchInv

\* The rows a tick has written become everybody's; nobody else has written one
\* of them, so what the others see of a watched row keeps its message id.
LEMMA CommitWatch ==
  ASSUME TypeInv, IInv, WatchInv, NEW w \in Workers, Still(w), Commit(w)
  PROVE  WatchInv'
<1>1. /\ posted' = posted /\ pc'[w] = "idle"
      /\ \A u \in Targets : target'[u] = TargetIn(w, u)
      /\ \A u \in Targets : newTarget'[w][u] = NoTargetRow
  BY ClearFrees DEF Commit, Goto, rubika, TypeInv, TypeOK
<1>2. \A u \in Targets : RowOK(target[u], posted[u])'
  BY <1>1, ViewOK
<1>3. WritesOK(w)' /\ HandsOK(w)'
  BY <1>1 DEF WritesOK, HandsOK, Written, Watching
<1>4. ASSUME NEW v \in Workers, v # w PROVE WritesOK(v)' /\ HandsOK(v)'
  <2>1. newTarget'[v] = newTarget[v] /\ WritesOK(v) /\ HandsOK(v)
    BY <1>4 DEF Still, WatchInv
  <2>2. ASSUME NEW u \in Targets, Written(v, u) PROVE target'[u] = target[u]
    <3>1. ~Written(w, u)
      BY <1>4, <2>2 DEF IInv, LockInv
    <3> QED
      BY <1>1, <3>1 DEF TargetIn, Written
  <2>3. WritesOK(v)'
    BY <1>1, <2>1, <2>2 DEF WritesOK, Written
  <2>4. ASSUME NEW u \in Targets, TargetIn(v, u).msg # 0 PROVE TargetIn(v, u)'.msg # 0
    <3>1. CASE Written(v, u)
      BY <2>1, <2>4, <3>1 DEF TargetIn, Written
    <3>2. CASE ~Written(v, u)
      <4>1. target[u].msg # 0 /\ TargetIn(v, u)' = target'[u]
        BY <2>1, <2>4, <3>2 DEF TargetIn, Written
      <4> QED
        BY <1>1, <4>1, ViewOK
    <3> QED
      BY <3>1, <3>2
  <2>5. pc'[v] = pc[v] /\ cur'[v] = cur[v] /\ todo'[v] = todo[v] /\ got'[v] = got[v]
    BY <1>4 DEF Still
  <2>6. \A u \in Watching(v)' : u \in Watching(v) /\ u \in Targets
    BY <2>5 DEF Watching
  <2>7. HandsOK(v)'
    BY <1>1, <2>1, <2>4, <2>5, <2>6 DEF HandsOK
  <2> QED
    BY <2>3, <2>7
<1> QED
  BY <1>2, <1>3, <1>4 DEF WatchInv

LEMMA AbortWatch ==
  ASSUME TypeInv, WatchInv, NEW w \in Workers, Still(w), Abort(w)
  PROVE  WatchInv'
<1>1. /\ UNCHANGED <<target, posted>> /\ pc'[w] = "idle"
      /\ \A u \in Targets : newTarget'[w][u] = NoTargetRow
  BY ClearFrees DEF Abort, Goto, db, rubika, TypeInv, TypeOK
<1>2. WritesOK(w)' /\ HandsOK(w)'
  BY <1>1 DEF WritesOK, HandsOK, Written, Watching
<1> QED
  BY <1>1, <1>2, OthersWatch DEF WatchInv

\* What the owner and the world outside leave alone.
LEMMA OthersLeave ==
  ASSUME Owner \/ OwnerCommit \/ World \/ UNCHANGED vars
  PROVE  UNCHANGED <<target, violation, posted, session>> /\ gone \subseteq gone'
<1>1. CASE Owner
  BY <1>1 DEF Owner, CancelCampaign, ToggleCampaign, EmergencyStop, SuspendChannel,
     RemoveChannel, OwnerOp, db, rubika
<1>2. CASE OwnerCommit
  BY <1>2 DEF OwnerCommit, rubika
<1>3. CASE World
  BY <1>3 DEF World, ClockTick, DeletePost, AccountChange, db, rubika
<1>4. CASE UNCHANGED vars
  BY <1>4 DEF vars, db, rubika
<1> QED
  BY <1>1, <1>2, <1>3, <1>4

LEMMA OthersKeepWatch ==
  ASSUME WatchInv, Owner \/ OwnerCommit \/ World \/ UNCHANGED vars
  PROVE  WatchInv'
<1>1. UNCHANGED <<target, posted, newTarget, pc, cur, todo, got>>
  BY OthersLeave DEF session, new
<1>2. ASSUME NEW w \in Workers PROVE WritesOK(w)' /\ HandsOK(w)'
  <2>1. WritesOK(w)'
    BY <1>1 DEF WatchInv, WritesOK, Written
  <2>2. Watching(w)' = Watching(w) /\ \A t \in Targets : TargetIn(w, t)' = TargetIn(w, t)
    BY <1>1 DEF Watching, TargetIn
  <2>3. \A t \in Watching(w) : t \in Targets
    BY DEF Watching
  <2> QED
    BY <1>1, <2>1, <2>2, <2>3 DEF WatchInv, HandsOK
<1> QED
  BY <1>1, <1>2 DEF WatchInv

LEMMA WatchStep == TypeInv /\ IInv /\ WatchInv /\ [Next]_vars => WatchInv'
<1> SUFFICES ASSUME TypeInv, IInv, WatchInv, [Next]_vars PROVE WatchInv'
  OBVIOUS
<1>1. ASSUME NEW w \in Workers, Step(w) PROVE WatchInv'
  BY <1>1, StepIsLocal, StepKinds, QuietWatch, WriteWatch, ForwardWatch, CommitWatch
<1>2. ASSUME NEW w \in Workers, Rollback(w) \/ DeadlockVictim(w) \/ QueryRefused(w) PROVE WatchInv'
  BY <1>2, StepIsLocal, AbortWatch DEF Rollback, DeadlockVictim, QueryRefused
<1> QED
  BY <1>1, <1>2, OthersKeepWatch DEF Next

LEMMA WatchInvCorrect == Spec => [](TypeInv /\ IInv /\ WatchInv)
<1>1. Init /\ [][Next]_vars => [](TypeInv /\ IInv /\ WatchInv)
  BY InitType, InitIInv, InitWatch, TypeStep, IInvStep, WatchStep, PTL
<1> QED
  BY <1>1, PTL DEF Spec

\* For any number of workers and lost ticks: the message id of a published or a
\* retained target is the one of the last copy that was posted, which is what
\* the retention monitor asks the servers for (network_worker.py, mark_published
\* and _check_retention).
THEOREM WatchesLastCopyCorrect == Spec => []WatchesLastCopy
<1>1. TypeInv /\ WatchInv => WatchesLastCopy
  <2> SUFFICES ASSUME TypeInv, WatchInv, NEW t \in Targets,
                      target[t].status \in {"published", "retained"}
               PROVE  target[t].msg > 0 /\ target[t].msg = posted[t]
    BY DEF WatchesLastCopy
  <2>1. target[t].msg \in Nat
    BY DEF TypeInv, TypeOK, TargetRow
  <2> QED
    BY <2>1 DEF WatchInv, RowOK
<1> QED
  BY <1>1, WatchInvCorrect, PTL

-----------------------------------------------------------------------------
(* Closed campaigns: the verdict was computed from rows that nobody else    *)
(* sees yet, and is still right when it is committed, for any number of     *)
(* workers.                                                                 *)

Closing == {"completed", "failed"}
ToClose(w) ==
  {c \in Campaigns : {rows[w][c], dirty[w][c], newCampaign[w][c]} \cap Closing # {}}
SettledFor(w, c) == \A t \in TargetsOf(c) : TargetIn(w, t).status \in Settled

\* The owner's open transaction closes no campaign and activates no channel.
OwnerOK ==
  /\ \A c \in Campaigns : pending.campaign[c] \notin Closing
  /\ \A ch \in Channels : pending.channel[ch] # "active"

ClosedInv ==
  /\ ClosedIsSettled /\ OwnerOK
  /\ \A w \in Workers : /\ \A c \in ToClose(w) : SettledFor(w, c)
                        /\ ToClose(w) # {} => pc[w] = "reconcile"

\* A target that is settled for everybody is settled for a tick.
LEMMA SettledSeen ==
  ASSUME TypeInv, IInv, WatchInv, NEW w \in Workers, NEW t \in Targets,
         target[t].status \in Settled
  PROVE  TargetIn(w, t).status \in Settled
<1>1. TargetIn(w, t) \in TargetRow
  BY ViewTypes DEF TypeInv
<1>2. CASE Written(w, t)
  <2>1. newTarget[w][t].status \notin {"planned", "running", "published"}
    BY <1>2 DEF IInv, LockInv, WatchInv, WritesOK, Settled
  <2> QED
    BY <1>1, <1>2, <2>1 DEF TargetIn, Written, TargetRow, TargetStatus, Settled
<1>3. CASE ~Written(w, t)
  BY <1>3 DEF TargetIn, Written
<1> QED
  BY <1>2, <1>3

\* The verdict closes a campaign only when all its targets are settled, and as
\* completed only when one was retained.
LEMMA VerdictCloses ==
  ASSUME NEW S, Verdict(S) \in Closing
  PROVE  S \subseteq Settled /\ (Verdict(S) = "completed" <=> "retained" \in S)
<1> DEFINE done   == S \subseteq Settled /\ "retained" \in S
           hopeless == S = {"failed"}
           running  == S \cap {"published", "running"} # {}
<1>1. ~(done /\ hopeless) /\ ~(done /\ running) /\ ~(hopeless /\ running)
  BY DEF Settled
<1>2. Verdict(S) = CASE done -> "completed" [] hopeless -> "failed" [] running -> "active"
                     [] OTHER -> NoWrite
  BY DEF Verdict
<1>3. hopeless => S \subseteq Settled /\ "retained" \notin S
  BY DEF Settled
<1> HIDE DEF done, hopeless, running
<1>4. /\ Verdict(S) = "completed" => done
      /\ Verdict(S) = "failed" => hopeless
      /\ Verdict(S) \in Closing
  BY <1>1, <1>2 DEF NoWrite
<1> QED
  BY <1>3, <1>4 DEF Closing, done

LEMMA InitClosed == Init => ClosedInv
<1> SUFFICES ASSUME Init PROVE ClosedInv
  OBVIOUS
<1>1. \A w \in Workers : ToClose(w) = {}
  BY DEF Init, ToClose, Closing, NoCampaignRows, NoWrite
<1>2. ClosedIsSettled
  BY ModelAssumption DEF Init, ClosedIsSettled, Live
<1>3. OwnerOK
  BY DEF Init, OwnerOK, NoOwnerWrites, NoCampaignRows, NoWrite, Closing
<1> QED
  BY <1>1, <1>2, <1>3 DEF ClosedInv

\* Before its reconciliation a tick has nothing to say of the campaigns.
LEMMA CampaignKinds ==
  ASSUME TypeInv, NEW w \in Workers, Step(w)
  PROVE  /\ pending' = pending
         /\ \/ UNCHANGED <<campaign, rows, dirty, newCampaign>> /\ pc[w] # "reconcile"
            \/ ReconcileBegin(w) \/ Reconcile(w) \/ Commit(w)
<1>1. ASSUME TickBegin(w) \/ PickTarget(w) \/ Claim(w) \/ ClaimLost(w) \/ CheckChannel(w)
      PROVE  UNCHANGED <<pending, campaign, rows, dirty, newCampaign>> /\ pc[w] # "reconcile"
  BY <1>1 DEF TickBegin, PickTarget, Claim, ClaimLost, CheckChannel, Skip, Write, new, db, owner
<1>2. ASSUME Forward(w) \/ Record(w) \/ RetentionBegin(w) \/ PickPublished(w)
      PROVE  UNCHANGED <<pending, campaign, rows, dirty, newCampaign>> /\ pc[w] # "reconcile"
  BY <1>2 DEF Forward, Record, RetentionBegin, PickPublished, Skip, new, db, owner
<1>3. ASSUME CheckQuiet(w) \/ Retain(w) \/ Penalise(w)
      PROVE  UNCHANGED <<pending, campaign, rows, dirty, newCampaign>> /\ pc[w] # "reconcile"
  BY <1>3 DEF CheckQuiet, Retain, Penalise, Write, new, db, owner
<1>4. ReconcileBegin(w) \/ Reconcile(w) \/ Commit(w) => pending' = pending
  BY DEF ReconcileBegin, Reconcile, Commit, owner
<1> QED
  BY <1>1, <1>2, <1>3, <1>4 DEF Step

\* Another tick, when the rows have not changed or have been settled further.
LEMMA OthersClosed ==
  ASSUME ClosedInv, NEW w \in Workers, NEW v \in Workers, v # w, Still(w),
         \A t \in Targets :
           TargetIn(v, t).status \in Settled => TargetIn(v, t)'.status \in Settled
  PROVE  /\ \A c \in ToClose(v)' : SettledFor(v, c)'
         /\ (ToClose(v) # {} => pc[v] = "reconcile")'
<1>1. ToClose(v)' = ToClose(v) /\ pc'[v] = pc[v]
  BY DEF Still, ToClose
<1>2. \A c \in ToClose(v) : SettledFor(v, c)'
  BY DEF ClosedInv, SettledFor, TargetsOf
<1> QED
  BY <1>1, <1>2 DEF ClosedInv

\* A step that changes neither the committed rows nor the view of a tick at its
\* reconciliation.
LEMMA TickClosed ==
  ASSUME TypeInv, IInv, WatchInv, ClosedInv, NEW w \in Workers, Step(w), ~Commit(w)
  PROVE  ClosedInv'
<1>0. Still(w)
  BY StepIsLocal
<1>1. UNCHANGED <<target, campaign, pending>>
  <2>1. target' = target
    BY StepKinds DEF Quiet, Writes, Forward, db
  <2> QED
    BY <2>1, CampaignKinds DEF ReconcileBegin, Reconcile, db
<1>2. /\ \A c \in ToClose(w)' : SettledFor(w, c)'
      /\ (ToClose(w) # {} => pc[w] = "reconcile")'
  <2>1. CASE UNCHANGED <<rows, dirty, newCampaign>> /\ pc[w] # "reconcile"
    <3>1. ToClose(w)' = ToClose(w) /\ ToClose(w) = {}
      BY <2>1 DEF ToClose, ClosedInv
    <3> QED
      BY <3>1
  <2>2. CASE ReconcileBegin(w)
    <3>1. /\ pc'[w] = "reconcile" /\ pc[w] # "reconcile"
          /\ UNCHANGED <<target, newTarget, dirty, newCampaign>>
          /\ \A c \in Campaigns : rows'[w][c] \in {NoWrite, Verdict({TargetIn(w, t).status : t \in TargetsOf(c)})}
      BY <2>2 DEF ReconcileBegin, Goto, TypeInv, TypeOK, db, new
    <3>2. ToClose(w) = {}
      BY <3>1 DEF ClosedInv
    <3>3. ASSUME NEW c \in Campaigns, c \in ToClose(w)' PROVE SettledFor(w, c)'
      <4>1. rows'[w][c] \in Closing
        BY <3>1, <3>2, <3>3 DEF ToClose
      <4> DEFINE S == {TargetIn(w, t).status : t \in TargetsOf(c)}
      <4>2. S \subseteq Settled
        <5>1. Verdict(S) \in Closing
          BY <3>1, <4>1 DEF Closing, NoWrite
        <5> HIDE DEF S
        <5> QED
          BY <5>1, VerdictCloses
      <4>3. \A t \in Targets : TargetIn(w, t)' = TargetIn(w, t)
        BY <3>1 DEF TargetIn
      <4> QED
        BY <4>2, <4>3 DEF SettledFor, TargetsOf
    <3> QED
      BY <3>1, <3>3 DEF ToClose
  <2>3. CASE Reconcile(w)
    <3>1. UNCHANGED <<pc, target, newTarget>>
      BY <2>3 DEF Reconcile, db
    <3>2. PICK d \in Campaigns :
            /\ rows' = [rows EXCEPT ![w][d] = NoWrite]
            /\ newCampaign' = [newCampaign EXCEPT ![w] = Flushed(w)]
            /\ dirty' = [dirty EXCEPT ![w] = [NoCampaignRows EXCEPT ![d] =
                 IF CampaignIn(w, d) = rows[w][d] THEN NoWrite ELSE rows[w][d]]]
      BY <2>3 DEF Reconcile
    <3>3. ASSUME NEW c \in Campaigns
          PROVE  /\ rows'[w][c] \in {rows[w][c], NoWrite}
                 /\ newCampaign'[w][c] \in {dirty[w][c], newCampaign[w][c]}
                 /\ dirty'[w][c] \in {rows[w][c], NoWrite}
      BY <3>2 DEF TypeInv, TypeOK, CampaignWrites, Flushed, NoCampaignRows
    <3>4. ToClose(w)' \subseteq ToClose(w)
      BY <3>3 DEF ToClose, Closing, NoWrite
    <3>5. \A t \in Targets : TargetIn(w, t)' = TargetIn(w, t)
      BY <3>1 DEF TargetIn
    <3> QED
      BY <3>1, <3>4, <3>5 DEF ClosedInv, SettledFor, TargetsOf
  <2> QED
    BY <2>1, <2>2, <2>3, CampaignKinds
<1>3. \A v \in Workers : /\ \A c \in ToClose(v)' : SettledFor(v, c)'
                         /\ (ToClose(v) # {} => pc[v] = "reconcile")'
  <2> SUFFICES ASSUME NEW v \in Workers, v # w
               PROVE  /\ \A c \in ToClose(v)' : SettledFor(v, c)'
                      /\ (ToClose(v) # {} => pc[v] = "reconcile")'
    BY <1>2
  <2>1. \A t \in Targets : TargetIn(v, t)' = TargetIn(v, t)
    BY <1>0, <1>1 DEF Still, TargetIn
  <2> QED
    BY <1>0, <2>1, OthersClosed
<1> QED
  BY <1>1, <1>3 DEF ClosedInv, ClosedIsSettled, OwnerOK

LEMMA CommitClosed ==
  ASSUME TypeInv, IInv, WatchInv, ClosedInv, NEW w \in Workers, Commit(w)
  PROVE  ClosedInv'
<1>0. Still(w)
  BY StepIsLocal DEF Step
<1>1. /\ pending' = pending /\ rows' = rows
      /\ \A t \in Targets : target'[t] = TargetIn(w, t)
      /\ \A c \in Campaigns : /\ campaign'[c] \in {dirty[w][c], newCampaign[w][c], campaign[c]}
                              /\ rows[w][c] = NoWrite
                              /\ dirty'[w][c] = NoWrite /\ newCampaign'[w][c] = NoWrite
  BY DEF Commit, Clear, Flushed, NoCampaignRows, TypeInv, TypeOK, owner
<1>2. ToClose(w)' = {}
  BY <1>1 DEF ToClose, Closing, NoWrite
<1>3. ClosedIsSettled'
  <2> SUFFICES ASSUME NEW c \in Campaigns, campaign'[c] \in Closing, NEW t \in TargetsOf(c)
               PROVE  TargetIn(w, t).status \in Settled
    BY <1>1 DEF ClosedIsSettled, Closing, TargetsOf
  <2>1. CASE c \in ToClose(w)
    BY <2>1 DEF ClosedInv, SettledFor
  <2>2. CASE campaign[c] \in Closing
    BY <2>2, SettledSeen DEF ClosedInv, ClosedIsSettled, Closing, TargetsOf
  <2> QED
    BY <1>1, <2>1, <2>2 DEF ToClose
<1>4. ASSUME NEW v \in Workers, v # w
      PROVE  /\ \A c \in ToClose(v)' : SettledFor(v, c)'
             /\ (ToClose(v) # {} => pc[v] = "reconcile")'
  <2>1. ASSUME NEW t \in Targets, TargetIn(v, t).status \in Settled
        PROVE  TargetIn(v, t)'.status \in Settled
    <3>1. newTarget'[v] = newTarget[v]
      BY <1>0, <1>4 DEF Still
    <3>2. CASE Written(v, t)
      BY <2>1, <3>1, <3>2 DEF TargetIn, Written
    <3>3. CASE ~Written(v, t)
      <4>1. target[t].status \in Settled /\ TargetIn(v, t)' = target'[t]
        BY <2>1, <3>1, <3>3 DEF TargetIn, Written
      <4> QED
        BY <1>1, <4>1, SettledSeen
    <3> QED
      BY <3>2, <3>3
  <2> QED
    BY <1>0, <1>4, <2>1, OthersClosed
<1> QED
  BY <1>1, <1>2, <1>3, <1>4 DEF ClosedInv, OwnerOK

LEMMA AbortClosed ==
  ASSUME TypeInv, ClosedInv, NEW w \in Workers, Abort(w)
  PROVE  ClosedInv'
<1>0. Still(w)
  BY StepIsLocal
<1>1. /\ UNCHANGED <<target, campaign, pending>>
      /\ \A c \in Campaigns : /\ rows'[w][c] = NoWrite
                              /\ dirty'[w][c] = NoWrite /\ newCampaign'[w][c] = NoWrite
  BY DEF Abort, Clear, NoCampaignRows, TypeInv, TypeOK, owner, db
<1>2. ToClose(w)' = {}
  BY <1>1 DEF ToClose, Closing, NoWrite
<1>3. ASSUME NEW v \in Workers, v # w
      PROVE  /\ \A c \in ToClose(v)' : SettledFor(v, c)'
             /\ (ToClose(v) # {} => pc[v] = "reconcile")'
  <2>1. \A t \in Targets : TargetIn(v, t)' = TargetIn(v, t)
    BY <1>0, <1>1, <1>3 DEF Still, TargetIn
  <2> QED
    BY <1>0, <1>3, <2>1, OthersClosed
<1> QED
  BY <1>1, <1>2, <1>3 DEF ClosedInv, ClosedIsSettled, OwnerOK

\* The owner pauses, resumes and cancels, but closes nothing.
LEMMA OwnerWrites ==
  ASSUME TypeInv, OwnerOK, Owner \/ OwnerCommit \/ World \/ UNCHANGED vars
  PROVE  /\ OwnerOK'
         /\ \A c \in Campaigns : campaign'[c] \in Closing => campaign'[c] = campaign[c]
<1>1. /\ NoOwnerWrites.campaign \in [Campaigns -> {NoWrite}]
      /\ NoOwnerWrites.channel \in [Channels -> {NoWrite}]
  BY DEF NoOwnerWrites, NoCampaignRows
<1>2. ASSUME NEW c \in Campaigns, CancelCampaign(c) \/ ToggleCampaign(c)
      PROVE  /\ campaign' = campaign
             /\ \A d \in Campaigns : pending'.campaign[d] \in {NoWrite, "cancelled", "paused", "active"}
             /\ pending'.channel = NoOwnerWrites.channel
  <2>1. CASE CancelCampaign(c)
    BY <1>1, <2>1 DEF CancelCampaign, OwnerOp, Changed, db
  <2>2. CASE ToggleCampaign(c)
    BY <1>1, <2>2 DEF ToggleCampaign, OwnerOp, db
  <2> QED
    BY <1>2, <2>1, <2>2
<1>3. ASSUME EmergencyStop
      PROVE  /\ campaign' = campaign
             /\ \A d \in Campaigns : pending'.campaign[d] \in {NoWrite, "paused"}
             /\ pending'.channel = NoOwnerWrites.channel
  BY <1>3 DEF EmergencyStop, OwnerOp, db
<1>4. ASSUME NEW h \in Channels, SuspendChannel(h) \/ RemoveChannel(h)
      PROVE  /\ campaign' = campaign
             /\ pending'.campaign = NoOwnerWrites.campaign
             /\ \A ch \in Channels : pending'.channel[ch] \in {NoWrite, "suspended", "removed"}
  <2>1. CASE SuspendChannel(h)
    BY <1>1, <2>1 DEF SuspendChannel, OwnerOp, Changed, db
  <2>2. CASE RemoveChannel(h)
    BY <1>1, <2>2 DEF RemoveChannel, OwnerOp, Changed, db
  <2> QED
    BY <1>4, <2>1, <2>2
<1>5. CASE Owner
  BY <1>1, <1>2, <1>3, <1>4, <1>5 DEF Owner, OwnerOK, Closing, NoWrite
<1>6. CASE OwnerCommit
  <2>1. /\ pending' = NoOwnerWrites
        /\ \A c \in Campaigns : campaign'[c] \in {pending.campaign[c], campaign[c]}
    BY <1>6 DEF OwnerCommit
  <2> QED
    BY <1>1, <2>1 DEF OwnerOK, Closing, NoWrite
<1>7. CASE World \/ UNCHANGED vars
  <2>1. UNCHANGED <<campaign, pending>>
    BY <1>7 DEF World, ClockTick, DeletePost, AccountChange, vars, db, owner
  <2> QED
    BY <2>1 DEF OwnerOK
<1> QED
  BY <1>5, <1>6, <1>7

LEMMA OthersKeepClosed ==
  ASSUME TypeInv, ClosedInv, Owner \/ OwnerCommit \/ World \/ UNCHANGED vars
  PROVE  ClosedInv'
<1>1. UNCHANGED <<target, newTarget, pc, rows, dirty, newCampaign>>
  BY OthersLeave DEF session, new
<1>2. /\ OwnerOK'
      /\ \A c \in Campaigns : campaign'[c] \in Closing => campaign'[c] = campaign[c]
  BY OwnerWrites DEF ClosedInv
<1>3. ClosedIsSettled'
  BY <1>1, <1>2 DEF ClosedInv, ClosedIsSettled, Closing
<1>4. ASSUME NEW w \in Workers
      PROVE  ToClose(w)' = ToClose(w) /\ \A c \in Campaigns : SettledFor(w, c) => SettledFor(w, c)'
  BY <1>1 DEF ToClose, SettledFor, TargetIn, TargetsOf
<1>5. \A w \in Workers : ToClose(w) \subseteq Campaigns
  BY DEF ToClose
<1> QED
  BY <1>1, <1>2, <1>3, <1>4, <1>5 DEF ClosedInv

LEMMA ClosedStep == TypeInv /\ IInv /\ WatchInv /\ ClosedInv /\ [Next]_vars => ClosedInv'
<1> SUFFICES ASSUME TypeInv, IInv, WatchInv, ClosedInv, [Next]_vars PROVE ClosedInv'
  OBVIOUS
<1>1. ASSUME NEW w \in Workers, Step(w) PROVE ClosedInv'
  BY <1>1, TickClosed, CommitClosed
<1>2. ASSUME NEW w \in Workers, Rollback(w) \/ DeadlockVictim(w) \/ QueryRefused(w) PROVE ClosedInv'
  BY <1>2, AbortClosed DEF Rollback, DeadlockVictim, QueryRefused
<1> QED
  BY <1>1, <1>2, OthersKeepClosed DEF Next

LEMMA ClosedInvCorrect == Spec => [](TypeInv /\ IInv /\ WatchInv /\ ClosedInv)
<1>1. Init /\ [][Next]_vars => [](TypeInv /\ IInv /\ WatchInv /\ ClosedInv)
  BY InitType, InitIInv, InitWatch, InitClosed, TypeStep, IInvStep, WatchStep, ClosedStep, PTL
<1> QED
  BY <1>1, PTL DEF Spec

\* For any number of workers: a campaign that _reconcile_campaigns closed has no
\* target left to publish or to watch, although the verdict was computed from
\* rows that were not committed yet and other ticks committed in between.
THEOREM ClosedIsSettledCorrect == Spec => []ClosedIsSettled
<1>1. ClosedInv => ClosedIsSettled
  BY DEF ClosedInv
<1> QED
  BY <1>1, ClosedInvCorrect, PTL

-----------------------------------------------------------------------------
(* Strikes: ticks that overlap count the deletions of their own against the *)
(* channel, but the lock of the channel row puts the third one last.        *)

Punishing(w, ch) == newChannel[w][ch] # NoChannelRow
StrikesIn(w, ch) == Strikes(ch, violation \cup newViolation[w])
OutOfRotation(row) == row.status # "active"

\* A tick that counted three deletions has taken the channel out, it puts none
\* back, and what it read before the await is not better than what is there.
StrikesOK(w) ==
  /\ \A x \in newViolation[w] : Punishing(w, ChannelOf[x.target])
  /\ \A ch \in Channels :
       /\ StrikesIn(w, ch) >= 3 => OutOfRotation(ChannelIn(w, ch))
       /\ OutOfRotation(channel[ch]) => OutOfRotation(ChannelIn(w, ch))
       /\ pc[w] = "check" /\ ChannelOf[cur[w]] = ch /\ OutOfRotation(seen[w].channel)
            => OutOfRotation(ChannelIn(w, ch))
ChannelLocks ==
  \A v, w \in Workers : \A ch \in Channels : Punishing(v, ch) /\ Punishing(w, ch) => v = w
StrikesInv ==
  /\ ThreeStrikesOut /\ ChannelLocks
  /\ \A w \in Workers : StrikesOK(w)

\* A step of a tick that records no deletion: it keeps what it sees of the
\* channels, though it may lock one.
KeepsStrikes(w) ==
  /\ UNCHANGED <<channel, violation, newViolation>>
  /\ \A ch \in Channels :
       /\ ChannelIn(w, ch)' = ChannelIn(w, ch)
       /\ Punishing(w, ch) => Punishing(w, ch)'
       /\ Punishing(w, ch)' /\ ~Punishing(w, ch) => ~ChannelBusy(w, ch)
       /\ pc'[w] = "check" /\ ChannelOf[cur'[w]] = ch => seen'[w].channel = ChannelIn(w, ch)

LEMMA StrikeKinds ==
  ASSUME TypeInv, NEW w \in Workers, Step(w)
  PROVE  KeepsStrikes(w) \/ Penalise(w) \/ Commit(w)
<1> USE ModelAssumption
<1>1. TypeOK
  BY DEF TypeInv
<1>2. ASSUME UNCHANGED <<channel, violation, newViolation, newChannel>>, pc'[w] # "check"
      PROVE  KeepsStrikes(w)
  BY <1>2 DEF KeepsStrikes, ChannelIn, Punishing
<1>3. CASE TickBegin(w) \/ PickTarget(w) \/ Claim(w) \/ ClaimLost(w) \/ CheckChannel(w) \/ Forward(w)
  <2>1. UNCHANGED <<channel, violation, newViolation, newChannel>>
    BY <1>3 DEF TickBegin, PickTarget, Claim, ClaimLost, CheckChannel, Forward, Skip, Write, new, db
  <2>2. pc'[w] # "check"
    BY <1>1, <1>3 DEF TickBegin, PickTarget, Claim, ClaimLost, CheckChannel, Forward, Skip, Goto, TypeOK
  <2> QED
    BY <1>2, <2>1, <2>2
<1>4. CASE RetentionBegin(w) \/ CheckQuiet(w) \/ Retain(w) \/ ReconcileBegin(w) \/ Reconcile(w)
  <2>1. UNCHANGED <<channel, violation, newViolation, newChannel>>
    BY <1>4 DEF RetentionBegin, CheckQuiet, Retain, ReconcileBegin, Reconcile, Write, new, db
  <2>2. pc'[w] # "check"
    BY <1>1, <1>4 DEF RetentionBegin, CheckQuiet, Retain, ReconcileBegin, Reconcile, Goto, TypeOK
  <2> QED
    BY <1>2, <2>1, <2>2
<1>5. CASE PickPublished(w)
  <2>1. UNCHANGED <<channel, violation, newViolation, newChannel>> /\ pc[w] = "retention"
    BY <1>5 DEF PickPublished, Skip, new, db
  <2>2. pc'[w] = "check" => seen'[w].channel = ChannelIn(w, ChannelOf[cur'[w]])
    BY <1>1, <1>5, <2>1 DEF PickPublished, Skip, Take, Goto, TypeOK
  <2> QED
    BY <2>1, <2>2 DEF KeepsStrikes, ChannelIn, Punishing
<1>6. CASE Record(w)
  <2> DEFINE mine == ChannelOf[cur[w]]
  <2>1. cur[w] \in Targets /\ mine \in Channels
    BY <1>6 DEF Record, TypeInv, HandOK
  <2>2. /\ UNCHANGED <<channel, violation, newViolation>> /\ pc'[w] = "publish"
        /\ newChannel'[w][mine] = IF got[w] # 0 THEN ChannelIn(w, mine) ELSE newChannel[w][mine]
        /\ \A ch \in Channels \ {mine} : newChannel'[w][ch] = newChannel[w][ch]
        /\ got[w] # 0 => ~ChannelBusy(w, mine)
    BY <1>1, <1>6, <2>1 DEF Record, Goto, TypeOK, db
  <2>3. ChannelIn(w, mine) \in ChannelRow /\ ChannelIn(w, mine) # NoChannelRow
    <3>1. ChannelIn(w, mine) \in ChannelRow
      BY <1>1, <2>1, ViewTypes
    <3> QED
      BY <3>1 DEF ChannelRow, ChannelStatus, NoChannelRow, NoWrite
  <2>4. ASSUME NEW ch \in Channels
        PROVE  /\ ChannelIn(w, ch)' = ChannelIn(w, ch)
               /\ Punishing(w, ch) => Punishing(w, ch)'
               /\ Punishing(w, ch)' /\ ~Punishing(w, ch) => ~ChannelBusy(w, ch)
    BY <2>2, <2>3 DEF ChannelIn, Punishing
  <2> QED
    BY <2>2, <2>4 DEF KeepsStrikes
<1> QED
  BY <1>3, <1>4, <1>5, <1>6 DEF Step

\* A recorded deletion is one of a target, which is posted in a channel.
LEMMA ViolationTypes ==
  ASSUME TypeInv, NEW w \in Workers, NEW x \in newViolation[w]
  PROVE  x.target \in Targets /\ ChannelOf[x.target] \in Channels
<1>1. x \in Violation
  BY DEF TypeInv, TypeOK
<1> QED
  BY <1>1, ModelAssumption DEF Violation

\* The same deletions against a channel are as many strikes.
LEMMA SameStrikes ==
  ASSUME NEW ch, NEW U, NEW V,
         {x \in U : ChannelOf[x.target] = ch} = {x \in V : ChannelOf[x.target] = ch}
  PROVE  Strikes(ch, U) = Strikes(ch, V)
BY DEF Strikes

\* Nothing but the earlier strikes, of which there are fewer than three.
LEMMA NoStrikes ==
  ASSUME NEW ch \in Channels
  PROVE  Strikes(ch, {}) = EarlierStrikes[ch] /\ EarlierStrikes[ch] \in 0 .. 2
<1>1. {v \in {} : ChannelOf[v.target] = ch} = {}
  OBVIOUS
<1>2. Cardinality({}) = 0
  BY FS_EmptySet
<1>3. EarlierStrikes[ch] \in 0 .. 2
  BY ModelAssumption
<1> QED
  BY <1>1, <1>2, <1>3 DEF Strikes

LEMMA InitStrikes == Init => StrikesInv
<1> SUFFICES ASSUME Init PROVE StrikesInv
  OBVIOUS
<1>1. \A ch \in Channels : Strikes(ch, {}) = EarlierStrikes[ch] /\ EarlierStrikes[ch] \in 0 .. 2
  BY NoStrikes
<1>2. \A w \in Workers : /\ newViolation[w] = {} /\ pc[w] = "idle" /\ violation \cup {} = {}
                         /\ \A ch \in Channels : ~Punishing(w, ch)
  BY DEF Init, Punishing, NoChannelRows
<1>3. \A w \in Workers : StrikesOK(w)
  BY <1>1, <1>2 DEF StrikesOK, StrikesIn, ChannelIn, Punishing, Init
<1>4. ThreeStrikesOut /\ ChannelLocks
  BY <1>1, <1>2 DEF ThreeStrikesOut, ChannelLocks, Init
<1> QED
  BY <1>3, <1>4 DEF StrikesInv

\* Another tick, when what is committed has not changed.
LEMMA OthersStrikes ==
  ASSUME StrikesInv, NEW w \in Workers, NEW v \in Workers, v # w, Still(w),
         UNCHANGED <<channel, violation>>
  PROVE  StrikesOK(v)'
<1>1. /\ pc'[v] = pc[v] /\ cur'[v] = cur[v] /\ seen'[v] = seen[v]
      /\ newChannel'[v] = newChannel[v] /\ newViolation'[v] = newViolation[v]
  BY DEF Still
<1> QED
  BY <1>1 DEF StrikesInv, StrikesOK, StrikesIn, ChannelIn, Punishing

LEMMA LocksStay ==
  ASSUME ChannelLocks, NEW w \in Workers, Still(w),
         \A ch \in Channels : Punishing(w, ch)' /\ ~Punishing(w, ch) => ~ChannelBusy(w, ch)
  PROVE  ChannelLocks'
<1>1. \A v \in Workers \ {w} : \A ch \in Channels : Punishing(v, ch)' = Punishing(v, ch)
  BY DEF Still, Punishing
<1>2. \A ch \in Channels : ~ChannelBusy(w, ch) => \A v \in Workers \ {w} : ~Punishing(v, ch)
  BY DEF ChannelBusy, Punishing
<1>3. \A ch \in Channels : Punishing(w, ch)' => \A v \in Workers \ {w} : ~Punishing(v, ch)
  BY <1>2 DEF ChannelLocks
<1> QED
  BY <1>1, <1>3 DEF ChannelLocks

LEMMA KeepStrikes ==
  ASSUME TypeInv, TypeInv', StrikesInv, NEW w \in Workers, Still(w), KeepsStrikes(w)
  PROVE  StrikesInv'
<1> USE ModelAssumption
<1>1. /\ UNCHANGED <<channel, violation, newViolation>>
      /\ \A ch \in Channels : /\ ChannelIn(w, ch)' = ChannelIn(w, ch)
                              /\ Punishing(w, ch) => Punishing(w, ch)'
                              /\ pc'[w] = "check" /\ ChannelOf[cur'[w]] = ch
                                   => seen'[w].channel = ChannelIn(w, ch)
  BY DEF KeepsStrikes
<1>2. StrikesOK(w)'
  <2>1. \A x \in newViolation[w] : Punishing(w, ChannelOf[x.target])'
    <3>1. \A x \in newViolation[w] : ChannelOf[x.target] \in Channels
      BY ViolationTypes
    <3> QED
      BY <1>1, <3>1 DEF StrikesInv, StrikesOK
  <2>2. \A ch \in Channels : /\ StrikesIn(w, ch)' = StrikesIn(w, ch)
                             /\ OutOfRotation(channel[ch])' = OutOfRotation(channel[ch])
                             /\ OutOfRotation(ChannelIn(w, ch))' = OutOfRotation(ChannelIn(w, ch))
    BY <1>1 DEF StrikesIn, OutOfRotation
  <2>3. \A ch \in Channels :
          pc'[w] = "check" /\ ChannelOf[cur'[w]] = ch /\ OutOfRotation(seen'[w].channel)
            => OutOfRotation(ChannelIn(w, ch))'
    BY <1>1, <2>2 DEF OutOfRotation
  <2> QED
    BY <1>1, <2>1, <2>2, <2>3 DEF StrikesInv, StrikesOK, OutOfRotation
<1>3. ChannelLocks'
  BY LocksStay DEF KeepsStrikes, StrikesInv
<1>4. ThreeStrikesOut'
  BY <1>1 DEF StrikesInv, ThreeStrikesOut
<1> QED
  BY <1>1, <1>2, <1>3, <1>4, OthersStrikes DEF StrikesInv

\* The deletion is counted with those of the tick and the committed ones, and
\* the third takes the channel out.
LEMMA PenaliseStrikes ==
  ASSUME TypeInv, StrikesInv, NEW w \in Workers, Still(w), Penalise(w)
  PROVE  StrikesInv'
<1> USE ModelAssumption
<1>0. cur[w] \in Targets /\ pc[w] = "check"
  BY DEF Penalise, TypeInv, HandOK
<1> PICK mine \in Channels : mine = ChannelOf[cur[w]]
  BY <1>0
<1>1. cur[w] \in Targets /\ mine \in Channels /\ mine = ChannelOf[cur[w]] /\ pc[w] = "check"
  BY <1>0
<1>2. /\ UNCHANGED <<channel, violation>> /\ pc'[w] = "retention"
      /\ newViolation'[w] = Recorded(w)
      /\ newChannel'[w][mine] = Punished(w)
      /\ \A ch \in Channels \ {mine} : newChannel'[w][ch] = newChannel[w][ch]
      /\ ~ChannelBusy(w, mine)
  BY <1>1 DEF Penalise, Goto, TypeInv, TypeOK, db
<1>3. StrikesOK(w)
  BY DEF StrikesInv
<1>4. ChannelIn(w, mine) \in ChannelRow /\ Punished(w) # NoChannelRow
  <2>1. ChannelIn(w, mine) \in ChannelRow
    BY <1>1, ViewTypes DEF TypeInv
  <2>2. Punished(w).status \in {ChannelIn(w, mine).status, "removed"}
    BY <2>1 DEF Punished, ChannelRow
  <2> QED
    BY <2>1, <2>2 DEF ChannelRow, ChannelStatus, NoChannelRow, NoWrite
<1>5. /\ OutOfRotation(ChannelIn(w, mine)) => OutOfRotation(Punished(w))
      /\ StrikesAfter(w) >= 3 => OutOfRotation(Punished(w))
  <2>1. CASE StrikesAfter(w) >= 3
    <3>1. Punished(w).status = IF seen[w].channel.status = "removed"
                                 THEN ChannelIn(w, mine).status ELSE "removed"
      BY <1>4, <2>1 DEF Punished, ChannelRow
    <3>2. seen[w].channel.status = "removed" => OutOfRotation(ChannelIn(w, mine))
      BY <1>1, <1>3 DEF StrikesOK, OutOfRotation
    <3> QED
      BY <3>1, <3>2 DEF OutOfRotation
  <2>2. CASE ~(StrikesAfter(w) >= 3)
    <3>1. Punished(w).status = ChannelIn(w, mine).status
      BY <1>4, <2>2 DEF Punished, ChannelRow
    <3> QED
      BY <2>2, <3>1 DEF OutOfRotation
  <2> QED
    BY <2>1, <2>2
<1>6. StrikesIn(w, mine)' = StrikesAfter(w)
  BY <1>1, <1>2 DEF StrikesIn, StrikesAfter
<1>7. ASSUME NEW ch \in Channels \ {mine} PROVE StrikesIn(w, ch)' = StrikesIn(w, ch)
  <2> DEFINE U == violation \cup Recorded(w)
             V == violation \cup newViolation[w]
  <2>1. {x \in U : ChannelOf[x.target] = ch} = {x \in V : ChannelOf[x.target] = ch}
    BY <1>7 DEF Recorded
  <2>2. StrikesIn(w, ch)' = Strikes(ch, U) /\ StrikesIn(w, ch) = Strikes(ch, V)
    BY <1>2 DEF StrikesIn
  <2> HIDE DEF U, V
  <2> QED
    BY <2>1, <2>2, SameStrikes
<1>8. ChannelIn(w, mine)' = Punished(w) /\ Punishing(w, mine)'
  BY <1>2, <1>4 DEF ChannelIn, Punishing
<1>9. \A ch \in Channels \ {mine} : /\ ChannelIn(w, ch)' = ChannelIn(w, ch)
                                    /\ Punishing(w, ch)' = Punishing(w, ch)
  BY <1>2 DEF ChannelIn, Punishing
<1>10. StrikesOK(w)'
  <2>1. ASSUME NEW x \in newViolation'[w] PROVE Punishing(w, ChannelOf[x.target])'
    <3>1. x \in newViolation[w] \/ x.target = cur[w]
      BY <1>2 DEF Recorded
    <3>2. x \in newViolation[w] => ChannelOf[x.target] \in Channels
      BY ViolationTypes
    <3>3. PICK ch \in Channels : ch = ChannelOf[x.target]
      BY <1>1, <3>1, <3>2
    <3>4. Punishing(w, ch)'
      BY <1>1, <1>3, <1>8, <1>9, <3>1, <3>3 DEF StrikesOK
    <3> QED
      BY <3>3, <3>4
  <2>2. ASSUME NEW ch \in Channels
        PROVE  /\ StrikesIn(w, ch)' >= 3 => OutOfRotation(ChannelIn(w, ch))'
               /\ OutOfRotation(channel[ch])' => OutOfRotation(ChannelIn(w, ch))'
    <3>1. CASE ch = mine
      BY <1>2, <1>3, <1>5, <1>6, <1>8, <3>1 DEF StrikesOK, OutOfRotation
    <3>2. CASE ch # mine
      BY <1>2, <1>3, <1>7, <1>9, <3>2 DEF StrikesOK, OutOfRotation
    <3> QED
      BY <3>1, <3>2
  <2> QED
    BY <1>2, <2>1, <2>2 DEF StrikesOK
<1>11. ChannelLocks'
  BY <1>2, <1>9, LocksStay DEF StrikesInv
<1>12. ThreeStrikesOut'
  BY <1>2 DEF StrikesInv, ThreeStrikesOut
<1> QED
  BY <1>2, <1>10, <1>11, <1>12, OthersStrikes DEF StrikesInv

\* The strikes a tick commits are those of channels it has locked, so nobody
\* else has counted one of these channels in the meantime.
LEMMA CommitStrikes ==
  ASSUME TypeInv, StrikesInv, NEW w \in Workers, Still(w), Commit(w)
  PROVE  StrikesInv'
<1> USE ModelAssumption
<1>1. /\ violation' = violation \cup newViolation[w] /\ newViolation'[w] = {}
      /\ pc'[w] = "idle"
      /\ \A ch \in Channels : channel'[ch] = ChannelIn(w, ch) /\ ~Punishing(w, ch)'
  BY DEF Commit, Clear, Goto, NoChannelRows, Punishing, TypeInv, TypeOK
<1>2. ThreeStrikesOut'
  BY <1>1 DEF StrikesInv, StrikesOK, StrikesIn, ThreeStrikesOut, OutOfRotation
<1>3. StrikesOK(w)'
  <2>1. \A ch \in Channels : ChannelIn(w, ch)' = channel'[ch]
    BY <1>1 DEF ChannelIn, Punishing
  <2>2. \A ch \in Channels : StrikesIn(w, ch)' = Strikes(ch, violation')
    BY <1>1 DEF StrikesIn
  <2> QED
    BY <1>1, <1>2, <2>1, <2>2 DEF StrikesOK, ThreeStrikesOut, OutOfRotation
<1>4. ASSUME NEW v \in Workers, v # w PROVE StrikesOK(v)'
  <2>1. /\ pc'[v] = pc[v] /\ cur'[v] = cur[v] /\ seen'[v] = seen[v]
        /\ newChannel'[v] = newChannel[v] /\ newViolation'[v] = newViolation[v]
        /\ StrikesOK(v) /\ StrikesOK(w)
    BY <1>4 DEF Still, StrikesInv
  <2>2. ASSUME NEW ch \in Channels
        PROVE  /\ StrikesIn(v, ch)' >= 3 => OutOfRotation(ChannelIn(v, ch)')
               /\ OutOfRotation(channel'[ch]) => OutOfRotation(ChannelIn(v, ch)')
               /\ OutOfRotation(ChannelIn(v, ch)) => OutOfRotation(ChannelIn(v, ch)')
    <3> DEFINE A == violation \cup newViolation[v]
               B == violation \cup newViolation[w]
               U == violation \cup newViolation[w] \cup newViolation[v]
    <3>1. StrikesIn(v, ch)' = Strikes(ch, U)
      BY <1>1, <2>1 DEF StrikesIn
    <3>2. CASE Punishing(v, ch)
      <4>1. ~Punishing(w, ch)
        BY <1>4, <3>2 DEF StrikesInv, ChannelLocks
      <4>2. channel'[ch] = channel[ch] /\ ChannelIn(v, ch)' = ChannelIn(v, ch)
        BY <1>1, <2>1, <3>2, <4>1 DEF ChannelIn, Punishing
      <4>3. {x \in U : ChannelOf[x.target] = ch} = {x \in A : ChannelOf[x.target] = ch}
        BY <2>1, <4>1 DEF StrikesOK
      <4>4. StrikesIn(v, ch) = Strikes(ch, A)
        BY DEF StrikesIn
      <4> HIDE DEF U, A, B
      <4>5. StrikesIn(v, ch)' = StrikesIn(v, ch)
        BY <3>1, <4>3, <4>4, SameStrikes
      <4> QED
        BY <2>1, <4>2, <4>5 DEF StrikesOK
    <3>3. CASE ~Punishing(v, ch)
      <4>1. ChannelIn(v, ch)' = ChannelIn(w, ch) /\ ChannelIn(v, ch) = channel[ch]
            /\ channel'[ch] = ChannelIn(w, ch)
        BY <1>1, <2>1, <3>3 DEF ChannelIn, Punishing
      <4>2. {x \in U : ChannelOf[x.target] = ch} = {x \in B : ChannelOf[x.target] = ch}
        BY <2>1, <3>3 DEF StrikesOK
      <4>3. StrikesIn(w, ch) = Strikes(ch, B)
        BY DEF StrikesIn
      <4> HIDE DEF U, A, B
      <4>4. StrikesIn(v, ch)' = StrikesIn(w, ch)
        BY <3>1, <4>2, <4>3, SameStrikes
      <4> QED
        BY <2>1, <4>1, <4>4 DEF StrikesOK
    <3> QED
      BY <3>2, <3>3
  <2>3. \A x \in newViolation[v] : Punishing(v, ChannelOf[x.target])'
    BY <2>1 DEF StrikesOK, Punishing
  <2> QED
    BY <2>1, <2>2, <2>3 DEF StrikesOK, OutOfRotation
<1>5. ChannelLocks'
  BY <1>1, LocksStay DEF StrikesInv
<1> QED
  BY <1>2, <1>3, <1>4, <1>5 DEF StrikesInv

LEMMA AbortStrikes ==
  ASSUME TypeInv, StrikesInv, NEW w \in Workers, Still(w), Abort(w)
  PROVE  StrikesInv'
<1>1. /\ UNCHANGED <<channel, violation>> /\ newViolation'[w] = {} /\ pc'[w] = "idle"
      /\ \A ch \in Channels : ~Punishing(w, ch)'
  BY DEF Abort, Clear, Goto, NoChannelRows, Punishing, TypeInv, TypeOK, db
<1>2. ThreeStrikesOut'
  BY <1>1 DEF StrikesInv, ThreeStrikesOut
<1>3. StrikesOK(w)'
  <2>1. \A ch \in Channels : ChannelIn(w, ch)' = channel'[ch]
    BY <1>1 DEF ChannelIn, Punishing
  <2>2. \A ch \in Channels : StrikesIn(w, ch)' = Strikes(ch, violation')
    BY <1>1 DEF StrikesIn
  <2> QED
    BY <1>1, <1>2, <2>1, <2>2 DEF StrikesOK, ThreeStrikesOut, OutOfRotation
<1>4. ChannelLocks'
  BY <1>1, LocksStay DEF StrikesInv
<1> QED
  BY <1>1, <1>2, <1>3, <1>4, OthersStrikes DEF StrikesInv

\* The owner suspends and removes channels, and only those no tick has locked.
LEMMA OthersKeepStrikes ==
  ASSUME TypeInv, OwnerOK, StrikesInv, Owner \/ OwnerCommit \/ World \/ UNCHANGED vars
  PROVE  StrikesInv'
<1> USE ModelAssumption
<1>1. UNCHANGED <<violation, newViolation, newChannel, pc, cur, seen>>
  BY OthersLeave DEF session, new
<1>2. ASSUME NEW ch \in Channels
      PROVE  /\ OutOfRotation(channel[ch]) => OutOfRotation(channel'[ch])
             /\ (\E w \in Workers : Punishing(w, ch)) => channel'[ch] = channel[ch]
  <2>1. CASE OwnerCommit
    <3>1. pending.channel[ch] # NoWrite =>
            channel'[ch] = [channel[ch] EXCEPT !.status = pending.channel[ch]]
      BY <2>1 DEF OwnerCommit
    <3>2. pending.channel[ch] = NoWrite => channel'[ch] = channel[ch]
      BY <2>1 DEF OwnerCommit
    <3>3. pending.channel[ch] # NoWrite => \A w \in Workers : ~Punishing(w, ch)
      BY <2>1 DEF OwnerCommit, Punishing
    <3>4. channel[ch] \in ChannelRow
      BY DEF TypeInv, TypeOK
    <3>5. pending.channel[ch] # NoWrite => channel'[ch].status = pending.channel[ch]
      BY <3>1, <3>4 DEF ChannelRow
    <3> QED
      BY <3>2, <3>3, <3>5 DEF OwnerOK, OutOfRotation
  <2>2. CASE Owner \/ World \/ UNCHANGED vars
    <3>1. channel' = channel
      BY <2>2 DEF Owner, CancelCampaign, ToggleCampaign, EmergencyStop, SuspendChannel,
         RemoveChannel, OwnerOp, World, ClockTick, DeletePost, AccountChange, vars, db
    <3> QED
      BY <3>1
  <2> QED
    BY <2>1, <2>2
<1>3. ASSUME NEW w \in Workers, NEW ch \in Channels
      PROVE  /\ StrikesIn(w, ch)' = StrikesIn(w, ch)
             /\ Punishing(w, ch)' = Punishing(w, ch)
             /\ OutOfRotation(ChannelIn(w, ch)) => OutOfRotation(ChannelIn(w, ch)')
             /\ OutOfRotation(channel'[ch]) => OutOfRotation(ChannelIn(w, ch)')
  <2>1. StrikesIn(w, ch)' = StrikesIn(w, ch) /\ Punishing(w, ch)' = Punishing(w, ch)
    BY <1>1 DEF StrikesIn, Punishing
  <2>2. CASE Punishing(w, ch)
    <3>1. ChannelIn(w, ch)' = ChannelIn(w, ch) /\ channel'[ch] = channel[ch]
      BY <1>1, <1>2, <2>2 DEF ChannelIn, Punishing
    <3> QED
      BY <2>1, <3>1 DEF StrikesInv, StrikesOK
  <2>3. CASE ~Punishing(w, ch)
    <3>1. ChannelIn(w, ch)' = channel'[ch] /\ ChannelIn(w, ch) = channel[ch]
      BY <1>1, <2>3 DEF ChannelIn, Punishing
    <3> QED
      BY <1>2, <2>1, <3>1
  <2> QED
    BY <2>2, <2>3
<1>4. ASSUME NEW w \in Workers PROVE StrikesOK(w)'
  <2>1. StrikesOK(w)
    BY DEF StrikesInv
  <2>2. \A x \in newViolation[w] : Punishing(w, ChannelOf[x.target])'
    BY <1>1, <2>1 DEF StrikesOK, Punishing
  <2> QED
    BY <1>1, <1>3, <2>1, <2>2 DEF StrikesOK, OutOfRotation
<1>5. ThreeStrikesOut'
  BY <1>1, <1>2 DEF StrikesInv, ThreeStrikesOut, OutOfRotation
<1>6. ChannelLocks'
  BY <1>3 DEF StrikesInv, ChannelLocks
<1> QED
  BY <1>4, <1>5, <1>6 DEF StrikesInv

LEMMA StrikesStep ==
  TypeInv /\ TypeInv' /\ ClosedInv /\ StrikesInv /\ [Next]_vars => StrikesInv'
<1> SUFFICES ASSUME TypeInv, TypeInv', ClosedInv, StrikesInv, [Next]_vars PROVE StrikesInv'
  OBVIOUS
<1>1. ASSUME NEW w \in Workers, Step(w) PROVE StrikesInv'
  BY <1>1, StepIsLocal, StrikeKinds, KeepStrikes, PenaliseStrikes, CommitStrikes
<1>2. ASSUME NEW w \in Workers, Rollback(w) \/ DeadlockVictim(w) \/ QueryRefused(w) PROVE StrikesInv'
  BY <1>2, StepIsLocal, AbortStrikes DEF Rollback, DeadlockVictim, QueryRefused
<1> QED
  BY <1>1, <1>2, OthersKeepStrikes DEF Next, ClosedInv

\* For any number of workers whose ticks overlap: a channel with three committed
\* early deletions is out of the rotation (RetentionMonitor.check), whatever
\* each tick had read of the channel before it awaited get_message.
THEOREM ThreeStrikesOutCorrect == Spec => []ThreeStrikesOut
<1>1. Init /\ [][Next]_vars => [](TypeInv /\ IInv /\ WatchInv /\ ClosedInv /\ StrikesInv)
  BY InitType, InitIInv, InitWatch, InitClosed, InitStrikes, TypeStep, IInvStep, WatchStep,
     ClosedStep, StrikesStep, PTL
<1>2. StrikesInv => ThreeStrikesOut
  BY DEF StrikesInv
<1> QED
  BY <1>1, <1>2, PTL DEF Spec

-----------------------------------------------------------------------------
(* One process: no tick works on the outcome of a target another tick may    *)
(* be settling, and every outcome is the only one.                          *)

\* A tick writes rows that are planned or published for everybody, and watches
\* only rows it sees published.
AloneInv ==
  \A w \in Workers :
    /\ \A t \in Targets : Written(w, t) => target[t].status \in {"planned", "published"}
    /\ \A t \in Watching(w) : TargetIn(w, t).status = "published"

\* Every tick is this one.
LEMMA Alone ==
  ASSUME OneWorker, NEW w \in Workers PROVE \A v \in Workers : v = w
BY DEF OneWorker

LEMMA InitAlone == Init => AloneInv
BY DEF Init, AloneInv, Written, NoTargetRows, Watching

LEMMA AloneTick ==
  ASSUME OneWorker, TypeInv, IInv, WatchInv, AloneInv, NEW w \in Workers, Step(w)
  PROVE  AloneInv'
<1>1. SUFFICES /\ \A t \in Targets : Written(w, t)' => target'[t].status \in {"planned", "published"}
               /\ \A t \in Targets : t \in Watching(w)' => TargetIn(w, t)'.status = "published"
  <2>1. \A t \in Watching(w)' : t \in Targets
    BY DEF Watching
  <2> QED
    BY <2>1, Alone DEF AloneInv
<1>2. CASE Quiet(w)
  <2>1. \A t \in Targets : TargetIn(w, t)' = TargetIn(w, t)
    BY <1>2 DEF Quiet, TargetIn
  <2> QED
    BY <1>2, <2>1 DEF Quiet, Written, Watched, AloneInv
<1>3. ASSUME NEW row \in TargetRow, Writes(w, row), RowFor(w, row)
      PROVE  /\ \A t \in Targets : Written(w, t)' => target'[t].status \in {"planned", "published"}
             /\ \A t \in Targets : t \in Watching(w)' => TargetIn(w, t)'.status = "published"
  <2>1. /\ UNCHANGED target /\ cur[w] \in Targets
        /\ newTarget'[w][cur[w]] = row
        /\ \A t \in Targets \ {cur[w]} : newTarget'[w][t] = newTarget[w][t]
        /\ Watching(w)' \subseteq Watching(w) \ {cur[w]}
    BY <1>3, RowFacts DEF Writes, TypeInv, TypeOK
  <2>2. target[cur[w]].status \in {"planned", "published"}
    <3>1. CASE pc[w] \in {"channel", "record"}
      BY <3>1, HoldsAlone DEF Holding
    <3>2. CASE pc[w] = "claim"
      <4>1. row.status = "running"
        BY <1>3, <2>1, <3>2, ViewTypes DEF RowFor, TypeInv, TargetRow
      <4> QED
        BY <1>3, <4>1, RowFacts DEF Writes
    <3>3. CASE pc[w] = "check"
      <4>1. cur[w] \in Watching(w)
        BY <2>1, <3>3 DEF Watching
      <4> QED
        BY <2>1, <4>1 DEF AloneInv, TargetIn, Written
    <3> QED
      BY <1>3, <3>1, <3>2, <3>3 DEF RowFor
  <2>3. \A t \in Targets \ {cur[w]} : TargetIn(w, t)' = TargetIn(w, t) /\ Written(w, t)' = Written(w, t)
    BY <2>1 DEF TargetIn, Written
  <2> QED
    BY <2>1, <2>2, <2>3 DEF AloneInv
<1>4. CASE Forward(w)
  <2>1. UNCHANGED <<target, newTarget>> /\ pc'[w] = "record"
    BY <1>4 DEF Forward, Goto, db, new, TypeInv, TypeOK
  <2> QED
    BY <2>1 DEF AloneInv, Written, Watching
<1>5. CASE Commit(w)
  <2>1. pc'[w] = "idle" /\ \A t \in Targets : newTarget'[w][t] = NoTargetRow
    BY <1>5, ClearFrees DEF Commit, Goto, TypeInv, TypeOK
  <2> QED
    BY <2>1 DEF Written, Watching
<1> QED
  BY <1>2, <1>3, <1>4, <1>5, StepKinds

LEMMA AloneAbort ==
  ASSUME OneWorker, TypeInv, AloneInv, NEW w \in Workers, Abort(w)
  PROVE  AloneInv'
<1>1. pc'[w] = "idle" /\ \A t \in Targets : newTarget'[w][t] = NoTargetRow
  BY ClearFrees DEF Abort, Goto, TypeInv, TypeOK
<1>2. Watching(w)' = {} /\ \A t \in Targets : ~Written(w, t)'
  BY <1>1 DEF Written, Watching
<1> QED
  BY <1>2, Alone DEF AloneInv

LEMMA OthersKeepAlone ==
  ASSUME AloneInv, Owner \/ OwnerCommit \/ World \/ UNCHANGED vars
  PROVE  AloneInv'
<1>1. UNCHANGED <<target, newTarget, pc, cur, todo>>
  BY OthersLeave DEF session, new
<1>2. \A w \in Workers : /\ Watching(w)' = Watching(w)
                         /\ \A t \in Targets : /\ TargetIn(w, t)' = TargetIn(w, t)
                                               /\ Written(w, t)' = Written(w, t)
  BY <1>1 DEF Watching, TargetIn, Written
<1>3. \A w \in Workers : \A t \in Watching(w) : t \in Targets
  BY DEF Watching
<1> QED
  BY <1>1, <1>2, <1>3 DEF AloneInv

LEMMA AloneStep ==
  ASSUME OneWorker
  PROVE  TypeInv /\ IInv /\ WatchInv /\ AloneInv /\ [Next]_vars => AloneInv'
<1> SUFFICES ASSUME TypeInv, IInv, WatchInv, AloneInv, [Next]_vars PROVE AloneInv'
  OBVIOUS
<1>1. ASSUME NEW w \in Workers, Step(w) PROVE AloneInv'
  BY <1>1, AloneTick
<1>2. ASSUME NEW w \in Workers, Rollback(w) \/ DeadlockVictim(w) \/ QueryRefused(w) PROVE AloneInv'
  BY <1>2, AloneAbort DEF Rollback, DeadlockVictim, QueryRefused
<1> QED
  BY <1>1, <1>2, OthersKeepAlone DEF Next

\* The outcomes a commit publishes are ones the lifecycle allows.
LEMMA CommitSettles ==
  ASSUME OneWorker, TypeInv, IInv, WatchInv, AloneInv, NEW w \in Workers, Commit(w)
  PROVE  Lifecycle!Settle
<1>1. /\ pc[w] = "reconcile" /\ posted' = posted
      /\ \A t \in Targets : target'[t] = TargetIn(w, t)
  BY DEF Commit, rubika
<1>2. ASSUME NEW t \in Targets
      PROVE  /\ TargetIn(w, t).status \in Lifecycle!Status
             /\ target[t].status = "planned" /\ posted[t] = 0
                  => TargetIn(w, t).status \in {"planned", "failed"}
             /\ target[t].status = "published"
                  => TargetIn(w, t).status \in {"published", "retained", "failed"}
             /\ target[t].status \in Settled => TargetIn(w, t).status = target[t].status
  <2>1. TargetIn(w, t) \in TargetRow /\ target[t] \in TargetRow
    BY ViewTypes DEF TypeInv, TypeOK
  <2>2. RowOK(TargetIn(w, t), posted[t]) /\ RowOK(target[t], posted[t])
    BY ViewOK DEF WatchInv
  <2>3. target[t].status # "running"
    BY DEF IInv, NoStrandedClaim
  <2>4. CASE Written(w, t)
    <3>1. newTarget[w][t].status \notin {"planned", "running"}
      BY <1>1 DEF IInv, LockInv
    <3>2. target[t].status \in {"planned", "published"}
      BY <2>4 DEF AloneInv
    <3> QED
      BY <2>1, <2>2, <2>4, <3>1, <3>2 DEF TargetIn, Written, RowOK, TargetRow, TargetStatus,
         Lifecycle!Status, Settled
  <2>5. CASE ~Written(w, t)
    BY <2>1, <2>3, <2>5 DEF TargetIn, Written, TargetRow, TargetStatus, Lifecycle!Status, Settled
  <2> QED
    BY <2>4, <2>5
<1>3. ASSUME NEW t \in Targets PROVE TargetIn(w, t).status \in Lifecycle!Outcomes(t)
  <2>1. posted[t] \in Nat
    BY DEF TypeInv, TypeOK
  <2>2. target[t].status \in Lifecycle!Status
    BY DEF TypeInv, TypeOK, TargetRow, TargetStatus, Lifecycle!Status, IInv, NoStrandedClaim
  <2>3. CASE target[t].status = "planned" /\ posted[t] > 0
    BY <1>2, <2>3 DEF Lifecycle!Outcomes
  <2>4. CASE target[t].status = "planned" /\ posted[t] = 0
    BY <1>2, <2>4 DEF Lifecycle!Outcomes
  <2>5. CASE target[t].status = "published"
    BY <1>2, <2>5 DEF Lifecycle!Outcomes
  <2>6. CASE target[t].status \in Settled
    BY <1>2, <2>6 DEF Lifecycle!Outcomes, Settled
  <2> QED
    BY <2>1, <2>2, <2>3, <2>4, <2>5, <2>6 DEF Lifecycle!Status, Settled
<1> QED
  BY <1>1, <1>2, <1>3 DEF Lifecycle!Settle

\* A forward posts a message of a target that is planned for everybody.
LEMMA ForwardPosts ==
  ASSUME TypeInv, IInv, NEW w \in Workers, Forward(w)
  PROVE  UNCHANGED <<target, posted>> \/ \E t \in Targets : Lifecycle!Post(t)
<1>1. cur[w] \in Targets /\ target[cur[w]].status = "planned"
  BY HoldsAlone DEF Forward, Holding
<1>2. /\ target' = target
      /\ posted' = posted \/ posted' = [posted EXCEPT ![cur[w]] = @ + 1]
  BY DEF Forward, db
<1> QED
  BY <1>1, <1>2 DEF Lifecycle!Post

LEMMA LifecycleStep ==
  ASSUME OneWorker
  PROVE  TypeInv /\ IInv /\ WatchInv /\ AloneInv /\ [Next]_vars
           => [Lifecycle!Next]_<<[t \in Targets |-> target[t].status], posted>>
<1> SUFFICES ASSUME TypeInv, IInv, WatchInv, AloneInv, [Next]_vars
             PROVE  [Lifecycle!Next]_<<[t \in Targets |-> target[t].status], posted>>
  OBVIOUS
<1>1. UNCHANGED <<target, posted>> => [Lifecycle!Next]_<<[t \in Targets |-> target[t].status], posted>>
  OBVIOUS
<1>2. ASSUME NEW w \in Workers, Step(w)
      PROVE  [Lifecycle!Next]_<<[t \in Targets |-> target[t].status], posted>>
  <2>1. CASE Quiet(w) \/ \E row \in TargetRow : Writes(w, row)
    BY <1>1, <2>1 DEF Quiet, Writes
  <2>2. CASE Forward(w)
    BY <1>1, <2>2, ForwardPosts DEF Lifecycle!Next
  <2>3. CASE Commit(w)
    BY <2>3, CommitSettles DEF Lifecycle!Next
  <2> QED
    BY <1>2, <2>1, <2>2, <2>3, StepKinds
<1>3. ASSUME NEW w \in Workers, Rollback(w) \/ DeadlockVictim(w) \/ QueryRefused(w)
      PROVE  [Lifecycle!Next]_<<[t \in Targets |-> target[t].status], posted>>
  BY <1>1, <1>3 DEF Rollback, DeadlockVictim, QueryRefused, Abort, db, rubika
<1>4. CASE Owner \/ OwnerCommit \/ World \/ UNCHANGED vars
  BY <1>1, <1>4, OthersLeave
<1> QED
  BY <1>2, <1>3, <1>4 DEF Next

LEMMA AloneCorrect ==
  ASSUME OneWorker PROVE Spec => [](TypeInv /\ IInv /\ WatchInv /\ AloneInv)
<1>1. Init /\ [][Next]_vars => [](TypeInv /\ IInv /\ WatchInv /\ AloneInv)
  BY InitType, InitIInv, InitWatch, InitAlone, TypeStep, IInvStep, WatchStep, AloneStep, PTL
<1> QED
  BY <1>1, PTL DEF Spec

\* The publication worker of one process implements the lifecycle of a target:
\* it posts only while the target is planned for everybody, and no committed
\* outcome is ever taken back, whatever is rolled back.
THEOREM LifecycleCorrect ==
  ASSUME OneWorker PROVE Spec => ImplementsLifecycle
<1>1. Init => Lifecycle!Init
  BY DEF Init, Lifecycle!Init
<1>2. TypeInv /\ IInv /\ WatchInv /\ AloneInv /\ [Next]_vars
        => [Lifecycle!Next]_<<[t \in Targets |-> target[t].status], posted>>
  BY LifecycleStep
<1>3. Spec => [](TypeInv /\ IInv /\ WatchInv /\ AloneInv)
  BY AloneCorrect
<1> QED
  BY <1>1, <1>2, <1>3, PTL DEF Spec, ImplementsLifecycle, Lifecycle!Spec

-----------------------------------------------------------------------------
(* One process: every violation is about a deletion of the message that was  *)
(* watched, or an answer that message_exists took for one, and is counted    *)
(* once.                                                                    *)

Grounds(x) == WasDeleted(x) \/ x.target \in EmptyAnswers
JustOK(w) ==
  /\ \A x \in newViolation[w] :
       /\ Written(w, x.target)
       /\ newTarget[w][x.target].status = "failed" /\ newTarget[w][x.target].msg = x.copy
       /\ Grounds(x)
  /\ \A x, y \in newViolation[w] : x.target = y.target => x = y
JustInv == StrikeJustified /\ \A w \in Workers : JustOK(w)

LEMMA InitJust == Init => JustInv
BY DEF Init, JustInv, StrikeJustified, JustOK

LEMMA ServersKept ==
  ASSUME NEW w \in Workers, Step(w) \/ Abort(w) PROVE gone' = gone
<1>1. ASSUME TickBegin(w) \/ PickTarget(w) \/ Claim(w) \/ ClaimLost(w) \/ CheckChannel(w) \/ Forward(w)
             \/ Record(w) \/ Commit(w) \/ Abort(w)
      PROVE  gone' = gone
  BY <1>1 DEF TickBegin, PickTarget, Claim, ClaimLost, CheckChannel, Forward, Record, Commit, Abort, rubika
<1>2. ASSUME RetentionBegin(w) \/ PickPublished(w) \/ CheckQuiet(w) \/ Retain(w) \/ Penalise(w)
             \/ ReconcileBegin(w) \/ Reconcile(w)
      PROVE  gone' = gone
  BY <1>2 DEF RetentionBegin, PickPublished, CheckQuiet, Retain, Penalise, ReconcileBegin, Reconcile, rubika
<1> QED
  BY <1>1, <1>2 DEF Step

\* The row a tick writes next is not one of those it has punished.
LEMMA NotPunished ==
  ASSUME TypeInv, IInv, WatchInv, AloneInv, NEW w \in Workers, NEW row, RowFor(w, row)
  PROVE  TargetIn(w, cur[w]).status # "failed"
<1>1. cur[w] \in Targets
  BY DEF RowFor, TypeInv, HandOK
<1>2. CASE pc[w] = "claim"
  BY <1>2 DEF RowFor
<1>3. CASE pc[w] \in {"channel", "record"}
  <2>1. newTarget[w][cur[w]].status = "running" /\ Written(w, cur[w])
    BY <1>3, HoldsAlone DEF Holding, IInv, LockInv
  <2> QED
    BY <2>1 DEF TargetIn, Written
<1>4. CASE pc[w] = "check"
  <2>1. cur[w] \in Watching(w)
    BY <1>1, <1>4 DEF Watching
  <2> QED
    BY <2>1 DEF AloneInv
<1> QED
  BY <1>2, <1>3, <1>4 DEF RowFor

LEMMA PenaliseWrites ==
  ASSUME TypeInv, IInv, WatchInv, NEW w \in Workers, Penalise(w)
  PROVE  /\ cur[w] \in Targets /\ RowFor(w, Failed(w)) /\ Failed(w) \in TargetRow
         /\ Failed(w).status = "failed" /\ Failed(w).msg = TargetIn(w, cur[w]).msg
         /\ newTarget'[w][cur[w]] = Failed(w)
         /\ \A t \in Targets \ {cur[w]} : newTarget'[w][t] = newTarget[w][t]
         /\ newViolation'[w] = Recorded(w)
         /\ UNCHANGED <<target, violation, channel>>
<1>1. cur[w] \in Targets /\ RowFor(w, Failed(w))
  BY DEF Penalise, TypeInv, HandOK, RowFor
<1>2. TargetIn(w, cur[w]) \in TargetRow /\ Failed(w) \in TargetRow
  BY <1>1, ViewTypes, FailedType DEF TypeInv
<1>3. Failed(w).status = "failed" /\ Failed(w).msg = TargetIn(w, cur[w]).msg
  BY <1>2 DEF Failed, TargetRow
<1> QED
  BY <1>1, <1>2, <1>3 DEF Penalise, TypeInv, TypeOK, db

\* Nothing is recorded yet about the target of a new violation.
LEMMA FirstViolation ==
  ASSUME TypeInv, IInv, WatchInv, AloneInv, JustInv, NEW w \in Workers, Penalise(w)
  PROVE  \A x \in violation \cup newViolation[w] : x.target # cur[w]
<1>1. TargetIn(w, cur[w]).status # "failed" /\ cur[w] \in Targets
  BY PenaliseWrites, NotPunished
<1>2. \A x \in newViolation[w] : x.target # cur[w]
  BY <1>1 DEF JustInv, JustOK, TargetIn, Written
<1>3. ASSUME NEW x \in violation PROVE x.target # cur[w]
  <2>1. target[x.target].status = "failed"
    BY DEF JustInv, StrikeJustified
  <2>2. \A t \in Targets : target[t].status = "failed" => ~Written(w, t)
    BY DEF AloneInv
  <2> QED
    BY <1>1, <2>1, <2>2 DEF TargetIn, Written
<1> QED
  BY <1>2, <1>3

LEMMA PenaliseJust ==
  ASSUME OneWorker, TypeInv, IInv, WatchInv, AloneInv, JustInv, NEW w \in Workers, Penalise(w)
  PROVE  JustInv'
<1> DEFINE x0 == [target |-> cur[w], by |-> w, copy |-> TargetIn(w, cur[w]).msg]
<1>1. newViolation'[w] = newViolation[w] \cup {x0} /\ gone' = gone
  BY PenaliseWrites, ServersKept DEF Recorded, Step
<1>2. Grounds(x0)
  BY DEF Penalise, Absent, Grounds, WasDeleted
<1>3. \A x \in newViolation[w] : x.target # cur[w] /\ x.target \in Targets
  BY FirstViolation, ViolationTypes
<1>4. ASSUME NEW x \in newViolation'[w]
      PROVE  /\ Written(w, x.target)'
             /\ newTarget'[w][x.target].status = "failed" /\ newTarget'[w][x.target].msg = x.copy
             /\ Grounds(x)
  <2>1. CASE x \in newViolation[w]
    <3>1. newTarget'[w][x.target] = newTarget[w][x.target]
      BY <1>3, <2>1, PenaliseWrites
    <3> QED
      BY <2>1, <3>1 DEF JustInv, JustOK, Written
  <2>2. CASE x = x0
    <3>1. x.target = cur[w] /\ x.copy = TargetIn(w, cur[w]).msg
      BY <2>2
    <3>2. newTarget'[w][x.target] = Failed(w) /\ Failed(w) # NoTargetRow
      BY <3>1, PenaliseWrites DEF NoTargetRow, NoWrite
    <3>3. Written(w, x.target)'
      BY <3>2 DEF Written
    <3> QED
      BY <1>2, <2>2, <3>1, <3>2, <3>3, PenaliseWrites
  <2> QED
    BY <1>1, <2>1, <2>2
<1>5. \A x, y \in newViolation'[w] : x.target = y.target => x = y
  BY <1>1, <1>3 DEF JustInv, JustOK
<1>6. JustOK(w)'
  BY <1>1, <1>4, <1>5 DEF JustOK, Grounds, WasDeleted
<1>7. StrikeJustified'
  BY <1>1, PenaliseWrites DEF JustInv, StrikeJustified, WasDeleted
<1> QED
  BY <1>6, <1>7, Alone DEF JustInv

LEMMA CommitJust ==
  ASSUME OneWorker, TypeInv, IInv, WatchInv, AloneInv, JustInv, NEW w \in Workers, Commit(w)
  PROVE  JustInv'
<1>1. /\ violation' = violation \cup newViolation[w] /\ newViolation'[w] = {} /\ gone' = gone
      /\ \A t \in Targets : target'[t] = TargetIn(w, t)
  BY DEF Commit, Clear, TypeInv, TypeOK, rubika
<1>2. ASSUME NEW x \in newViolation[w]
      PROVE  /\ x.target \in Targets /\ Written(w, x.target) /\ Grounds(x)
             /\ target'[x.target].status = "failed" /\ target'[x.target].msg = x.copy
  <2>1. x.target \in Targets /\ Written(w, x.target)
    BY ViolationTypes DEF JustInv, JustOK
  <2>2. target'[x.target] = newTarget[w][x.target]
    BY <1>1, <2>1 DEF TargetIn, Written
  <2> QED
    BY <2>1, <2>2 DEF JustInv, JustOK
<1>3. ASSUME NEW x \in violation
      PROVE  /\ ~Written(w, x.target) /\ Grounds(x)
             /\ target'[x.target].status = "failed" /\ target'[x.target].msg = x.copy
  <2>1. x.target \in Targets
    BY DEF TypeInv, TypeOK, Violation
  <2>2. target[x.target].status = "failed" /\ target[x.target].msg = x.copy /\ Grounds(x)
    BY DEF JustInv, StrikeJustified, Grounds
  <2>3. ~Written(w, x.target)
    BY <2>1, <2>2 DEF AloneInv
  <2> QED
    BY <1>1, <2>1, <2>2, <2>3 DEF TargetIn, Written
<1>4. \A x, y \in violation' : x.target = y.target => x = y
  BY <1>1, <1>2, <1>3 DEF JustInv, JustOK, StrikeJustified
<1>5. StrikeJustified'
  BY <1>1, <1>2, <1>3, <1>4 DEF StrikeJustified, Grounds, WasDeleted
<1>6. JustOK(w)'
  BY <1>1 DEF JustOK
<1> QED
  BY <1>5, <1>6, Alone DEF JustInv

LEMMA JustTick ==
  ASSUME OneWorker, TypeInv, IInv, WatchInv, AloneInv, JustInv, NEW w \in Workers, Step(w)
  PROVE  JustInv'
<1>1. ASSUME UNCHANGED <<target, violation, newViolation>>,
             \A t \in Targets : \/ newTarget'[w][t] = newTarget[w][t]
                                \/ TargetIn(w, t).status # "failed"
      PROVE  JustInv'
  <2>1. gone' = gone
    BY ServersKept
  <2>2. StrikeJustified'
    BY <1>1, <2>1 DEF JustInv, StrikeJustified, WasDeleted
  <2>3. \A x \in newViolation[w] : newTarget'[w][x.target] = newTarget[w][x.target]
    BY <1>1, ViolationTypes DEF JustInv, JustOK, TargetIn, Written
  <2>4. JustOK(w)'
    BY <1>1, <2>1, <2>3 DEF JustInv, JustOK, Written, Grounds, WasDeleted
  <2> QED
    BY <2>2, <2>4, Alone DEF JustInv
<1>2. CASE KeepsStrikes(w) /\ (Quiet(w) \/ Forward(w))
  BY <1>1, <1>2 DEF KeepsStrikes, Quiet, Forward, db, new
<1>3. ASSUME KeepsStrikes(w), NEW row \in TargetRow, Writes(w, row), RowFor(w, row)
      PROVE  JustInv'
  <2>1. /\ cur[w] \in Targets /\ UNCHANGED <<target, violation, newViolation>>
        /\ \A t \in Targets \ {cur[w]} : newTarget'[w][t] = newTarget[w][t]
    BY <1>3, RowFacts DEF KeepsStrikes, Writes, TypeInv, TypeOK
  <2> QED
    BY <1>1, <1>3, <2>1, NotPunished
<1> QED
  BY <1>2, <1>3, StepKinds, StrikeKinds, PenaliseJust, CommitJust

LEMMA AbortJust ==
  ASSUME OneWorker, TypeInv, JustInv, NEW w \in Workers, Abort(w)
  PROVE  JustInv'
<1>1. UNCHANGED <<target, violation, gone>> /\ newViolation'[w] = {}
  BY DEF Abort, Clear, TypeInv, TypeOK, db, rubika
<1>2. StrikeJustified' /\ JustOK(w)'
  BY <1>1 DEF JustInv, StrikeJustified, JustOK, WasDeleted
<1> QED
  BY <1>2, Alone DEF JustInv

LEMMA OthersKeepJust ==
  ASSUME JustInv, Owner \/ OwnerCommit \/ World \/ UNCHANGED vars
  PROVE  JustInv'
<1>1. UNCHANGED <<target, violation, newViolation, newTarget>> /\ gone \subseteq gone'
  BY OthersLeave DEF session, new
<1>2. StrikeJustified'
  BY <1>1 DEF JustInv, StrikeJustified, WasDeleted
<1>3. \A w \in Workers : JustOK(w)'
  BY <1>1 DEF JustInv, JustOK, Written, Grounds, WasDeleted
<1> QED
  BY <1>2, <1>3 DEF JustInv

LEMMA JustStep ==
  ASSUME OneWorker
  PROVE  TypeInv /\ IInv /\ WatchInv /\ AloneInv /\ JustInv /\ [Next]_vars => JustInv'
<1> SUFFICES ASSUME TypeInv, IInv, WatchInv, AloneInv, JustInv, [Next]_vars PROVE JustInv'
  OBVIOUS
<1>1. ASSUME NEW w \in Workers, Step(w) PROVE JustInv'
  BY <1>1, JustTick
<1>2. ASSUME NEW w \in Workers, Rollback(w) \/ DeadlockVictim(w) \/ QueryRefused(w) PROVE JustInv'
  BY <1>2, AbortJust DEF Rollback, DeadlockVictim, QueryRefused
<1> QED
  BY <1>1, <1>2, OthersKeepJust DEF Next

LEMMA JustCorrect ==
  ASSUME OneWorker PROVE Spec => [](TypeInv /\ IInv /\ WatchInv /\ AloneInv /\ JustInv)
<1>1. Init /\ [][Next]_vars => [](TypeInv /\ IInv /\ WatchInv /\ AloneInv /\ JustInv)
  BY InitType, InitIInv, InitWatch, InitAlone, InitJust, TypeStep, IInvStep, WatchStep,
     AloneStep, JustStep, PTL
<1> QED
  BY <1>1, PTL DEF Spec

\* In one process: a committed violation is about a failed target whose watched
\* message was deleted, unless get_message may answer nothing for it, and no
\* target is punished twice, by whatever ticks.
THEOREM StrikeJustifiedCorrect ==
  ASSUME OneWorker PROVE Spec => []StrikeJustified
<1>1. JustInv => StrikeJustified
  BY DEF JustInv
<1> QED
  BY <1>1, JustCorrect, PTL

-----------------------------------------------------------------------------
(* One process: the counter of a channel, which a tick reads before it       *)
(* awaits get_message and writes after it, is the number of violations.     *)

CountOK(w) ==
  /\ IsFiniteSet(newViolation[w])
  /\ \A ch \in Channels :
       /\ ChannelIn(w, ch).count = StrikesIn(w, ch)
       /\ pc[w] = "check" /\ ChannelOf[cur[w]] = ch
            => seen[w].channel.count = ChannelIn(w, ch).count
CountInv ==
  /\ CountMatchesViolations /\ IsFiniteSet(violation)
  /\ \A w \in Workers : CountOK(w)

LEMMA InitCount == Init => CountInv
<1> SUFFICES ASSUME Init PROVE CountInv
  OBVIOUS
<1>1. (\A ch \in Channels : Strikes(ch, {}) = EarlierStrikes[ch]) /\ IsFiniteSet({})
  BY NoStrikes, FS_EmptySet
<1>2. /\ violation = {} /\ violation \cup {} = {}
      /\ \A ch \in Channels : channel[ch].count = EarlierStrikes[ch]
      /\ \A w \in Workers : /\ newViolation[w] = {} /\ pc[w] = "idle"
                            /\ \A ch \in Channels : ChannelIn(w, ch) = channel[ch]
  BY DEF Init, ChannelIn, NoChannelRows
<1> QED
  BY <1>1, <1>2 DEF CountInv, CountOK, StrikesIn, CountMatchesViolations

\* One more deletion of a target nothing was recorded about is one more strike.
LEMMA OneMoreStrike ==
  ASSUME NEW ch \in Channels, NEW V, IsFiniteSet(V), NEW x, ChannelOf[x.target] = ch,
         \A y \in V : y.target # x.target
  PROVE  Strikes(ch, V \cup {x}) = Strikes(ch, V) + 1
<1> DEFINE A == {y \in V : ChannelOf[y.target] = ch}
<1>1. IsFiniteSet(A) /\ x \notin A
  BY FS_Subset
<1>2. {y \in V \cup {x} : ChannelOf[y.target] = ch} = A \cup {x}
  OBVIOUS
<1>3. Cardinality(A \cup {x}) = Cardinality(A) + 1 /\ Cardinality(A) \in Nat
  BY <1>1, FS_AddElement, FS_CardinalityType
<1>4. EarlierStrikes[ch] \in Nat
  BY NoStrikes
<1> QED
  BY <1>2, <1>3, <1>4 DEF Strikes

LEMMA PenaliseCount ==
  ASSUME OneWorker, TypeInv, IInv, WatchInv, AloneInv, JustInv, CountInv,
         NEW w \in Workers, Penalise(w)
  PROVE  CountInv'
<1> USE ModelAssumption
<1> PICK mine \in Channels : mine = ChannelOf[cur[w]]
  BY PenaliseWrites
<1>1. /\ UNCHANGED <<channel, violation>> /\ pc'[w] = "retention" /\ pc[w] = "check"
      /\ newChannel'[w][mine] = Punished(w)
      /\ \A ch \in Channels \ {mine} : newChannel'[w][ch] = newChannel[w][ch]
  BY DEF Penalise, Goto, TypeInv, TypeOK, db
<1> DEFINE x0 == [target |-> cur[w], by |-> w, copy |-> TargetIn(w, cur[w]).msg]
           V == violation \cup newViolation[w]
<1>2. newViolation'[w] = newViolation[w] \cup {x0} /\ violation' \cup newViolation'[w] = V \cup {x0}
  BY <1>1, PenaliseWrites DEF Recorded
<1>3. /\ IsFiniteSet(V) /\ IsFiniteSet(newViolation'[w])
      /\ \A y \in V : y.target # x0.target
  <2>1. IsFiniteSet(violation) /\ IsFiniteSet(newViolation[w])
    BY DEF CountInv, CountOK
  <2>2. IsFiniteSet(V)
    BY <2>1, FS_Union
  <2>3. IsFiniteSet(newViolation[w] \cup {x0})
    BY <2>1, FS_AddElement
  <2>4. \A y \in V : y.target # x0.target
    BY FirstViolation
  <2> QED
    BY <1>2, <2>2, <2>3, <2>4
<1>4. ChannelOf[x0.target] = mine
  OBVIOUS
<1>5. ChannelIn(w, mine)'.count = ChannelIn(w, mine).count + 1
  <2>1. ChannelIn(w, mine) \in ChannelRow
    BY ViewTypes DEF TypeInv
  <2>2. Punished(w).count = seen[w].channel.count + 1
    BY <2>1 DEF Punished, ChannelRow
  <2>3. Punished(w).status \in {ChannelIn(w, mine).status, "removed"}
    BY <2>1 DEF Punished, ChannelRow
  <2>4. Punished(w) # NoChannelRow
    BY <2>1, <2>3 DEF ChannelRow, ChannelStatus, NoChannelRow, NoWrite
  <2>5. ChannelIn(w, mine)' = Punished(w)
    BY <1>1, <2>4 DEF ChannelIn
  <2>6. seen[w].channel.count = ChannelIn(w, mine).count
    BY <1>1 DEF CountInv, CountOK
  <2> QED
    BY <2>2, <2>5, <2>6
<1>6. /\ \A ch \in Channels : StrikesIn(w, ch) = Strikes(ch, V)
      /\ \A ch \in Channels : StrikesIn(w, ch)' = Strikes(ch, V \cup {x0})
  BY <1>2 DEF StrikesIn
<1> HIDE DEF x0, V
<1>7. ASSUME NEW ch \in Channels PROVE ChannelIn(w, ch)'.count = StrikesIn(w, ch)'
  <2>1. CASE ch = mine
    <3>1. Strikes(mine, V \cup {x0}) = Strikes(mine, V) + 1
      BY <1>3, <1>4, <2>1, OneMoreStrike
    <3> QED
      BY <1>5, <1>6, <2>1, <3>1 DEF CountInv, CountOK
  <2>2. CASE ch # mine
    <3>1. {x \in V \cup {x0} : ChannelOf[x.target] = ch} = {x \in V : ChannelOf[x.target] = ch}
      BY <1>4, <2>2
    <3>2. StrikesIn(w, ch)' = StrikesIn(w, ch)
      BY <1>6, <3>1, SameStrikes
    <3>3. ChannelIn(w, ch)' = ChannelIn(w, ch)
      BY <1>1, <2>2 DEF ChannelIn
    <3> QED
      BY <3>2, <3>3 DEF CountInv, CountOK
  <2> QED
    BY <2>1, <2>2
<1>8. CountOK(w)'
  BY <1>1, <1>3, <1>7 DEF CountOK
<1> QED
  BY <1>1, <1>8, Alone DEF CountInv, CountMatchesViolations

LEMMA CountTick ==
  ASSUME OneWorker, TypeInv, IInv, WatchInv, AloneInv, JustInv, CountInv,
         NEW w \in Workers, Step(w)
  PROVE  CountInv'
<1>1. CASE KeepsStrikes(w)
  <2>1. /\ UNCHANGED <<channel, violation, newViolation>>
        /\ \A ch \in Channels : /\ ChannelIn(w, ch)' = ChannelIn(w, ch)
                                /\ pc'[w] = "check" /\ ChannelOf[cur'[w]] = ch
                                     => seen'[w].channel = ChannelIn(w, ch)
    BY <1>1 DEF KeepsStrikes
  <2>2. CountOK(w)'
    BY <2>1 DEF CountInv, CountOK, StrikesIn
  <2> QED
    BY <2>1, <2>2, Alone DEF CountInv, CountMatchesViolations
<1>2. CASE Commit(w)
  <2>1. /\ violation' = violation \cup newViolation[w] /\ newViolation'[w] = {}
        /\ pc'[w] = "idle"
        /\ \A ch \in Channels : channel'[ch] = ChannelIn(w, ch) /\ ChannelIn(w, ch)' = channel'[ch]
    BY <1>2 DEF Commit, Clear, Goto, NoChannelRows, ChannelIn, TypeInv, TypeOK
  <2>2. IsFiniteSet(violation') /\ IsFiniteSet(newViolation'[w])
    BY <2>1, FS_Union, FS_EmptySet DEF CountInv, CountOK
  <2>3. \A ch \in Channels : /\ channel'[ch].count = Strikes(ch, violation')
                             /\ StrikesIn(w, ch)' = Strikes(ch, violation')
    <3>1. violation' \cup newViolation'[w] = violation'
      BY <2>1
    <3> QED
      BY <2>1, <3>1 DEF CountInv, CountOK, StrikesIn
  <2>4. CountOK(w)'
    BY <2>1, <2>2, <2>3 DEF CountOK
  <2> QED
    BY <2>2, <2>3, <2>4, Alone DEF CountInv, CountMatchesViolations
<1> QED
  BY <1>1, <1>2, StrikeKinds, PenaliseCount

LEMMA AbortCount ==
  ASSUME OneWorker, TypeInv, CountInv, NEW w \in Workers, Abort(w)
  PROVE  CountInv'
<1>1. /\ UNCHANGED <<channel, violation>> /\ newViolation'[w] = {} /\ pc'[w] = "idle"
      /\ \A ch \in Channels : ChannelIn(w, ch)' = channel[ch]
  BY DEF Abort, Clear, Goto, NoChannelRows, ChannelIn, TypeInv, TypeOK, db
<1>2. violation' \cup newViolation'[w] = violation
  BY <1>1
<1>3. CountOK(w)'
  BY <1>1, <1>2, FS_EmptySet DEF CountOK, StrikesIn, CountInv, CountMatchesViolations
<1> QED
  BY <1>1, <1>3, Alone DEF CountInv, CountMatchesViolations

\* The owner's operations write the status of a channel only.
LEMMA OthersKeepCount ==
  ASSUME TypeInv, CountInv, Owner \/ OwnerCommit \/ World \/ UNCHANGED vars
  PROVE  CountInv'
<1>1. UNCHANGED <<violation, newViolation, newChannel, pc, cur, seen>>
  BY OthersLeave DEF session, new
<1>2. \A ch \in Channels : channel'[ch].count = channel[ch].count
  <2>1. CASE OwnerCommit
    <3>1. \A ch \in Channels : channel[ch] \in ChannelRow
      BY DEF TypeInv, TypeOK
    <3> QED
      BY <2>1, <3>1 DEF OwnerCommit, ChannelRow
  <2>2. CASE Owner \/ World \/ UNCHANGED vars
    BY <2>2 DEF Owner, CancelCampaign, ToggleCampaign, EmergencyStop, SuspendChannel,
       RemoveChannel, OwnerOp, World, ClockTick, DeletePost, AccountChange, vars, db
  <2> QED
    BY <2>1, <2>2
<1>3. ASSUME NEW w \in Workers, NEW ch \in Channels
      PROVE  StrikesIn(w, ch)' = StrikesIn(w, ch) /\ ChannelIn(w, ch)'.count = ChannelIn(w, ch).count
  BY <1>1, <1>2 DEF StrikesIn, ChannelIn
<1> QED
  BY <1>1, <1>2, <1>3 DEF CountInv, CountOK, CountMatchesViolations

LEMMA CountStep ==
  ASSUME OneWorker
  PROVE  TypeInv /\ IInv /\ WatchInv /\ AloneInv /\ JustInv /\ CountInv /\ [Next]_vars => CountInv'
<1> SUFFICES ASSUME TypeInv, IInv, WatchInv, AloneInv, JustInv, CountInv, [Next]_vars PROVE CountInv'
  OBVIOUS
<1>1. ASSUME NEW w \in Workers, Step(w) PROVE CountInv'
  BY <1>1, CountTick
<1>2. ASSUME NEW w \in Workers, Rollback(w) \/ DeadlockVictim(w) \/ QueryRefused(w) PROVE CountInv'
  BY <1>2, AbortCount DEF Rollback, DeadlockVictim, QueryRefused
<1> QED
  BY <1>1, <1>2, OthersKeepCount DEF Next

\* In one process: the counter of a channel is the number of violations recorded
\* against it, however many a tick records and whatever is rolled back.
THEOREM CountMatchesViolationsCorrect ==
  ASSUME OneWorker PROVE Spec => []CountMatchesViolations
<1>1. Init /\ [][Next]_vars => [](TypeInv /\ IInv /\ WatchInv /\ AloneInv /\ JustInv /\ CountInv)
  BY InitType, InitIInv, InitWatch, InitAlone, InitJust, InitCount, TypeStep, IInvStep, WatchStep,
     AloneStep, JustStep, CountStep, PTL
<1>2. CountInv => CountMatchesViolations
  BY DEF CountInv
<1> QED
  BY <1>1, <1>2, PTL DEF Spec

-----------------------------------------------------------------------------
(* One process: what a closed campaign is said to have come to.              *)

RetainedFor(w, c) == \E t \in TargetsOf(c) : TargetIn(w, t).status = "retained"
Verdicts(w, c) == {rows[w][c], dirty[w][c], newCampaign[w][c]} \cap Closing
VerdictInv ==
  /\ ClosedOutcome
  /\ \A w \in Workers : \A c \in Campaigns : \A x \in Verdicts(w, c) :
       x = "completed" <=> RetainedFor(w, c)

LEMMA InitVerdict == Init => VerdictInv
<1> SUFFICES ASSUME Init PROVE VerdictInv
  OBVIOUS
<1>1. \A w \in Workers : \A c \in Campaigns : Verdicts(w, c) = {}
  BY DEF Init, Verdicts, Closing, NoCampaignRows, NoWrite
<1>2. ClosedOutcome
  BY ModelAssumption DEF Init, ClosedOutcome, Live
<1> QED
  BY <1>1, <1>2 DEF VerdictInv

\* A verdict that is passed on means what it meant.
LEMMA VerdictMoves ==
  ASSUME OneWorker, VerdictInv, NEW w \in Workers, UNCHANGED <<target, campaign>>,
         \A t \in Targets : TargetIn(w, t)' = TargetIn(w, t),
         \A c \in Campaigns : Verdicts(w, c)' \subseteq Verdicts(w, c)
  PROVE  VerdictInv'
<1>1. \A c \in Campaigns : RetainedFor(w, c)' = RetainedFor(w, c)
  BY DEF RetainedFor, TargetsOf
<1>2. ClosedOutcome'
  BY DEF VerdictInv, ClosedOutcome
<1>3. \A c \in Campaigns : \A x \in Verdicts(w, c)' : x = "completed" <=> RetainedFor(w, c)'
  BY <1>1 DEF VerdictInv
<1> QED
  BY <1>2, <1>3, Alone DEF VerdictInv

LEMMA VerdictTick ==
  ASSUME OneWorker, TypeInv, IInv, WatchInv, ClosedInv, AloneInv, VerdictInv,
         NEW w \in Workers, Step(w)
  PROVE  VerdictInv'
<1>1. CASE UNCHANGED <<campaign, rows, dirty, newCampaign>> /\ pc[w] # "reconcile"
  <2>1. target' = target
    BY <1>1, StepKinds DEF Quiet, Writes, Forward, Commit, db
  <2>2. \A c \in Campaigns : Verdicts(w, c)' = {}
    BY <1>1 DEF ClosedInv, ToClose, Verdicts
  <2>3. ClosedOutcome'
    BY <1>1, <2>1 DEF VerdictInv, ClosedOutcome
  <2> QED
    BY <2>2, <2>3, Alone DEF VerdictInv
<1>2. CASE ReconcileBegin(w)
  <2>1. /\ pc[w] # "reconcile" /\ UNCHANGED <<target, campaign, newTarget, dirty, newCampaign>>
        /\ \A c \in Campaigns : rows'[w][c] \in {NoWrite, Verdict({TargetIn(w, t).status : t \in TargetsOf(c)})}
    BY <1>2 DEF ReconcileBegin, TypeInv, TypeOK, db, new
  <2>2. \A c \in Campaigns : RetainedFor(w, c)' = RetainedFor(w, c)
    BY <2>1 DEF RetainedFor, TargetsOf, TargetIn
  <2>3. ASSUME NEW c \in Campaigns, NEW x \in Verdicts(w, c)'
        PROVE  x = "completed" <=> RetainedFor(w, c)
    <3> DEFINE S == {TargetIn(w, t).status : t \in TargetsOf(c)}
    <3>1. {dirty[w][c], newCampaign[w][c]} \cap Closing = {}
      BY <2>1 DEF ClosedInv, ToClose
    <3>2. x \in Closing /\ x = Verdict(S)
      BY <2>1, <2>3, <3>1 DEF Verdicts, Closing, NoWrite
    <3>3. "retained" \in S <=> RetainedFor(w, c)
      BY DEF RetainedFor
    <3> HIDE DEF S
    <3>4. Verdict(S) = "completed" <=> "retained" \in S
      BY <3>2, VerdictCloses
    <3> QED
      BY <3>2, <3>3, <3>4
  <2>4. ClosedOutcome'
    BY <2>1 DEF VerdictInv, ClosedOutcome
  <2> QED
    BY <2>2, <2>3, <2>4, Alone DEF VerdictInv
<1>3. CASE Reconcile(w)
  <2>1. UNCHANGED <<target, newTarget, campaign>>
    BY <1>3 DEF Reconcile, db
  <2>2. PICK d \in Campaigns :
          /\ rows' = [rows EXCEPT ![w][d] = NoWrite]
          /\ newCampaign' = [newCampaign EXCEPT ![w] = Flushed(w)]
          /\ dirty' = [dirty EXCEPT ![w] = [NoCampaignRows EXCEPT ![d] =
               IF CampaignIn(w, d) = rows[w][d] THEN NoWrite ELSE rows[w][d]]]
    BY <1>3 DEF Reconcile
  <2>3. ASSUME NEW c \in Campaigns
        PROVE  /\ rows'[w][c] \in {rows[w][c], NoWrite}
               /\ newCampaign'[w][c] \in {dirty[w][c], newCampaign[w][c]}
               /\ dirty'[w][c] \in {rows[w][c], NoWrite}
    BY <2>2 DEF TypeInv, TypeOK, CampaignWrites, Flushed, NoCampaignRows
  <2>4. \A c \in Campaigns : Verdicts(w, c)' \subseteq Verdicts(w, c)
    BY <2>3 DEF Verdicts, Closing, NoWrite
  <2>5. \A t \in Targets : TargetIn(w, t)' = TargetIn(w, t)
    BY <2>1 DEF TargetIn
  <2> QED
    BY <2>1, <2>4, <2>5, VerdictMoves
<1>4. CASE Commit(w)
  <2>1. /\ rows' = rows
        /\ \A t \in Targets : target'[t] = TargetIn(w, t)
        /\ \A c \in Campaigns : /\ campaign'[c] \in {dirty[w][c], newCampaign[w][c], campaign[c]}
                                /\ rows[w][c] = NoWrite
                                /\ dirty'[w][c] = NoWrite /\ newCampaign'[w][c] = NoWrite
    BY <1>4 DEF Commit, Clear, Flushed, NoCampaignRows, TypeInv, TypeOK
  <2>2. \A c \in Campaigns : Verdicts(w, c)' = {}
    BY <2>1 DEF Verdicts, Closing, NoWrite
  <2>3. ASSUME NEW c \in Campaigns, campaign'[c] \in Closing
        PROVE  campaign'[c] = "completed" <=> \E t \in TargetsOf(c) : target'[t].status = "retained"
    <3>1. CASE campaign'[c] \in Verdicts(w, c)
      BY <2>1, <3>1 DEF VerdictInv, RetainedFor, TargetsOf
    <3>2. CASE campaign'[c] = campaign[c]
      <4>1. ASSUME NEW t \in TargetsOf(c) PROVE target'[t] = target[t]
        <5>1. t \in Targets /\ target[t].status \in Settled
          BY <2>3, <3>2 DEF ClosedInv, ClosedIsSettled, Closing, TargetsOf
        <5>2. ~Written(w, t)
          BY <5>1 DEF AloneInv, Settled
        <5> QED
          BY <2>1, <5>1, <5>2 DEF TargetIn, Written
      <4> QED
        BY <2>3, <3>2, <4>1 DEF VerdictInv, ClosedOutcome, Closing
    <3> QED
      BY <2>1, <2>3, <3>1, <3>2 DEF Verdicts
  <2>4. ClosedOutcome'
    BY <2>3 DEF ClosedOutcome, Closing, TargetsOf
  <2> QED
    BY <2>2, <2>4, Alone DEF VerdictInv
<1> QED
  BY <1>1, <1>2, <1>3, <1>4, CampaignKinds

LEMMA AbortVerdict ==
  ASSUME OneWorker, TypeInv, VerdictInv, NEW w \in Workers, Abort(w)
  PROVE  VerdictInv'
<1>1. /\ UNCHANGED <<target, campaign>>
      /\ \A c \in Campaigns : /\ rows'[w][c] = NoWrite
                              /\ dirty'[w][c] = NoWrite /\ newCampaign'[w][c] = NoWrite
  BY DEF Abort, Clear, NoCampaignRows, TypeInv, TypeOK, db
<1>2. \A c \in Campaigns : Verdicts(w, c)' = {}
  BY <1>1 DEF Verdicts, Closing, NoWrite
<1>3. ClosedOutcome'
  BY <1>1 DEF VerdictInv, ClosedOutcome
<1> QED
  BY <1>2, <1>3, Alone DEF VerdictInv

LEMMA OthersKeepVerdict ==
  ASSUME TypeInv, OwnerOK, VerdictInv, Owner \/ OwnerCommit \/ World \/ UNCHANGED vars
  PROVE  VerdictInv'
<1>1. UNCHANGED <<target, newTarget, rows, dirty, newCampaign>>
  BY OthersLeave DEF session, new
<1>2. \A c \in Campaigns : campaign'[c] \in Closing => campaign'[c] = campaign[c]
  BY OwnerWrites
<1>3. ClosedOutcome'
  BY <1>1, <1>2 DEF VerdictInv, ClosedOutcome, Closing
<1>4. \A w \in Workers : \A c \in Campaigns :
        Verdicts(w, c)' = Verdicts(w, c) /\ RetainedFor(w, c)' = RetainedFor(w, c)
  BY <1>1 DEF Verdicts, RetainedFor, TargetIn, TargetsOf
<1> QED
  BY <1>3, <1>4 DEF VerdictInv

LEMMA VerdictStep ==
  ASSUME OneWorker
  PROVE  TypeInv /\ IInv /\ WatchInv /\ ClosedInv /\ AloneInv /\ VerdictInv /\ [Next]_vars => VerdictInv'
<1> SUFFICES ASSUME TypeInv, IInv, WatchInv, ClosedInv, AloneInv, VerdictInv, [Next]_vars
             PROVE  VerdictInv'
  OBVIOUS
<1>1. ASSUME NEW w \in Workers, Step(w) PROVE VerdictInv'
  BY <1>1, VerdictTick
<1>2. ASSUME NEW w \in Workers, Rollback(w) \/ DeadlockVictim(w) \/ QueryRefused(w) PROVE VerdictInv'
  BY <1>2, AbortVerdict DEF Rollback, DeadlockVictim, QueryRefused
<1> QED
  BY <1>1, <1>2, OthersKeepVerdict DEF Next, ClosedInv

\* In one process: a campaign that the reconciliation closed is "completed" when
\* one of its targets was retained, and only then, and it stays true.
THEOREM ClosedOutcomeCorrect ==
  ASSUME OneWorker PROVE Spec => []ClosedOutcome
<1>1. Init /\ [][Next]_vars
        => [](TypeInv /\ IInv /\ WatchInv /\ ClosedInv /\ AloneInv /\ VerdictInv)
  BY InitType, InitIInv, InitWatch, InitClosed, InitAlone, InitVerdict, TypeStep, IInvStep, WatchStep,
     ClosedStep, AloneStep, VerdictStep, PTL
<1>2. VerdictInv => ClosedOutcome
  BY DEF VerdictInv
<1> QED
  BY <1>1, <1>2, PTL DEF Spec

=============================================================================
