------------------------- MODULE PublicationProofs -------------------------
(***************************************************************************)
(* Proofs about Publication, for any number of workers, targets, rollbacks *)
(* and owner operations.                                                   *)
(***************************************************************************)
EXTENDS Publication, TLAPS

\* A stage that works on a target has one in hand.
HandOK ==
  \A w \in Workers :
    pc[w] \in {"claim", "channel", "forward", "record", "check"} => cur[w] \in Targets

TypeInv == TypeOK /\ HandOK

-----------------------------------------------------------------------------
(* What the operators of the model return.                                 *)

\* A transaction sees a row of the right type.
LEMMA ViewTypes ==
  ASSUME TypeOK, NEW w \in Workers
  PROVE  /\ \A t \in Targets : TargetIn(w, t) \in TargetRow
         /\ \A ch \in Channels : ChannelIn(w, ch) \in ChannelRow
         /\ \A c \in Campaigns : CampaignIn(w, c) \in CampaignStatus
<1>1. ASSUME NEW t \in Targets PROVE TargetIn(w, t) \in TargetRow
  BY DEF TypeOK, outside, TargetIn
<1>2. ASSUME NEW ch \in Channels PROVE ChannelIn(w, ch) \in ChannelRow
  BY DEF TypeOK, outside, ChannelIn
<1>3. ASSUME NEW c \in Campaigns PROVE CampaignIn(w, c) \in CampaignStatus
  BY DEF TypeOK, outside, CampaignIn, CampaignWrites
<1> QED BY <1>1, <1>2, <1>3

\* The empty write buffers have their types.
LEMMA NoWritesType ==
  /\ NoTargetRows \in [Targets -> TargetRow \cup {NoTargetRow}]
  /\ NoChannelRows \in [Channels -> ChannelRow \cup {NoChannelRow}]
  /\ NoCampaignRows \in CampaignWrites
  /\ NoOwnerWrites \in [campaign : CampaignWrites,
                        channel : [Channels -> ChannelStatus \cup {NoWrite}]]
BY DEF NoTargetRows, NoChannelRows, NoCampaignRows, NoOwnerWrites, CampaignWrites

\* Reconciliation sets a campaign to a status, or leaves it alone.
LEMMA VerdictType == \A S : Verdict(S) \in CampaignStatus \cup {NoWrite}
BY DEF Verdict, CampaignStatus

\* A failed row is a row.
LEMMA FailedType ==
  ASSUME TypeInv, NEW w \in Workers, cur[w] \in Targets PROVE Failed(w) \in TargetRow
<1>1. TargetIn(w, cur[w]) \in TargetRow BY ViewTypes DEF TypeInv
<1> QED BY <1>1 DEF Failed, TargetRow, TargetStatus

\* Writing a row keeps the types of the write buffers.
LEMMA WriteType ==
  ASSUME TypeInv, NEW w \in Workers, cur[w] \in Targets, NEW row \in TargetRow, Write(w, row)
  PROVE  /\ newTarget' \in [Workers -> [Targets -> TargetRow \cup {NoTargetRow}]]
         /\ UNCHANGED <<newChannel, newCampaign, newViolation, dirty>>
BY DEF TypeInv, TypeOK, outside, Write

\* Clearing them, too.
LEMMA ClearType ==
  ASSUME TypeInv, NEW w \in Workers, Clear(w)
  PROVE  /\ newTarget' \in [Workers -> [Targets -> TargetRow \cup {NoTargetRow}]]
         /\ newChannel' \in [Workers -> [Channels -> ChannelRow \cup {NoChannelRow}]]
         /\ newCampaign' \in [Workers -> CampaignWrites]
         /\ newViolation' \in [Workers -> SUBSET Violation]
         /\ dirty' \in [Workers -> CampaignWrites]
BY NoWritesType DEF TypeInv, TypeOK, outside, Clear

LEMMA FlushedType ==
  ASSUME TypeInv, NEW w \in Workers PROVE Flushed(w) \in CampaignWrites
BY DEF TypeInv, TypeOK, outside, Flushed, CampaignWrites

-----------------------------------------------------------------------------
(* The initial states, and every step, have the types.                      *)

LEMMA InitType == Init => TypeInv
<1> SUFFICES ASSUME Init PROVE TypeInv OBVIOUS
<1> USE ModelAssumption
<1>1. channel \in [Channels -> ChannelRow]
  BY DEF Init, ChannelRow, ChannelStatus
<1>2. campaign \in [Campaigns -> CampaignStatus] /\ castable \in BOOLEAN
  BY DEF Init, Live, CampaignStatus
<1>3. target \in [Targets -> TargetRow] /\ now \in Time
  BY DEF Init, TargetRow, TargetStatus, Time
<1>4. TypeOK
  BY <1>1, <1>2, <1>3, NoWritesType DEF Init, TypeOK, Stage, Unseen
<1>5. HandOK BY DEF Init, HandOK
<1> QED BY <1>4, <1>5 DEF TypeInv

LEMMA TypeTickBegin ==
  ASSUME TypeInv, NEW w \in Workers, TickBegin(w) PROVE TypeInv'
<1>1. First({t \in Targets : Due(t)}, PlannedAt, PublishLimit) \subseteq Targets
  BY DEF First
<1>2. TypeOK'
  BY <1>1 DEF TickBegin, TypeInv, TypeOK, outside, Goto, Stage, db, rubika, new, owner, history
<1>3. HandOK'
  BY DEF TickBegin, TypeInv, HandOK, TypeOK, outside, Goto
<1> QED BY <1>2, <1>3 DEF TypeInv

LEMMA TypePickTarget ==
  ASSUME TypeInv, NEW w \in Workers, PickTarget(w) PROVE TypeInv'
<1>1. PICK t \in todo[w] :
        \/ Take(w, t) /\ Goto(w, "claim") /\ UNCHANGED <<got, seen, new, rows>>
        \/ Skip(w, t)
  BY DEF PickTarget
<1>2. t \in Targets BY <1>1 DEF TypeInv, TypeOK, outside
<1>3. UNCHANGED <<now, db, outside, rubika, owner, history, got, seen, new, rows>>
  BY <1>1 DEF PickTarget, Skip
<1>4. CASE Take(w, t) /\ Goto(w, "claim")
  <2>1. pc' \in [Workers -> Stage] /\ todo' \in [Workers -> SUBSET Targets]
          /\ cur' \in [Workers -> Targets \cup {NoTarget}]
    BY <1>2, <1>4 DEF Take, Goto, TypeInv, TypeOK, outside, Stage
  <2>2. TypeOK'
    BY <1>3, <2>1 DEF TypeInv, TypeOK, outside, db, rubika, new, owner, history
  <2>3. HandOK' BY <1>2, <1>4 DEF Take, Goto, TypeInv, HandOK, TypeOK, outside
  <2> QED BY <2>2, <2>3 DEF TypeInv
<1>5. CASE Skip(w, t)
  <2>1. pc' = pc /\ cur' = cur /\ todo' \in [Workers -> SUBSET Targets]
    BY <1>5 DEF Skip, TypeInv, TypeOK, outside
  <2>2. TypeOK'
    BY <1>3, <2>1 DEF TypeInv, TypeOK, outside, db, rubika, new, owner, history
  <2>3. HandOK' BY <2>1 DEF TypeInv, HandOK
  <2> QED BY <2>2, <2>3 DEF TypeInv
<1> QED BY <1>1, <1>4, <1>5

LEMMA TypeClaim ==
  ASSUME TypeInv, NEW w \in Workers, Claim(w) PROVE TypeInv'
<1>1. cur[w] \in Targets BY DEF Claim, TypeInv, HandOK
<1>2. TargetIn(w, cur[w]) \in TargetRow BY <1>1, ViewTypes DEF TypeInv
<1>3. [TargetIn(w, cur[w]) EXCEPT !.status = "running"] \in TargetRow
  BY <1>2 DEF TargetRow, TargetStatus
<1>4. /\ newTarget' \in [Workers -> [Targets -> TargetRow \cup {NoTargetRow}]]
      /\ UNCHANGED <<newChannel, newCampaign, newViolation, dirty>>
  BY <1>1, <1>3, WriteType DEF Claim
<1>5. TypeOK'
  BY <1>4 DEF Claim, TypeInv, TypeOK, outside, Goto, Stage, db, rubika, owner, history
<1>6. HandOK' BY <1>1 DEF Claim, TypeInv, HandOK, TypeOK, outside, Goto
<1> QED BY <1>5, <1>6 DEF TypeInv

LEMMA TypeClaimLost ==
  ASSUME TypeInv, NEW w \in Workers, ClaimLost(w) PROVE TypeInv'
<1>1. TypeOK'
  BY DEF ClaimLost, PutDown, TypeInv, TypeOK, outside, Goto, Stage, db, rubika, new, owner, history
<1>2. HandOK' BY DEF ClaimLost, PutDown, TypeInv, HandOK, TypeOK, outside, Goto
<1> QED BY <1>1, <1>2 DEF TypeInv

LEMMA TypeCheckChannel ==
  ASSUME TypeInv, NEW w \in Workers, CheckChannel(w) PROVE TypeInv'
<1>1. cur[w] \in Targets BY DEF CheckChannel, TypeInv, HandOK
<1>2. /\ newTarget' \in [Workers -> [Targets -> TargetRow \cup {NoTargetRow}]]
      /\ UNCHANGED <<newChannel, newCampaign, newViolation, dirty>>
  <2>1. CASE ChannelIn(w, ChannelOf[cur[w]]).status = "active"
    BY <2>1 DEF CheckChannel, TypeInv, TypeOK, outside, new
  <2>2. CASE ChannelIn(w, ChannelOf[cur[w]]).status # "active"
    BY <2>2, <1>1, FailedType, WriteType DEF CheckChannel
  <2> QED BY <2>1, <2>2
<1>3. /\ pc' \in [Workers -> Stage] /\ cur' \in [Workers -> Targets \cup {NoTarget}]
      /\ HandOK'
  <2>1. CASE Goto(w, "forward") /\ UNCHANGED cur
    BY <1>1, <2>1 DEF TypeInv, HandOK, TypeOK, outside, Goto, Stage
  <2>2. CASE Goto(w, "publish") /\ PutDown(w)
    BY <2>2 DEF PutDown, TypeInv, HandOK, TypeOK, outside, Goto, Stage
  <2> QED BY <2>1, <2>2 DEF CheckChannel
<1>4. TypeOK'
  BY <1>2, <1>3 DEF CheckChannel, TypeInv, TypeOK, outside, db, rubika, owner, history
<1> QED BY <1>3, <1>4 DEF TypeInv

LEMMA TypeForward ==
  ASSUME TypeInv, NEW w \in Workers, Forward(w) PROVE TypeInv'
<1>1. cur[w] \in Targets BY DEF Forward, TypeInv, HandOK
<1>2. posted' \in [Targets -> Nat] /\ got' \in [Workers -> Nat]
        /\ sent' \in [Workers -> SUBSET Targets]
  <2>0. posted \in [Targets -> Nat] /\ got \in [Workers -> Nat]
          /\ sent \in [Workers -> SUBSET Targets]
    BY DEF TypeInv, TypeOK, outside
  <2>1. CASE \E id \in AnswerIds(cur[w]) : got' = [got EXCEPT ![w] = id]
    <3>1. AnswerIds(cur[w]) \subseteq Nat BY <1>1, <2>0 DEF AnswerIds
    <3>2. got' \in [Workers -> Nat] BY <2>0, <2>1, <3>1
    <3>3. posted' \in [Targets -> Nat] /\ sent' \in [Workers -> SUBSET Targets]
      BY <1>1, <2>0 DEF Forward
    <3> QED BY <3>2, <3>3
  <2>2. CASE got' = [got EXCEPT ![w] = 0] /\ UNCHANGED <<posted, sent>>
    BY <2>0, <2>2
  <2> QED BY <2>1, <2>2 DEF Forward
<1>3. TypeOK'
  BY <1>2 DEF Forward, TypeInv, TypeOK, outside, Goto, Stage, db, new, owner
<1>4. HandOK' BY <1>1 DEF Forward, TypeInv, HandOK, TypeOK, outside, Goto
<1> QED BY <1>3, <1>4 DEF TypeInv

LEMMA TypeRecord ==
  ASSUME TypeInv, NEW w \in Workers, Record(w) PROVE TypeInv'
<1> USE ModelAssumption
<1>1. cur[w] \in Targets BY DEF Record, TypeInv, HandOK
<1>2. Outcome(w) \in TargetRow
  <2>1. now \in Time /\ got[w] \in Nat BY DEF TypeInv, TypeOK, outside
  <2> QED BY <2>1, <1>1, FailedType DEF Outcome, TargetRow, TargetStatus
<1>3. ChannelOf[cur[w]] \in Channels BY <1>1
<1>4. ChannelIn(w, ChannelOf[cur[w]]) \in ChannelRow BY <1>3, ViewTypes DEF TypeInv
<1>5. newTarget' \in [Workers -> [Targets -> TargetRow \cup {NoTargetRow}]]
  BY <1>1, <1>2 DEF Record, TypeInv, TypeOK, outside
<1>6. newChannel' \in [Workers -> [Channels -> ChannelRow \cup {NoChannelRow}]]
  BY <1>3, <1>4 DEF Record, TypeInv, TypeOK, outside
<1>7. TypeOK'
  BY <1>5, <1>6 DEF Record, PutDown, TypeInv, TypeOK, outside, Goto, Stage, db, rubika, owner, history
<1>8. HandOK' BY DEF Record, PutDown, TypeInv, HandOK, TypeOK, outside, Goto
<1> QED BY <1>7, <1>8 DEF TypeInv

LEMMA TypeRetentionBegin ==
  ASSUME TypeInv, NEW w \in Workers, RetentionBegin(w) PROVE TypeInv'
<1>1. First(Watched(w), PublishedAt(w), RetentionLimit) \subseteq Targets
  BY DEF First, Watched
<1>2. TypeOK'
  BY <1>1 DEF RetentionBegin, TypeInv, TypeOK, outside, Goto, Stage, db, rubika, new, owner, history
<1>3. HandOK'
  BY DEF RetentionBegin, TypeInv, HandOK, TypeOK, outside, Goto
<1> QED BY <1>2, <1>3 DEF TypeInv

LEMMA TypePickPublished ==
  ASSUME TypeInv, NEW w \in Workers, PickPublished(w) PROVE TypeInv'
<1> USE ModelAssumption
<1>1. PICK t \in todo[w] :
        \/ /\ Take(w, t) /\ Goto(w, "check")
           /\ seen' = [seen EXCEPT ![w] =
                [channel |-> ChannelIn(w, ChannelOf[t]),
                 expired |-> now >= TargetIn(w, t).at + Retention[CampaignOf[t]]]]
           /\ UNCHANGED <<got, new, rows>>
        \/ Skip(w, t)
  BY DEF PickPublished
<1>2. t \in Targets BY <1>1 DEF TypeInv, TypeOK, outside
<1>3. UNCHANGED <<now, db, outside, rubika, owner, history, got, new, rows>>
  BY <1>1 DEF PickPublished, Skip
<1>4. CASE /\ Take(w, t) /\ Goto(w, "check")
           /\ seen' = [seen EXCEPT ![w] =
                [channel |-> ChannelIn(w, ChannelOf[t]),
                 expired |-> now >= TargetIn(w, t).at + Retention[CampaignOf[t]]]]
  <2>1. pc' \in [Workers -> Stage] /\ todo' \in [Workers -> SUBSET Targets]
          /\ cur' \in [Workers -> Targets \cup {NoTarget}]
    BY <1>2, <1>4 DEF Take, Goto, TypeInv, TypeOK, outside, Stage
  <2>2. ChannelIn(w, ChannelOf[t]) \in ChannelRow BY <1>2, ViewTypes DEF TypeInv
  <2>3. (now >= TargetIn(w, t).at + Retention[CampaignOf[t]]) \in BOOLEAN OBVIOUS
  <2>4. seen' \in [Workers -> [channel : ChannelRow \cup {NoChannelRow}, expired : BOOLEAN]]
    BY <1>4, <2>2, <2>3 DEF TypeInv, TypeOK, outside
  <2>5. TypeOK'
    BY <1>3, <2>1, <2>4 DEF TypeInv, TypeOK, outside, db, rubika, new, owner, history
  <2>6. HandOK' BY <1>2, <1>4 DEF Take, Goto, TypeInv, HandOK, TypeOK, outside
  <2> QED BY <2>5, <2>6 DEF TypeInv
<1>5. CASE Skip(w, t)
  <2>1. pc' = pc /\ cur' = cur /\ seen' = seen /\ todo' \in [Workers -> SUBSET Targets]
    BY <1>5 DEF Skip, TypeInv, TypeOK, outside
  <2>2. TypeOK'
    BY <1>3, <2>1 DEF TypeInv, TypeOK, outside, db, rubika, new, owner, history
  <2>3. HandOK' BY <2>1 DEF TypeInv, HandOK
  <2> QED BY <2>2, <2>3 DEF TypeInv
<1> QED BY <1>1, <1>4, <1>5

\* The types of what a step that puts its target down changes.
PutDownTyped ==
  /\ pc' \in [Workers -> Stage] /\ cur' \in [Workers -> Targets \cup {NoTarget}]
  /\ seen' \in [Workers -> [channel : ChannelRow \cup {NoChannelRow}, expired : BOOLEAN]]
  /\ HandOK'

\* A check that ends, and a tick that is rolled back, put their target down
\* and forget what they had read.
LEMMA CheckEnds ==
  ASSUME TypeInv, NEW w \in Workers, NEW p \in {"idle", "retention"},
         Goto(w, p), PutDown(w), Forget(w)
  PROVE  PutDownTyped
<1>1. Unseen \in [channel : ChannelRow \cup {NoChannelRow}, expired : BOOLEAN]
  BY DEF Unseen
<1>2. pc' \in [Workers -> Stage] /\ cur' \in [Workers -> Targets \cup {NoTarget}] /\ HandOK'
  BY DEF Goto, PutDown, TypeInv, TypeOK, outside, HandOK, Stage
<1>3. seen' \in [Workers -> [channel : ChannelRow \cup {NoChannelRow}, expired : BOOLEAN]]
  BY <1>1 DEF Forget, TypeInv, TypeOK, outside
<1> QED BY <1>2, <1>3 DEF PutDownTyped

LEMMA TypeCheckQuiet ==
  ASSUME TypeInv, NEW w \in Workers, CheckQuiet(w) PROVE TypeInv'
<1>1. PutDownTyped BY CheckEnds DEF CheckQuiet
<1>2. TypeOK'
  BY <1>1 DEF PutDownTyped, CheckQuiet, TypeInv, TypeOK, outside, db, rubika, new, owner, history
<1> QED BY <1>1, <1>2 DEF TypeInv, PutDownTyped

LEMMA TypeRetain ==
  ASSUME TypeInv, NEW w \in Workers, Retain(w) PROVE TypeInv'
<1>1. PutDownTyped BY CheckEnds DEF Retain
<1>2. cur[w] \in Targets BY DEF Retain, TypeInv, HandOK
<1>3. [TargetIn(w, cur[w]) EXCEPT !.status = "retained"] \in TargetRow
  <2>1. TargetIn(w, cur[w]) \in TargetRow BY <1>2, ViewTypes DEF TypeInv
  <2> QED BY <2>1 DEF TargetRow, TargetStatus
<1>4. /\ newTarget' \in [Workers -> [Targets -> TargetRow \cup {NoTargetRow}]]
      /\ UNCHANGED <<newChannel, newCampaign, newViolation, dirty>>
  BY <1>2, <1>3, WriteType DEF Retain
<1>5. TypeOK'
  BY <1>1, <1>4 DEF PutDownTyped, Retain, TypeInv, TypeOK, outside, db, rubika, owner, history
<1> QED BY <1>1, <1>5 DEF TypeInv, PutDownTyped

LEMMA TypePenalise ==
  ASSUME TypeInv, NEW w \in Workers, Penalise(w) PROVE TypeInv'
<1> USE ModelAssumption
<1>1. PutDownTyped BY CheckEnds DEF Penalise
<1>2. cur[w] \in Targets BY DEF Penalise, TypeInv, HandOK
<1>3. newTarget' \in [Workers -> [Targets -> TargetRow \cup {NoTargetRow}]]
  BY <1>2, FailedType DEF Penalise, TypeInv, TypeOK, outside
<1>4. newViolation' \in [Workers -> SUBSET Violation]
  <2>1. TargetIn(w, cur[w]).msg \in Nat BY <1>2, ViewTypes DEF TypeInv, TargetRow
  <2>2. Recorded(w) \in SUBSET Violation
    BY <1>2, <2>1 DEF Recorded, Violation, TypeInv, TypeOK, outside
  <2> QED BY <2>2 DEF Penalise, TypeInv, TypeOK, outside
<1>5. newChannel' \in [Workers -> [Channels -> ChannelRow \cup {NoChannelRow}]]
  <2> DEFINE ch == ChannelOf[cur[w]]
             counted == [ChannelIn(w, ch) EXCEPT !.count = seen[w].channel.count + 1]
  <2>1. ch \in Channels BY <1>2
  <2>2. ChannelIn(w, ch) \in ChannelRow BY <2>1, ViewTypes DEF TypeInv
  <2>3. seen[w].channel.count \in Nat
    <3>1. seen[w].channel \in ChannelRow \cup {NoChannelRow} BY DEF TypeInv, TypeOK, outside
    <3> QED BY <3>1 DEF ChannelRow, NoChannelRow
  <2>4. counted \in ChannelRow BY <2>2, <2>3 DEF ChannelRow
  <2>5. Punished(w) \in ChannelRow
    BY <2>4 DEF Punished, ChannelRow, ChannelStatus
  <2> QED BY <2>1, <2>5 DEF Penalise, TypeInv, TypeOK, outside
<1>6. TypeOK'
  BY <1>1, <1>3, <1>4, <1>5
     DEF PutDownTyped, Penalise, TypeInv, TypeOK, outside, db, rubika, owner, history
<1> QED BY <1>1, <1>6 DEF TypeInv, PutDownTyped

LEMMA TypeReconcileBegin ==
  ASSUME TypeInv, NEW w \in Workers, ReconcileBegin(w) PROVE TypeInv'
<1>1. rows' \in [Workers -> CampaignWrites]
  BY VerdictType DEF ReconcileBegin, CampaignWrites, TypeInv, TypeOK, outside
<1>2. TypeOK'
  BY <1>1 DEF ReconcileBegin, TypeInv, TypeOK, outside, Goto, Stage, db, rubika, new, owner, history
<1>3. HandOK'
  BY DEF ReconcileBegin, TypeInv, HandOK, TypeOK, outside, Goto
<1> QED BY <1>2, <1>3 DEF TypeInv

LEMMA TypeReconcile ==
  ASSUME TypeInv, NEW w \in Workers, Reconcile(w) PROVE TypeInv'
<1>1. PICK c \in Campaigns :
        /\ rows' = [rows EXCEPT ![w][c] = NoWrite]
        /\ newCampaign' = [newCampaign EXCEPT ![w] = Flushed(w)]
        /\ dirty' = [dirty EXCEPT ![w] = [NoCampaignRows EXCEPT ![c] =
             IF CampaignIn(w, c) = rows[w][c] THEN NoWrite ELSE rows[w][c]]]
  BY DEF Reconcile
<1>2. rows' \in [Workers -> CampaignWrites] /\ newCampaign' \in [Workers -> CampaignWrites]
  BY <1>1, FlushedType DEF TypeInv, TypeOK, outside, CampaignWrites
<1>3. dirty' \in [Workers -> CampaignWrites]
  <2>1. rows[w][c] \in CampaignStatus \cup {NoWrite} BY DEF TypeInv, TypeOK, outside, CampaignWrites
  <2> QED BY <1>1, <2>1, NoWritesType DEF TypeInv, TypeOK, outside, CampaignWrites
<1>4. TypeOK'
  BY <1>2, <1>3 DEF Reconcile, TypeInv, TypeOK, outside, db, rubika, owner, history
<1>5. HandOK' BY DEF Reconcile, TypeInv, HandOK
<1> QED BY <1>4, <1>5 DEF TypeInv

LEMMA TypeCommit ==
  ASSUME TypeInv, NEW w \in Workers, Commit(w) PROVE TypeInv'
<1>1. target' \in [Targets -> TargetRow] /\ channel' \in [Channels -> ChannelRow]
  BY ViewTypes DEF Commit, TypeInv
<1>2. campaign' \in [Campaigns -> CampaignStatus]
  BY FlushedType DEF Commit, CampaignWrites, TypeInv, TypeOK, outside
<1>3. violation' \subseteq Violation
  BY DEF Commit, TypeInv, TypeOK, outside
<1>4. pc' \in [Workers -> Stage] /\ HandOK'
  BY DEF Commit, Goto, Stage, HandOK, TypeInv, TypeOK, outside
<1>5. sent' \in [Workers -> SUBSET Targets] BY DEF Commit, TypeInv, TypeOK, outside
<1>6. TypeOK'
  BY <1>1, <1>2, <1>3, <1>4, <1>5, ClearType DEF Commit, TypeInv, TypeOK, outside, rubika, owner
<1> QED BY <1>4, <1>6 DEF TypeInv

LEMMA TypeAbort ==
  ASSUME TypeInv, NEW w \in Workers, Abort(w), rollbacks' \in Nat PROVE TypeInv'
<1>1. PutDownTyped BY CheckEnds DEF Abort
<1>2. rows' \in [Workers -> CampaignWrites]
  BY NoWritesType DEF Abort, TypeInv, TypeOK, outside
<1>3. /\ todo' \in [Workers -> SUBSET Targets] /\ got' \in [Workers -> Nat]
      /\ sent' \in [Workers -> SUBSET Targets] /\ lost' \in [Targets -> Nat]
  BY DEF Abort, TypeInv, TypeOK, outside
<1>4. TypeOK'
  BY <1>1, <1>2, <1>3, ClearType DEF PutDownTyped, Abort, TypeInv, TypeOK, outside, db, rubika, owner
<1> QED BY <1>1, <1>4 DEF TypeInv, PutDownTyped

\* The owner's operations touch the owner's transaction only.
LEMMA TypeOwnerOp ==
  ASSUME TypeInv, NEW C \in CampaignWrites,
         NEW H \in [Channels -> ChannelStatus \cup {NoWrite}], OwnerOp(C, H)
  PROVE  TypeInv'
<1>1. TypeOK'
  BY DEF OwnerOp, TypeInv, TypeOK, outside, db, rubika, session, new, history
<1>2. HandOK' BY DEF OwnerOp, TypeInv, HandOK, session
<1> QED BY <1>1, <1>2 DEF TypeInv

LEMMA TypeOwner ==
  ASSUME TypeInv, Owner PROVE TypeInv'
<1>1. /\ NoCampaignRows \in CampaignWrites
      /\ NoOwnerWrites.campaign = NoCampaignRows
      /\ NoOwnerWrites.channel \in [Channels -> ChannelStatus \cup {NoWrite}]
  BY NoWritesType DEF NoOwnerWrites
<1>2. ASSUME NEW c \in Campaigns, CancelCampaign(c) PROVE TypeInv'
  <2>1. [NoOwnerWrites.campaign EXCEPT ![c] = Changed(campaign[c], "cancelled")]
          \in CampaignWrites
    BY <1>1 DEF CampaignWrites, Changed, CampaignStatus
  <2> QED BY <1>1, <1>2, <2>1, TypeOwnerOp DEF CancelCampaign
<1>3. ASSUME NEW c \in Campaigns, ToggleCampaign(c) PROVE TypeInv'
  <2>1. [NoOwnerWrites.campaign EXCEPT ![c] = IF campaign[c] \in Live THEN "paused" ELSE "active"]
          \in CampaignWrites
    BY <1>1 DEF CampaignWrites, CampaignStatus
  <2> QED BY <1>1, <1>3, <2>1, TypeOwnerOp DEF ToggleCampaign
<1>4. ASSUME EmergencyStop PROVE TypeInv'
  <2>1. [c \in Campaigns |-> IF campaign[c] \in Live THEN "paused" ELSE NoWrite]
          \in CampaignWrites
    BY DEF CampaignWrites, CampaignStatus
  <2> QED BY <1>1, <1>4, <2>1, TypeOwnerOp DEF EmergencyStop
<1>5. ASSUME NEW ch \in Channels, SuspendChannel(ch) PROVE TypeInv'
  <2>1. [NoOwnerWrites.channel EXCEPT ![ch] = Changed(channel[ch].status, "suspended")]
          \in [Channels -> ChannelStatus \cup {NoWrite}]
    BY <1>1 DEF Changed, ChannelStatus
  <2> QED BY <1>1, <1>5, <2>1, TypeOwnerOp DEF SuspendChannel
<1>6. ASSUME NEW ch \in Channels, RemoveChannel(ch) PROVE TypeInv'
  <2>1. [NoOwnerWrites.channel EXCEPT ![ch] = Changed(channel[ch].status, "removed")]
          \in [Channels -> ChannelStatus \cup {NoWrite}]
    BY <1>1 DEF Changed, ChannelStatus
  <2> QED BY <1>1, <1>6, <2>1, TypeOwnerOp DEF RemoveChannel
<1> QED BY <1>2, <1>3, <1>4, <1>5, <1>6 DEF Owner

LEMMA TypeOwnerCommit ==
  ASSUME TypeInv, OwnerCommit PROVE TypeInv'
<1>0. /\ pending.campaign \in CampaignWrites
      /\ pending.channel \in [Channels -> ChannelStatus \cup {NoWrite}]
  BY DEF TypeInv, TypeOK, outside
<1>1. campaign' \in [Campaigns -> CampaignStatus]
  BY <1>0 DEF OwnerCommit, CampaignWrites, TypeInv, TypeOK, outside
<1>2. channel' \in [Channels -> ChannelRow]
  <2> DEFINE row(ch) == IF pending.channel[ch] # NoWrite
                          THEN [channel[ch] EXCEPT !.status = pending.channel[ch]]
                          ELSE channel[ch]
  <2>1. ASSUME NEW ch \in Channels PROVE row(ch) \in ChannelRow
    <3>1. channel[ch] \in ChannelRow BY DEF TypeInv, TypeOK, outside
    <3>2. CASE pending.channel[ch] # NoWrite
      <4>1. pending.channel[ch] \in ChannelStatus BY <1>0, <3>2
      <4> QED BY <3>1, <3>2, <4>1 DEF ChannelRow
    <3> QED BY <3>1, <3>2
  <2>2. channel' = [ch \in Channels |-> row(ch)] BY DEF OwnerCommit
  <2> QED BY <2>1, <2>2
<1>3. TypeOK'
  BY <1>1, <1>2, NoWritesType DEF OwnerCommit, TypeInv, TypeOK, outside, rubika, session, new, history
<1>4. HandOK' BY DEF OwnerCommit, TypeInv, HandOK, session
<1> QED BY <1>3, <1>4 DEF TypeInv

LEMMA TypeWorld ==
  ASSUME TypeInv, World PROVE TypeInv'
<1> USE ModelAssumption
<1>1. CASE ClockTick
  <2>1. TypeOK'
    BY <1>1 DEF ClockTick, Time, TypeInv, TypeOK, outside, db, rubika, session, new, owner, history
  <2>2. HandOK' BY <1>1 DEF ClockTick, TypeInv, HandOK, session
  <2> QED BY <2>1, <2>2 DEF TypeInv
<1>2. ASSUME NEW t \in Targets, DeletePost(t) PROVE TypeInv'
  <2>1. gone' \subseteq [target : Targets, copy : Nat]
    BY <1>2 DEF DeletePost, TypeInv, TypeOK, outside
  <2>2. TypeOK'
    BY <1>2, <2>1 DEF DeletePost, TypeInv, TypeOK, outside, db, session, new, owner, history
  <2>3. HandOK' BY <1>2 DEF DeletePost, TypeInv, HandOK, session
  <2> QED BY <2>2, <2>3 DEF TypeInv
<1>3. ASSUME NEW l \in Flaky, AccountChange(l) PROVE TypeInv'
  <2>1. online' \subseteq Lists BY <1>3 DEF AccountChange, TypeInv, TypeOK, outside
  <2>2. TypeOK'
    BY <1>3, <2>1 DEF AccountChange, TypeInv, TypeOK, outside, db, rubika, session, new, owner, history
  <2>3. HandOK' BY <1>3 DEF AccountChange, TypeInv, HandOK, session
  <2> QED BY <2>2, <2>3 DEF TypeInv
<1> QED BY <1>1, <1>2, <1>3 DEF World

LEMMA TypeStep == TypeInv /\ [Next]_vars => TypeInv'
<1> SUFFICES ASSUME TypeInv, [Next]_vars PROVE TypeInv' OBVIOUS
<1>1. ASSUME NEW w \in Workers, Step(w) PROVE TypeInv'
  BY <1>1, TypeTickBegin, TypePickTarget, TypeClaim, TypeClaimLost, TypeCheckChannel,
     TypeForward, TypeRecord, TypeRetentionBegin, TypePickPublished, TypeCheckQuiet,
     TypeRetain, TypePenalise, TypeReconcileBegin, TypeReconcile, TypeCommit DEF Step
<1>2. ASSUME NEW w \in Workers, Rollback(w) PROVE TypeInv'
  <2>1. rollbacks' \in Nat BY <1>2 DEF Rollback, TypeInv, TypeOK, outside
  <2> QED BY <1>2, <2>1, TypeAbort DEF Rollback
<1>3. ASSUME NEW w \in Workers, DeadlockVictim(w) \/ QueryRefused(w) PROVE TypeInv'
  <2>1. rollbacks' \in Nat BY <1>3 DEF DeadlockVictim, QueryRefused, TypeInv, TypeOK
  <2> QED BY <1>3, <2>1, TypeAbort DEF DeadlockVictim, QueryRefused
<1>4. CASE UNCHANGED vars
  <2>1. TypeOK'
    BY <1>4 DEF vars, TypeInv, TypeOK, outside, db, rubika, session, new, owner, history
  <2>2. HandOK' BY <1>4 DEF vars, session, TypeInv, HandOK
  <2> QED BY <2>1, <2>2 DEF TypeInv
<1> QED BY <1>1, <1>2, <1>3, <1>4, TypeOwner, TypeOwnerCommit, TypeWorld DEF Next

LEMMA TypeInvCorrect == Spec => []TypeInv
BY InitType, TypeStep, PTL DEF Spec

\* Every variable of the publication worker has its type in every reachable
\* state.
THEOREM TypeCorrect == Spec => []TypeOK
<1>1. TypeInv => TypeOK BY DEF TypeInv
<1> QED BY <1>1, TypeInvCorrect, PTL

-----------------------------------------------------------------------------
(* A target is posted at most once more than the ticks that posted it and   *)
(* were rolled back.  The argument is a lock discipline: a target that a    *)
(* tick works on, or has posted, is a row that tick has written, no two     *)
(* ticks have written the same row, and while the tick is open the row is   *)
(* planned for everybody else.                                              *)

Written(w, t) == newTarget[w][t] # NoTargetRow

LockInv ==
  /\ \A v, w \in Workers : \A t \in Targets : Written(v, t) /\ Written(w, t) => v = w
  /\ \A w \in Workers : \A t \in Targets :
       /\ newTarget[w][t].status # "planned"
       /\ newTarget[w][t].status = "running" =>
            /\ target[t].status = "planned"
            /\ pc[w] \in {"channel", "forward", "record"} /\ cur[w] = t
       /\ t \in sent[w] => /\ Written(w, t)
                           /\ target[t].status = "planned"
                           /\ posted[t] = lost[t] + 1
                           /\ ~(pc[w] \in {"channel", "forward"} /\ cur[w] = t)
  /\ \A w \in Workers :
       pc[w] \in {"channel", "forward", "record"} => newTarget[w][cur[w]].status = "running"

AccountInv ==
  \A t \in Targets :
    /\ posted[t] <= lost[t] + 1
    /\ target[t].status = "planned" /\ (\A w \in Workers : t \notin sent[w])
         => posted[t] = lost[t]

IInv == LockInv /\ NoStrandedClaim /\ AccountInv

Holding == {"channel", "forward", "record"}   \* stages between claim and outcome

\* A step that touches no target row, no message and no account of messages,
\* and moves workers only outside the stages that hold a claim.
LEMMA QuietStep ==
  ASSUME IInv, UNCHANGED <<target, newTarget, posted, sent, lost>>,
         \A v \in Workers : \/ pc'[v] = pc[v] /\ cur'[v] = cur[v]
                            \/ pc[v] \notin Holding /\ pc'[v] \notin Holding
  PROVE  IInv'
<1>1. LockInv' BY DEF IInv, LockInv, Written, Holding
<1>2. NoStrandedClaim' BY DEF IInv, NoStrandedClaim
<1>3. AccountInv' BY DEF IInv, AccountInv
<1> QED BY <1>1, <1>2, <1>3 DEF IInv

\* One worker moves, and not into or out of a stage that holds a claim.
LEMMA Moves ==
  ASSUME TypeInv, NEW w \in Workers, pc[w] \notin Holding,
         pc' = pc \/ \E p \in Stage \ Holding : Goto(w, p),
         cur' = cur \/ PutDown(w) \/ \E t \in Targets : Take(w, t)
  PROVE  \A v \in Workers : \/ pc'[v] = pc[v] /\ cur'[v] = cur[v]
                            \/ pc[v] \notin Holding /\ pc'[v] \notin Holding
<1> SUFFICES ASSUME NEW v \in Workers
             PROVE  \/ pc'[v] = pc[v] /\ cur'[v] = cur[v]
                    \/ pc[v] \notin Holding /\ pc'[v] \notin Holding
  OBVIOUS
<1>1. CASE v = w
  BY <1>1 DEF TypeInv, TypeOK, Goto
<1>2. CASE v # w
  BY <1>2 DEF TypeInv, TypeOK, Goto, PutDown, Take
<1> QED BY <1>1, <1>2

LEMMA InitIInv == Init => IInv
<1> SUFFICES ASSUME Init PROVE IInv OBVIOUS
<1>1. LockInv
  BY DEF Init, LockInv, Written, NoTargetRows, NoTargetRow, NoWrite
<1>2. NoStrandedClaim /\ AccountInv
  BY DEF Init, NoStrandedClaim, AccountInv
<1> QED BY <1>1, <1>2 DEF IInv

\* The steps of a tick that leave the target rows and Rubika alone.
LEMMA QuietTick ==
  ASSUME TypeInv, IInv, NEW w \in Workers,
         \/ TickBegin(w) \/ PickTarget(w) \/ ClaimLost(w) \/ RetentionBegin(w)
         \/ PickPublished(w) \/ CheckQuiet(w) \/ ReconcileBegin(w) \/ Reconcile(w)
  PROVE  IInv'
<1> DEFINE Quiet == /\ UNCHANGED <<target, newTarget, posted, sent, lost>>
                    /\ pc[w] \notin Holding
                    /\ pc' = pc \/ \E p \in Stage \ Holding : Goto(w, p)
                    /\ cur' = cur \/ PutDown(w) \/ \E t \in Targets : Take(w, t)
<1>1. ASSUME TickBegin(w) PROVE Quiet
  BY <1>1 DEF TickBegin, db, rubika, new, history, Holding, Stage
<1>2. ASSUME PickTarget(w) PROVE Quiet
  <2>1. PICK t \in todo[w] :
        \/ Take(w, t) /\ Goto(w, "claim") /\ UNCHANGED <<got, seen, new, rows>>
        \/ Skip(w, t)
    BY <1>2 DEF PickTarget
  <2>2. t \in Targets BY <2>1 DEF TypeInv, TypeOK
  <2> QED BY <1>2, <2>1, <2>2 DEF PickTarget, Skip, db, rubika, new, history, Holding, Stage
<1>3. ASSUME ClaimLost(w) PROVE Quiet
  BY <1>3 DEF ClaimLost, db, rubika, new, history, Holding, Stage
<1>4. ASSUME RetentionBegin(w) PROVE Quiet
  BY <1>4 DEF RetentionBegin, db, rubika, new, history, Holding, Stage
<1>5. ASSUME PickPublished(w) PROVE Quiet
  <2>1. PICK t \in todo[w] :
        \/ Take(w, t) /\ Goto(w, "check") /\ UNCHANGED <<got, new, rows>>
        \/ Skip(w, t)
    BY <1>5 DEF PickPublished
  <2>2. t \in Targets BY <2>1 DEF TypeInv, TypeOK
  <2> QED BY <1>5, <2>1, <2>2 DEF PickPublished, Skip, db, rubika, new, history, Holding, Stage
<1>6. ASSUME CheckQuiet(w) PROVE Quiet
  BY <1>6 DEF CheckQuiet, db, rubika, new, history, Holding, Stage
<1>7. ASSUME ReconcileBegin(w) PROVE Quiet
  BY <1>7 DEF ReconcileBegin, db, rubika, new, history, Holding, Stage
<1>8. ASSUME Reconcile(w) PROVE Quiet
  BY <1>8 DEF Reconcile, db, rubika, history, Holding, Stage
<1>9. Quiet
  BY <1>1, <1>2, <1>3, <1>4, <1>5, <1>6, <1>7, <1>8
<1> QED BY <1>9, Moves, QuietStep

\* A tick with a claim in hand writes another outcome in the same row.
LEMMA ClaimIInv ==
  ASSUME TypeInv, IInv, NEW w \in Workers, Claim(w) PROVE IInv'
<1> DEFINE t == cur[w]
<1>0. /\ t \in Targets /\ pc[w] = "claim"
      /\ newTarget \in [Workers -> [Targets -> TargetRow \cup {NoTargetRow}]]
      /\ pc \in [Workers -> Stage]
  BY DEF Claim, TypeInv, TypeOK, HandOK
<1>1. /\ UNCHANGED <<target, posted, sent, lost, cur>>
      /\ pc' = [pc EXCEPT ![w] = "channel"]
      /\ newTarget' = [newTarget EXCEPT ![w][t] = [TargetIn(w, t) EXCEPT !.status = "running"]]
  BY DEF Claim, Goto, Write, db, rubika, history
<1>2. ~Written(w, t) /\ target[t].status = "planned"
  BY <1>0 DEF Claim, Claimable, TargetIn, IInv, LockInv, Written
<1>3. \A v \in Workers \ {w} : ~Written(v, t)
  BY DEF Claim, TargetBusy, Written
<1>4. \A u \in Targets : newTarget[w][u].status # "running"
  BY <1>0 DEF IInv, LockInv
<1>5. TargetIn(w, t) \in TargetRow BY <1>0, ViewTypes DEF TypeInv
<1>6. newTarget'[w][t].status = "running" /\ newTarget'[w][t] # NoTargetRow
  <2>1. [TargetIn(w, t) EXCEPT !.status = "running"].status = "running"
    BY <1>5 DEF TargetRow
  <2> QED BY <1>0, <1>1, <2>1 DEF NoTargetRow, NoWrite
<1>7. \A v \in Workers : \A u \in Targets :
        v # w \/ u # t => newTarget'[v][u] = newTarget[v][u]
  BY <1>0, <1>1
<1>8. \A v \in Workers : v # w => pc'[v] = pc[v]
  BY <1>0, <1>1
<1>9. pc'[w] = "channel" BY <1>0, <1>1
<1>10. \A v, x \in Workers : \A u \in Targets : Written(v, u)' /\ Written(x, u)' => v = x
  BY <1>3, <1>7 DEF IInv, LockInv, Written
<1>11. ASSUME NEW v \in Workers, NEW u \in Targets
       PROVE  /\ newTarget'[v][u].status # "planned"
              /\ newTarget'[v][u].status = "running" =>
                   /\ target'[u].status = "planned"
                   /\ pc'[v] \in {"channel", "forward", "record"} /\ cur'[v] = u
              /\ u \in sent'[v] => /\ Written(v, u)'
                                   /\ target'[u].status = "planned"
                                   /\ posted'[u] = lost'[u] + 1
                                   /\ ~(pc'[v] \in {"channel", "forward"} /\ cur'[v] = u)
  <2>1. CASE v = w /\ u = t
    <3>1. t \notin sent[w] BY <1>2, <1>0 DEF IInv, LockInv
    <3> QED BY <2>1, <3>1, <1>1, <1>2, <1>6, <1>9
  <2>2. CASE v = w /\ u # t
    BY <2>2, <1>1, <1>4, <1>7, <1>9 DEF IInv, LockInv, Written
  <2>3. CASE v # w
    BY <2>3, <1>1, <1>7, <1>8 DEF IInv, LockInv, Written
  <2> QED BY <2>1, <2>2, <2>3
<1>12. ASSUME NEW v \in Workers, pc'[v] \in {"channel", "forward", "record"}
       PROVE  newTarget'[v][cur'[v]].status = "running"
  <2>1. CASE v = w BY <2>1, <1>1, <1>6
  <2>2. CASE v # w
    <3>1. cur[v] \in Targets BY <2>2, <1>8, <1>12 DEF TypeInv, HandOK
    <3> QED BY <2>2, <3>1, <1>1, <1>7, <1>8, <1>12 DEF IInv, LockInv
  <2> QED BY <2>1, <2>2
<1>13. LockInv' BY <1>10, <1>11, <1>12 DEF LockInv
<1>14. NoStrandedClaim' /\ AccountInv'
  BY <1>1 DEF IInv, NoStrandedClaim, AccountInv
<1> QED BY <1>13, <1>14 DEF IInv

\* An outcome: the worker writes its row, which is no longer planned or
\* running, lets go of the target, and nothing else moves.
LEMMA OutcomeIInv ==
  ASSUME TypeInv, IInv, NEW w \in Workers, cur[w] \in Targets,
         NEW row \in TargetRow, row.status \notin {"planned", "running"},
         newTarget' = [newTarget EXCEPT ![w][cur[w]] = row],
         UNCHANGED <<target, posted, sent, lost>>,
         NEW p \in Stage \ Holding, Goto(w, p), PutDown(w),
         ~TargetBusy(w, cur[w])
  PROVE  IInv'
<1> DEFINE t == cur[w]
<1>0. /\ newTarget \in [Workers -> [Targets -> TargetRow \cup {NoTargetRow}]]
      /\ pc \in [Workers -> Stage]
      /\ cur \in [Workers -> Targets \cup {NoTarget}]
  BY DEF TypeInv, TypeOK
<1>1. \A v \in Workers \ {w} : ~Written(v, t)
  BY DEF TargetBusy, Written
<1>2. newTarget'[w][t] = row /\ row # NoTargetRow
  BY <1>0 DEF TargetRow, TargetStatus, NoTargetRow, NoWrite
<1>3. \A v \in Workers : \A u \in Targets :
        v # w \/ u # t => newTarget'[v][u] = newTarget[v][u]
  BY <1>0
<1>4. \A v \in Workers : v # w => pc'[v] = pc[v] /\ cur'[v] = cur[v]
  BY <1>0 DEF Goto, PutDown
<1>5. pc'[w] = p /\ p \notin Holding BY <1>0 DEF Goto
<1>6. \A v, x \in Workers : \A u \in Targets : Written(v, u)' /\ Written(x, u)' => v = x
  BY <1>1, <1>3 DEF IInv, LockInv, Written
<1>7. \A u \in Targets : u # t => newTarget[w][u].status # "running"
  BY DEF IInv, LockInv
<1>8. ASSUME NEW v \in Workers, NEW u \in Targets
       PROVE  /\ newTarget'[v][u].status # "planned"
              /\ newTarget'[v][u].status = "running" =>
                   /\ target'[u].status = "planned"
                   /\ pc'[v] \in {"channel", "forward", "record"} /\ cur'[v] = u
              /\ u \in sent'[v] => /\ Written(v, u)'
                                   /\ target'[u].status = "planned"
                                   /\ posted'[u] = lost'[u] + 1
                                   /\ ~(pc'[v] \in {"channel", "forward"} /\ cur'[v] = u)
  <2>1. CASE v = w /\ u = t
    BY <2>1, <1>2, <1>5 DEF IInv, LockInv, Written, Holding
  <2>2. CASE v = w /\ u # t
    BY <2>2, <1>3, <1>5, <1>7 DEF IInv, LockInv, Written, Holding
  <2>3. CASE v # w
    BY <2>3, <1>3, <1>4 DEF IInv, LockInv, Written
  <2> QED BY <2>1, <2>2, <2>3
<1>9. ASSUME NEW v \in Workers, pc'[v] \in {"channel", "forward", "record"}
       PROVE  newTarget'[v][cur'[v]].status = "running"
  <2>1. v # w BY <1>5, <1>9 DEF Holding
  <2>2. cur[v] \in Targets BY <2>1, <1>4, <1>9 DEF TypeInv, HandOK
  <2> QED BY <2>1, <2>2, <1>3, <1>4, <1>9 DEF IInv, LockInv
<1>10. LockInv' BY <1>6, <1>8, <1>9 DEF LockInv
<1>11. NoStrandedClaim' /\ AccountInv'
  BY DEF IInv, NoStrandedClaim, AccountInv
<1> QED BY <1>10, <1>11 DEF IInv

\* A worker with a claim in hand holds the row alone.
LEMMA HoldsAlone ==
  ASSUME TypeInv, IInv, NEW w \in Workers, pc[w] \in Holding
  PROVE  /\ cur[w] \in Targets /\ Written(w, cur[w])
         /\ \A v \in Workers \ {w} : ~Written(v, cur[w])
         /\ ~TargetBusy(w, cur[w])
         /\ target[cur[w]].status = "planned"
<1>1. cur[w] \in Targets BY DEF TypeInv, HandOK, Holding
<1>2. newTarget[w][cur[w]].status = "running" BY DEF IInv, LockInv, Holding
<1>3. Written(w, cur[w]) BY <1>2 DEF Written, NoTargetRow, NoWrite
<1>4. \A v \in Workers \ {w} : ~Written(v, cur[w]) BY <1>1, <1>3 DEF IInv, LockInv
<1>5. ~TargetBusy(w, cur[w]) BY <1>4 DEF TargetBusy, Written
<1>6. target[cur[w]].status = "planned" BY <1>1, <1>2 DEF IInv, LockInv
<1> QED BY <1>1, <1>3, <1>4, <1>5, <1>6

LEMMA CheckChannelIInv ==
  ASSUME TypeInv, IInv, NEW w \in Workers, CheckChannel(w) PROVE IInv'
<1>0. UNCHANGED <<target, posted, sent, lost>> /\ pc[w] = "channel"
  BY DEF CheckChannel, db, rubika, history
<1>1. cur[w] \in Targets /\ ~TargetBusy(w, cur[w])
  BY <1>0, HoldsAlone DEF Holding
<1>2. CASE Goto(w, "forward") /\ UNCHANGED <<cur, new>>
  <2>0. pc \in [Workers -> Stage] BY DEF TypeInv, TypeOK
  <2>1. newTarget' = newTarget /\ cur' = cur BY <1>2 DEF new
  <2>2. pc'[w] = "forward" /\ \A v \in Workers : v # w => pc'[v] = pc[v]
    BY <1>2, <2>0 DEF Goto
  <2>3. \A v \in Workers : pc'[v] \in {"channel", "forward"} <=> pc[v] \in {"channel", "forward"}
    BY <1>0, <2>2
  <2>4. \A v \in Workers : pc'[v] \in {"channel", "forward", "record"}
                             <=> pc[v] \in {"channel", "forward", "record"}
    BY <1>0, <2>2
  <2>5. LockInv' BY <1>0, <2>1, <2>3, <2>4 DEF IInv, LockInv, Written
  <2>6. NoStrandedClaim' /\ AccountInv' BY <1>0 DEF IInv, NoStrandedClaim, AccountInv
  <2> QED BY <2>5, <2>6 DEF IInv
<1>3. CASE Write(w, Failed(w)) /\ Goto(w, "publish") /\ PutDown(w)
  <2>1. Failed(w) \in TargetRow BY <1>1, FailedType
  <2>2. Failed(w).status = "failed"
    BY <1>1, ViewTypes DEF Failed, TargetRow, TypeInv
  <2>3. newTarget' = [newTarget EXCEPT ![w][cur[w]] = Failed(w)] BY <1>3 DEF Write
  <2>4. "publish" \in Stage \ Holding BY DEF Stage, Holding
  <2> QED BY <1>0, <1>1, <1>3, <2>1, <2>2, <2>3, <2>4, OutcomeIInv
<1> QED BY <1>2, <1>3 DEF CheckChannel

LEMMA RecordIInv ==
  ASSUME TypeInv, IInv, NEW w \in Workers, Record(w) PROVE IInv'
<1>0. UNCHANGED <<target, posted, sent, lost>> /\ pc[w] = "record"
  BY DEF Record, db, rubika, history
<1>1. cur[w] \in Targets /\ ~TargetBusy(w, cur[w])
  BY <1>0, HoldsAlone DEF Holding
<1>2. Outcome(w) \in TargetRow /\ Outcome(w).status \notin {"planned", "running"}
  <2>1. now \in Time /\ got[w] \in Nat BY DEF TypeInv, TypeOK
  <2>2. Failed(w) \in TargetRow BY <1>1, FailedType
  <2>3. Failed(w).status = "failed"
    BY <1>1, ViewTypes DEF Failed, TargetRow, TypeInv
  <2> QED BY <2>1, <2>2, <2>3 DEF Outcome, TargetRow, TargetStatus
<1>3. newTarget' = [newTarget EXCEPT ![w][cur[w]] = Outcome(w)] BY DEF Record
<1>4. "publish" \in Stage \ Holding BY DEF Stage, Holding
<1>5. Goto(w, "publish") /\ PutDown(w) BY DEF Record
<1> QED BY <1>0, <1>1, <1>2, <1>3, <1>4, <1>5, OutcomeIInv

LEMMA RetainIInv ==
  ASSUME TypeInv, IInv, NEW w \in Workers, Retain(w) PROVE IInv'
<1>0. UNCHANGED <<target, posted, sent, lost>> /\ pc[w] = "check"
  BY DEF Retain, db, rubika, history
<1>1. cur[w] \in Targets /\ ~TargetBusy(w, cur[w])
  BY <1>0 DEF Retain, TypeInv, HandOK
<1> DEFINE row == [TargetIn(w, cur[w]) EXCEPT !.status = "retained"]
<1>2. row \in TargetRow /\ row.status = "retained"
  BY <1>1, ViewTypes DEF TargetRow, TargetStatus, TypeInv
<1>3. newTarget' = [newTarget EXCEPT ![w][cur[w]] = row] BY DEF Retain, Write
<1>4. "retention" \in Stage \ Holding BY DEF Stage, Holding
<1>5. Goto(w, "retention") /\ PutDown(w) BY DEF Retain
<1> HIDE DEF row
<1> QED BY <1>0, <1>1, <1>2, <1>3, <1>4, <1>5, OutcomeIInv

LEMMA PenaliseIInv ==
  ASSUME TypeInv, IInv, NEW w \in Workers, Penalise(w) PROVE IInv'
<1>0. UNCHANGED <<target, posted, sent, lost>> /\ pc[w] = "check"
  BY DEF Penalise, db, rubika, history
<1>1. cur[w] \in Targets /\ ~TargetBusy(w, cur[w])
  BY <1>0 DEF Penalise, TypeInv, HandOK
<1>2. Failed(w) \in TargetRow BY <1>1, FailedType
<1>3. Failed(w).status = "failed"
  BY <1>1, ViewTypes DEF Failed, TargetRow, TypeInv
<1>4. newTarget' = [newTarget EXCEPT ![w][cur[w]] = Failed(w)] BY DEF Penalise
<1>5. "retention" \in Stage \ Holding BY DEF Stage, Holding
<1>6. Goto(w, "retention") /\ PutDown(w) BY DEF Penalise
<1> QED BY <1>0, <1>1, <1>2, <1>3, <1>4, <1>5, <1>6, OutcomeIInv

\* Only the worker that holds the row posts its message, and the row is not
\* posted yet: nobody's open tick has sent it.
LEMMA ForwardIInv ==
  ASSUME TypeInv, IInv, NEW w \in Workers, Forward(w) PROVE IInv'
<1> DEFINE t == cur[w]
<1>0. /\ UNCHANGED <<target, newTarget, lost, cur>> /\ pc[w] = "forward"
      /\ pc' = [pc EXCEPT ![w] = "record"]
  BY DEF Forward, Goto, db, new
<1>1. /\ t \in Targets /\ Written(w, t) /\ target[t].status = "planned"
      /\ \A v \in Workers \ {w} : ~Written(v, t)
  BY <1>0, HoldsAlone DEF Holding
<1>2. /\ pc \in [Workers -> Stage] /\ sent \in [Workers -> SUBSET Targets]
      /\ posted \in [Targets -> Nat] /\ lost \in [Targets -> Nat]
  BY DEF TypeInv, TypeOK
<1>3. pc'[w] = "record" /\ \A v \in Workers : v # w => pc'[v] = pc[v]
  BY <1>0, <1>2
<1>4. \A v \in Workers : t \notin sent[v]
  BY <1>0, <1>1 DEF IInv, LockInv
<1>5. posted[t] = lost[t]
  BY <1>1, <1>4 DEF IInv, AccountInv
<1>6. \A v \in Workers : pc'[v] \in {"channel", "forward", "record"}
                           <=> pc[v] \in {"channel", "forward", "record"}
  BY <1>0, <1>3
<1>7. \A v \in Workers : pc'[v] \in {"channel", "forward"} => pc[v] \in {"channel", "forward"}
  BY <1>3
<1>8. NoStrandedClaim' BY <1>0 DEF IInv, NoStrandedClaim
<1>9. CASE UNCHANGED <<posted, sent>>
  <2>1. LockInv' BY <1>0, <1>6, <1>7, <1>9 DEF IInv, LockInv, Written
  <2>2. AccountInv' BY <1>0, <1>9 DEF IInv, AccountInv
  <2> QED BY <1>8, <2>1, <2>2 DEF IInv
<1>10. CASE /\ posted' = [posted EXCEPT ![t] = @ + 1]
            /\ sent' = [sent EXCEPT ![w] = @ \cup {t}]
  <2>1. posted'[t] = lost[t] + 1 /\ \A u \in Targets : u # t => posted'[u] = posted[u]
    BY <1>1, <1>2, <1>5, <1>10
  <2>2. sent'[w] = sent[w] \cup {t} /\ \A v \in Workers : v # w => sent'[v] = sent[v]
    BY <1>2, <1>10
  <2>3. ASSUME NEW v \in Workers, NEW u \in Targets, u \in sent'[v]
        PROVE  /\ Written(v, u)' /\ target'[u].status = "planned"
               /\ posted'[u] = lost'[u] + 1
               /\ ~(pc'[v] \in {"channel", "forward"} /\ cur'[v] = u)
    <3>1. CASE u = t
      <4>1. v = w BY <1>4, <2>2, <2>3, <3>1
      <4> QED BY <1>0, <1>1, <1>3, <2>1, <3>1, <4>1 DEF Written
    <3>2. CASE u # t
      <4>1. u \in sent[v] BY <2>2, <2>3, <3>2
      <4> QED BY <1>0, <1>7, <2>1, <3>2, <4>1 DEF IInv, LockInv, Written
    <3> QED BY <3>1, <3>2
  <2>4. LockInv' BY <1>0, <1>6, <2>3 DEF IInv, LockInv, Written
  <2>5. ASSUME NEW u \in Targets
        PROVE  /\ posted'[u] <= lost'[u] + 1
               /\ target'[u].status = "planned" /\ (\A v \in Workers : u \notin sent'[v])
                    => posted'[u] = lost'[u]
    <3>1. CASE u = t BY <1>0, <1>2, <2>1, <2>2, <3>1
    <3>2. CASE u # t
      <4>1. \A v \in Workers : u \in sent'[v] <=> u \in sent[v] BY <2>2, <3>2
      <4> QED BY <1>0, <2>1, <3>2, <4>1 DEF IInv, AccountInv
    <3> QED BY <3>1, <3>2
  <2>6. AccountInv' BY <2>5 DEF AccountInv
  <2> QED BY <1>8, <2>4, <2>6 DEF IInv
<1> QED BY <1>9, <1>10 DEF Forward

\* When the transaction ends, the rows it has written are free.
LEMMA ClearFrees ==
  ASSUME TypeInv, NEW w \in Workers, Clear(w)
  PROVE  /\ \A u \in Targets : newTarget'[w][u] = NoTargetRow
         /\ \A v \in Workers : v # w => newTarget'[v] = newTarget[v]
BY DEF Clear, NoTargetRows, TypeInv, TypeOK

\* A commit publishes outcomes only: a claim that is still open would be in
\* hand, and the tick has put its last target down.
LEMMA CommitIInv ==
  ASSUME TypeInv, IInv, NEW w \in Workers, Commit(w) PROVE IInv'
<1>0. /\ pc[w] = "reconcile" /\ pc' = [pc EXCEPT ![w] = "idle"]
      /\ sent' = [sent EXCEPT ![w] = {}]
      /\ UNCHANGED <<posted, cur, lost>> /\ Clear(w)
      /\ \A u \in Targets : target'[u] = TargetIn(w, u)
  BY DEF Commit, Goto, rubika
<1>1. /\ pc \in [Workers -> Stage] /\ sent \in [Workers -> SUBSET Targets]
  BY DEF TypeInv, TypeOK
<1>2. /\ pc'[w] = "idle" /\ sent'[w] = {}
      /\ \A v \in Workers : v # w => pc'[v] = pc[v] /\ sent'[v] = sent[v]
  BY <1>0, <1>1
<1>3. /\ \A u \in Targets : newTarget'[w][u] = NoTargetRow
      /\ \A v \in Workers : v # w => newTarget'[v] = newTarget[v]
  BY <1>0, ClearFrees
<1>4. \A u \in Targets : ~Written(w, u)' BY <1>3 DEF Written
<1>5. \A v \in Workers : \A u \in Targets : v # w => (Written(v, u)' <=> Written(v, u))
  BY <1>3 DEF Written
<1>6. ASSUME NEW v \in Workers, v # w, NEW u \in Targets, Written(v, u)
      PROVE  target'[u] = target[u]
  <2>1. ~Written(w, u) BY <1>6 DEF IInv, LockInv
  <2> QED BY <1>0, <2>1 DEF Written, TargetIn
<1>7. ASSUME NEW u \in Targets
      PROVE  /\ target'[u].status # "running"
             /\ target'[u].status = "planned" => target[u].status = "planned" /\ ~Written(w, u)
  <2>1. newTarget[w][u].status \notin {"planned", "running"} \/ ~Written(w, u)
    BY <1>0 DEF IInv, LockInv
  <2>2. target[u].status # "running" BY DEF IInv, NoStrandedClaim
  <2> QED BY <1>0, <2>1, <2>2 DEF Written, TargetIn
<1>8. \A v, x \in Workers : \A u \in Targets : Written(v, u)' /\ Written(x, u)' => v = x
  BY <1>4, <1>5 DEF IInv, LockInv
<1>9. ASSUME NEW v \in Workers, NEW u \in Targets
      PROVE  /\ newTarget'[v][u].status # "planned"
             /\ newTarget'[v][u].status = "running" =>
                  /\ target'[u].status = "planned"
                  /\ pc'[v] \in {"channel", "forward", "record"} /\ cur'[v] = u
             /\ u \in sent'[v] => /\ Written(v, u)'
                                  /\ target'[u].status = "planned"
                                  /\ posted'[u] = lost'[u] + 1
                                  /\ ~(pc'[v] \in {"channel", "forward"} /\ cur'[v] = u)
  <2>1. CASE v = w BY <1>2, <1>3, <2>1 DEF NoTargetRow, NoWrite
  <2>2. CASE v # w
    <3>1. newTarget'[v][u] = newTarget[v][u] /\ pc'[v] = pc[v] /\ cur'[v] = cur[v]
            /\ sent'[v] = sent[v]
      BY <1>0, <1>2, <1>3, <2>2
    <3>2. newTarget[v][u].status = "running" => Written(v, u)
      BY DEF Written, NoTargetRow, NoWrite
    <3> QED BY <1>0, <1>6, <2>2, <3>1, <3>2 DEF IInv, LockInv, Written
  <2> QED BY <2>1, <2>2
<1>10. ASSUME NEW v \in Workers, pc'[v] \in {"channel", "forward", "record"}
       PROVE  newTarget'[v][cur'[v]].status = "running"
  <2>1. v # w BY <1>2, <1>10
  <2> QED BY <1>0, <1>2, <1>3, <1>10, <2>1 DEF IInv, LockInv
<1>11. LockInv' BY <1>8, <1>9, <1>10 DEF LockInv
<1>12. NoStrandedClaim' BY <1>7 DEF NoStrandedClaim
<1>13. ASSUME NEW u \in Targets
       PROVE  /\ posted'[u] <= lost'[u] + 1
              /\ target'[u].status = "planned" /\ (\A v \in Workers : u \notin sent'[v])
                   => posted'[u] = lost'[u]
  <2>1. posted'[u] <= lost'[u] + 1 BY <1>0 DEF IInv, AccountInv
  <2>2. ASSUME target'[u].status = "planned", \A v \in Workers : u \notin sent'[v]
        PROVE  posted'[u] = lost'[u]
    <3>1. target[u].status = "planned" /\ ~Written(w, u) BY <1>7, <2>2
    <3>2. \A v \in Workers : u \notin sent[v] BY <1>2, <2>2, <3>1 DEF IInv, LockInv
    <3> QED BY <1>0, <3>1, <3>2 DEF IInv, AccountInv
  <2> QED BY <2>1, <2>2
<1>14. AccountInv' BY <1>13 DEF AccountInv
<1> QED BY <1>11, <1>12, <1>14 DEF IInv

\* A rolled back tick moves what it has posted to the account of lost posts.
LEMMA AbortIInv ==
  ASSUME TypeInv, IInv, NEW w \in Workers, Abort(w) PROVE IInv'
<1>0. /\ pc' = [pc EXCEPT ![w] = "idle"] /\ PutDown(w) /\ Clear(w)
      /\ sent' = [sent EXCEPT ![w] = {}]
      /\ lost' = [t \in Targets |-> lost[t] + (IF t \in sent[w] THEN 1 ELSE 0)]
      /\ UNCHANGED <<target, posted>>
  BY DEF Abort, Goto, db, rubika
<1>1. /\ pc \in [Workers -> Stage] /\ sent \in [Workers -> SUBSET Targets]
      /\ cur \in [Workers -> Targets \cup {NoTarget}]
      /\ posted \in [Targets -> Nat] /\ lost \in [Targets -> Nat]
  BY DEF TypeInv, TypeOK
<1>2. /\ pc'[w] = "idle" /\ sent'[w] = {}
      /\ \A v \in Workers : v # w => pc'[v] = pc[v] /\ sent'[v] = sent[v] /\ cur'[v] = cur[v]
  BY <1>0, <1>1 DEF PutDown
<1>3. /\ \A u \in Targets : newTarget'[w][u] = NoTargetRow
      /\ \A v \in Workers : v # w => newTarget'[v] = newTarget[v]
  BY <1>0, ClearFrees
<1>4. \A u \in Targets : /\ u \in sent[w] => lost'[u] = lost[u] + 1
                         /\ u \notin sent[w] => lost'[u] = lost[u]
  BY <1>0, <1>1
<1>5. \A v \in Workers : \A u \in Targets : v # w /\ u \in sent[v] => u \notin sent[w]
  BY DEF IInv, LockInv
<1>6. \A v, x \in Workers : \A u \in Targets : Written(v, u)' /\ Written(x, u)' => v = x
  BY <1>3 DEF IInv, LockInv, Written
<1>7. ASSUME NEW v \in Workers, NEW u \in Targets
      PROVE  /\ newTarget'[v][u].status # "planned"
             /\ newTarget'[v][u].status = "running" =>
                  /\ target'[u].status = "planned"
                  /\ pc'[v] \in {"channel", "forward", "record"} /\ cur'[v] = u
             /\ u \in sent'[v] => /\ Written(v, u)'
                                  /\ target'[u].status = "planned"
                                  /\ posted'[u] = lost'[u] + 1
                                  /\ ~(pc'[v] \in {"channel", "forward"} /\ cur'[v] = u)
  <2>1. CASE v = w BY <1>2, <1>3, <2>1 DEF NoTargetRow, NoWrite
  <2>2. CASE v # w
    BY <1>0, <1>2, <1>3, <1>4, <1>5, <2>2 DEF IInv, LockInv, Written
  <2> QED BY <2>1, <2>2
<1>8. ASSUME NEW v \in Workers, pc'[v] \in {"channel", "forward", "record"}
      PROVE  newTarget'[v][cur'[v]].status = "running"
  <2>1. v # w BY <1>2, <1>8
  <2> QED BY <1>2, <1>3, <1>8, <2>1 DEF IInv, LockInv
<1>9. LockInv' BY <1>6, <1>7, <1>8 DEF LockInv
<1>10. NoStrandedClaim' BY <1>0 DEF IInv, NoStrandedClaim
<1>11. ASSUME NEW u \in Targets
       PROVE  /\ posted'[u] <= lost'[u] + 1
              /\ target'[u].status = "planned" /\ (\A v \in Workers : u \notin sent'[v])
                   => posted'[u] = lost'[u]
  <2>1. CASE u \in sent[w]
    <3>1. posted[u] = lost[u] + 1 BY <2>1 DEF IInv, LockInv
    <3> QED BY <1>0, <1>1, <1>4, <2>1, <3>1
  <2>2. CASE u \notin sent[w]
    <3>1. \A v \in Workers : u \in sent'[v] <=> u \in sent[v] BY <1>2, <2>2
    <3> QED BY <1>0, <1>4, <2>2, <3>1 DEF IInv, AccountInv
  <2> QED BY <2>1, <2>2
<1>12. AccountInv' BY <1>11 DEF AccountInv
<1> QED BY <1>9, <1>10, <1>12 DEF IInv

\* The owner never writes a target row, and the world outside neither posts
\* nor knows of ticks.
LEMMA OthersIInv ==
  ASSUME IInv, Owner \/ OwnerCommit \/ World \/ UNCHANGED vars PROVE IInv'
<1>1. UNCHANGED <<target, newTarget, posted, sent, lost, pc, cur>>
  <2>1. CASE Owner
    BY <2>1 DEF Owner, CancelCampaign, ToggleCampaign, EmergencyStop, SuspendChannel,
       RemoveChannel, OwnerOp, db, rubika, session, new, history
  <2>2. CASE OwnerCommit
    BY <2>2 DEF OwnerCommit, rubika, session, new, history
  <2>3. CASE World
    BY <2>3 DEF World, ClockTick, DeletePost, AccountChange, db, rubika, session, new, history
  <2>4. CASE UNCHANGED vars
    BY <2>4 DEF vars, db, rubika, session, new, history
  <2> QED BY <2>1, <2>2, <2>3, <2>4
<1> QED BY <1>1, QuietStep

LEMMA IInvStep == TypeInv /\ IInv /\ [Next]_vars => IInv'
<1> SUFFICES ASSUME TypeInv, IInv, [Next]_vars PROVE IInv' OBVIOUS
<1>1. ASSUME NEW w \in Workers, Step(w) PROVE IInv'
  BY <1>1, QuietTick, ClaimIInv, CheckChannelIInv, ForwardIInv, RecordIInv, RetainIInv,
     PenaliseIInv, CommitIInv DEF Step
<1>2. ASSUME NEW w \in Workers, Rollback(w) \/ DeadlockVictim(w) \/ QueryRefused(w) PROVE IInv'
  BY <1>2, AbortIInv DEF Rollback, DeadlockVictim, QueryRefused
<1> QED BY <1>1, <1>2, OthersIInv DEF Next

\* The inductive invariant holds in every reachable state.
LEMMA IInvCorrect == Spec => []IInv
<1>1. Init /\ [][Next]_vars => [](TypeInv /\ IInv)
  BY InitType, InitIInv, TypeStep, IInvStep, PTL
<1> QED BY <1>1, PTL DEF Spec

\* For any number of workers, targets and lost ticks: a target is posted at
\* most once more than the number of ticks that posted it and were rolled back.
THEOREM NoDoublePostCorrect == Spec => []NoDoublePost
<1>1. IInv => NoDoublePost BY DEF IInv, AccountInv, NoDoublePost
<1> QED BY <1>1, IInvCorrect, PTL

\* Whatever is interrupted, no committed target is left "running".
THEOREM NoStrandedClaimCorrect == Spec => []NoStrandedClaim
<1>1. IInv => NoStrandedClaim BY DEF IInv
<1> QED BY <1>1, IInvCorrect, PTL
=============================================================================
