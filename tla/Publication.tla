---------------------------- MODULE Publication ----------------------------
(***************************************************************************)
(* The publication worker of the advertising network: what NetworkWorker   *)
(* (infrastructure/network_worker.py) does to the campaign tables, together*)
(* with the use cases it drives (core/publisher.py,                        *)
(* core/retention_monitor.py), the owner's confirmed operations            *)
(* (bots/owner_bot.py, bots/owner_inline.py) that write the same rows, and *)
(* the world outside: the Rubika servers that carry the posted messages    *)
(* and the channel administrators who may delete them.                     *)
(*                                                                         *)
(* A tick is ONE database transaction (network_worker.py:55-60).  Every    *)
(* await inside it is a place where other transactions may run, so every   *)
(* await is a step here.  A tick's flushed writes are in the variables     *)
(* "new...": the row is locked by w, w sees it changed, nobody else does   *)
(* until Commit, and an exception or the end of the process (Rollback)     *)
(* forgets it.  What was sent to Rubika in the meantime is not forgotten.  *)
(*                                                                         *)
(* Isolation is PostgreSQL's READ COMMITTED, the default the engine of     *)
(* core/db.py leaves in place: a statement sees what is committed when it  *)
(* runs, an UPDATE waits for the row's lock and then looks at the row again*)
(***************************************************************************)
EXTENDS Naturals, FiniteSets

CONSTANTS
  Workers,          \* concurrent ticks: one NetworkWorker per running process
  Targets,          \* campaign_targets rows, numbered in the order of their ids
  Campaigns, Channels, Lists,
  NoTarget,         \* "no target in hand"
  CampaignOf, ChannelOf, ListOf,   \* foreign keys of a target
  PlannedAt,        \* planned_at of a target
  Retention,        \* retention_hours of a campaign, in units of the clock
  Malformed,        \* campaigns whose content_ref _parse_content_ref refuses
  Flaky,            \* lists whose account may disconnect and reconnect
  EmptyAnswers,     \* targets get_message may answer with nothing that is known
  EarlierStrikes,   \* violations of a channel from targets that are not in Targets
  Builds,           \* whether the database library takes .cast(int)
  Starting,         \* statuses the campaigns start in
  PublishLimit,     \* due_targets(limit=50)
  RetentionLimit,   \* .limit(100) of _check_retention
  MaxTime, MaxPosts, MaxRollbacks, MaxOwnerOps    \* bounds of the exploration

Live == {"active", "scheduled"}

ASSUME ModelAssumption ==
  /\ Targets \subseteq Nat
  /\ NoTarget \notin Targets
  /\ CampaignOf \in [Targets -> Campaigns]
  /\ ChannelOf \in [Targets -> Channels]
  /\ ListOf \in [Targets -> Lists]
  /\ PlannedAt \in [Targets -> Nat]
  /\ Retention \in [Campaigns -> Nat]
  /\ Malformed \subseteq Campaigns
  /\ Flaky \subseteq Lists
  /\ EmptyAnswers \subseteq Targets
  /\ EarlierStrikes \in [Channels -> 0 .. 2]
  /\ Builds \subseteq BOOLEAN
  /\ Starting \subseteq Live
  /\ PublishLimit \in Nat /\ RetentionLimit \in Nat
  /\ MaxTime \in Nat /\ MaxPosts \in Nat /\ MaxRollbacks \in Nat /\ MaxOwnerOps \in Nat

VARIABLES
  now,         \* the clock: utc_now()
  target,      \* committed campaign_targets rows
  campaign,    \* committed campaigns.status
  channel,     \* committed channels rows
  violation,   \* committed violations rows of type early_ad_deletion
  online,      \* lists with an active account whose client is connected
  castable,    \* the library of this process takes .cast(int): never changes
  posted,      \* Rubika: copies of a target's message that were ever posted
  gone,        \* Rubika: copies a channel administrator has deleted
  pc, todo, cur,   \* worker: where its tick is, targets to visit, target in hand
  got,         \* worker: message id extracted from the forward's answer, 0 if none
  seen,        \* worker: channel row and expiry read before get_message is awaited
  newTarget, newChannel, newCampaign, newViolation,
               \* worker: flushed writes of the open transaction (rows it locks)
  dirty,       \* worker: campaign statuses assigned but not flushed yet
  rows,        \* worker: statuses the reconciliation query asks for, still to be set
  pending,     \* the owner's open transaction
  ownerOps,    \* number of owner transactions so far
  sent, lost,  \* history: forwards of the open tick; forwards of ticks rolled back
  rollbacks    \* number of ticks rolled back so far

db      == <<target, campaign, channel, violation>>
outside == <<online, castable>>
rubika  == <<posted, gone>>
new     == <<newTarget, newChannel, newCampaign, newViolation, dirty>>
session == <<pc, todo, cur, got, seen, new, rows>>
owner   == <<pending, ownerOps>>
history == <<sent, lost, rollbacks>>
vars    == <<now, db, outside, rubika, session, owner, history>>

TargetStatus   == {"planned", "running", "published", "retained", "failed"}
CampaignStatus == {"draft", "scheduled", "active", "paused", "cancelled", "completed", "failed"}
ChannelStatus  == {"pending", "active", "suspended", "removed"}
Settled        == {"retained", "failed"}

Time        == 0 .. MaxTime
TargetRow   == [status : TargetStatus, at : Time, msg : Nat]
ChannelRow  == [status : ChannelStatus, listed : BOOLEAN, count : Nat]
Violation   == [target : Targets, by : Workers, copy : Nat]

\* "this transaction has not written the row"
NoWrite      == "unwritten"
NoTargetRow  == [status |-> NoWrite, at |-> 0, msg |-> 0]
NoChannelRow == [status |-> NoWrite, listed |-> FALSE, count |-> 0]

NoTargetRows   == [t \in Targets |-> NoTargetRow]
NoChannelRows  == [ch \in Channels |-> NoChannelRow]
NoCampaignRows == [c \in Campaigns |-> NoWrite]
NoOwnerWrites == [campaign |-> NoCampaignRows,
                  channel  |-> [ch \in Channels |-> NoWrite]]

-----------------------------------------------------------------------------
(* What a transaction sees, and what it holds.                             *)

TargetIn(w, t) ==
  IF newTarget[w][t] = NoTargetRow THEN target[t] ELSE newTarget[w][t]
CommittedChannel(w, ch) == channel[ch]
ChannelIn(w, ch) ==
  IF newChannel[w][ch] = NoChannelRow THEN channel[ch] ELSE newChannel[w][ch]
CampaignIn(w, c) ==
  IF newCampaign[w][c] = NoWrite THEN campaign[c] ELSE newCampaign[w][c]

\* Another transaction holds the lock of the row: an UPDATE waits.
TargetBusy(w, t)    == \E v \in Workers \ {w} : newTarget[v][t] # NoTargetRow
ChannelBusy(w, ch)  == \E v \in Workers \ {w} : newChannel[v][ch] # NoChannelRow
CampaignBusy(w, c)  == \E v \in Workers \ {w} : newCampaign[v][c] # NoWrite

\* ORDER BY key, id
Earlier(key, u, t) == key[u] < key[t] \/ (key[u] = key[t] /\ u < t)
\* ORDER BY key, id LIMIT n
First(S, key, n) == {t \in S : Cardinality({u \in S : Earlier(key, u, t)}) < n}
IsFirst(S, key, t) == t \in S /\ \A u \in S \ {t} : ~Earlier(key, u, t)

\* PublicationService.due_targets
Due(t) ==
  /\ campaign[CampaignOf[t]] \in Live
  /\ target[t].status = "planned"
  /\ PlannedAt[t] <= now
  /\ channel[ChannelOf[t]].status = "active"

\* A client for the list's active account is connected and the campaign's
\* content_ref can be parsed.
Publishable(t) == ListOf[t] \in online /\ CampaignOf[t] \notin Malformed

TargetsOf(c) == {t \in Targets : CampaignOf[t] = c}

\* What _reconcile_campaigns computes for a campaign from its aggregate query:
\* the status to set, if any, given the statuses of its targets.
VerdictMisspelt(statuses) ==
  CASE statuses \subseteq Settled /\ "retained" \in statuses -> "complete"
    [] OTHER -> NoWrite
VerdictPremature(statuses) ==
  CASE statuses \subseteq Settled \cup {"published"} -> "completed"
    [] OTHER -> NoWrite
VerdictStrict(statuses) ==
  CASE statuses = {"retained"} -> "completed"
    [] statuses \subseteq Settled -> "failed"
    [] OTHER -> NoWrite
VerdictForgetful(statuses) ==
  CASE statuses \subseteq Settled /\ "retained" \in statuses -> "completed"
    [] OTHER -> NoWrite
Verdict(statuses) ==
  CASE statuses \subseteq Settled /\ "retained" \in statuses -> "completed"
    [] statuses = {"failed"} -> "failed"
    [] statuses \cap {"published", "running"} # {} -> "active"
    [] OTHER -> NoWrite

\* The violations of a channel, those of V and the earlier ones.
Strikes(ch, V) == EarlierStrikes[ch] + Cardinality({v \in V : ChannelOf[v.target] = ch})

-----------------------------------------------------------------------------
(* A tick of the worker.                                                   *)

Goto(w, p) == pc' = [pc EXCEPT ![w] = p]
\* Take t in hand; drop it and go on; put down the target in hand.
Take(w, t)  == /\ cur' = [cur EXCEPT ![w] = t]
               /\ todo' = [todo EXCEPT ![w] = @ \ {t}]
SkipRest(w, t) == /\ todo' = [todo EXCEPT ![w] = {}]
                  /\ UNCHANGED <<pc, cur, got, seen, new, rows>>
Skip(w, t)  == /\ todo' = [todo EXCEPT ![w] = @ \ {t}]
               /\ UNCHANGED <<pc, cur, got, seen, new, rows>>
PutDown(w)  == cur' = [cur EXCEPT ![w] = NoTarget]
Unseen == [channel |-> NoChannelRow, expired |-> FALSE]
Forget(w)   == seen' = [seen EXCEPT ![w] = Unseen]
Write(w, row) == /\ newTarget' = [newTarget EXCEPT ![w][cur[w]] = row]
                 /\ UNCHANGED <<newChannel, newCampaign, newViolation, dirty>>
\* The end of the transaction: no writes are left.
Clear(w) == /\ newTarget'  = [newTarget EXCEPT ![w] = NoTargetRows]
            /\ newChannel' = [newChannel EXCEPT ![w] = NoChannelRows]
            /\ newCampaign' = [newCampaign EXCEPT ![w] = NoCampaignRows]
            /\ dirty' = [dirty EXCEPT ![w] = NoCampaignRows]
            /\ newViolation' = [newViolation EXCEPT ![w] = {}]

\* tick(): open the session and select the due targets.
TickBegin(w) ==
  /\ pc[w] = "idle"
  /\ todo' = [todo EXCEPT ![w] = First({t \in Targets : Due(t)}, PlannedAt, PublishLimit)]
  /\ Goto(w, "publish")
  /\ UNCHANGED <<now, db, outside, rubika, cur, got, seen, new, rows, owner, history>>

\* The loop of _publish_due: a target with no connected account, or whose
\* content_ref cannot be parsed, is left planned.
PickTarget(w) ==
  /\ pc[w] = "publish"
  /\ \E t \in todo[w] :
       /\ IsFirst(todo[w], PlannedAt, t)
       /\ IF Publishable(t)
            THEN Take(w, t) /\ Goto(w, "claim") /\ UNCHANGED <<got, seen, new, rows>>
            ELSE Skip(w, t)
  /\ UNCHANGED <<now, db, outside, rubika, owner, history>>

\* PublicationService.claim: UPDATE ... WHERE id = t AND status = 'planned'.
\* It waits for the row's lock, and then looks at the row as it has become.
ClaimableUnchecked(w, t) == TRUE
Claimable(w, t) == TargetIn(w, t).status = "planned"

Claim(w) ==
  LET t == cur[w] IN
  /\ pc[w] = "claim"
  /\ ~TargetBusy(w, t) /\ Claimable(w, t)
  /\ Write(w, [TargetIn(w, t) EXCEPT !.status = "running"])
  /\ Goto(w, "channel")
  /\ UNCHANGED <<now, db, outside, rubika, todo, cur, got, seen, rows, owner, history>>

\* rowcount is not 1: another worker has taken the target.
ClaimRetried(w) == pc[w] = "claim" /\ ~Claimable(w, cur[w]) /\ UNCHANGED vars
ClaimLost(w) ==
  /\ pc[w] = "claim"
  /\ ~TargetBusy(w, cur[w]) /\ ~Claimable(w, cur[w])
  /\ Goto(w, "publish") /\ PutDown(w)
  /\ UNCHANGED <<now, db, outside, rubika, todo, got, seen, new, rows, owner, history>>

\* PublicationService.mark_failed.
Failed(w) == [TargetIn(w, cur[w]) EXCEPT !.status = "failed"]

\* RotationExecutor.execute reads the channel after the claim.
CheckChannel(w) ==
  /\ pc[w] = "channel"
  /\ IF ChannelIn(w, ChannelOf[cur[w]]).status = "active"
       THEN Goto(w, "forward") /\ UNCHANGED <<cur, new>>
       ELSE Write(w, Failed(w)) /\ Goto(w, "publish") /\ PutDown(w)
  /\ UNCHANGED <<now, db, outside, rubika, todo, got, seen, rows, owner, history>>

\* What extract_message_id finds in the answer to a forward of t: the id of the
\* copy just posted, or nothing (0).
AnswerIdsStale(t) == {posted[t], 0}
AnswerIds(t) == {posted[t] + 1, 0}

\* gateway.forward: the message is posted and its id is in the answer, or it
\* is posted and the answer is lost or has no id, or nothing is posted.
Forward(w) ==
  LET t == cur[w] IN
  /\ pc[w] = "forward"
  /\ \/ /\ posted[t] < MaxPosts
        /\ posted' = [posted EXCEPT ![t] = @ + 1]
        /\ sent' = [sent EXCEPT ![w] = @ \cup {t}]
        /\ \E id \in AnswerIds(t) : got' = [got EXCEPT ![w] = id]
     \/ got' = [got EXCEPT ![w] = 0] /\ UNCHANGED <<posted, sent>>
  /\ Goto(w, "record")
  /\ UNCHANGED <<now, db, outside, gone, todo, cur, seen, new, rows, owner, lost, rollbacks>>

\* mark_published, or mark_failed when there is no message id.
OutcomeForgotten(w) ==
  IF got[w] # 0 THEN [status |-> "published", at |-> now, msg |-> got[w]]
                ELSE TargetIn(w, cur[w])
Outcome(w) ==
  IF got[w] # 0 THEN [status |-> "published", at |-> now, msg |-> got[w]] ELSE Failed(w)

\* The outcome is flushed, and with a published one the channel's last_ad_at,
\* a column nothing here depends on but whose update locks the row.
Record(w) ==
  LET ch == ChannelOf[cur[w]] IN
  /\ pc[w] = "record"
  /\ got[w] # 0 => ~ChannelBusy(w, ch)
  /\ newTarget' = [newTarget EXCEPT ![w][cur[w]] = Outcome(w)]
  /\ newChannel' = [newChannel EXCEPT ![w][ch] =
                      IF got[w] # 0 THEN ChannelIn(w, ch) ELSE @]
  /\ Goto(w, "publish") /\ PutDown(w)
  /\ got' = [got EXCEPT ![w] = 0]
  /\ UNCHANGED <<newCampaign, newViolation, dirty, now, db, outside, rubika, todo, seen, rows, owner, history>>

\* _check_retention selects the published targets, its own included.
WatchedEver(w) == {t \in Targets : TargetIn(w, t).msg # 0}
Watched(w) ==
  {t \in Targets : TargetIn(w, t).status = "published" /\ TargetIn(w, t).msg # 0}

NewestFirst(w) == [t \in Targets |-> MaxTime - TargetIn(w, t).at]
PublishedAt(w) == [t \in Targets |-> TargetIn(w, t).at]

RetentionBegin(w) ==
  /\ pc[w] = "publish" /\ todo[w] = {}
  /\ todo' = [todo EXCEPT ![w] = First(Watched(w), PublishedAt(w), RetentionLimit)]
  /\ Goto(w, "retention")
  /\ UNCHANGED <<now, db, outside, rubika, cur, got, seen, new, rows, owner, history>>

\* RetentionMonitor.check up to the await of get_message: the channel row and
\* the comparison of now with the deadline are read BEFORE the answer.
PickPublished(w) ==
  /\ pc[w] = "retention"
  /\ \E t \in todo[w] :
       /\ IsFirst(todo[w], PublishedAt(w), t)
       /\ IF ListOf[t] \in online
            THEN /\ Take(w, t) /\ Goto(w, "check")
                 /\ seen' = [seen EXCEPT ![w] =
                      [channel |-> ChannelIn(w, ChannelOf[t]),
                       expired |-> now >= TargetIn(w, t).at + Retention[CampaignOf[t]]]]
                 /\ UNCHANGED <<got, new, rows>>
            ELSE Skip(w, t)
  /\ UNCHANGED <<now, db, outside, rubika, owner, history>>

\* message_exists may be false for the answer: the copy whose id is recorded has
\* been deleted, or the answer is None, empty or a dictionary with none of the
\* known keys (an error), which message_exists takes for the same.
AnyCopyAbsent(w) == (\E g \in gone : g.target = cur[w]) \/ cur[w] \in EmptyAnswers
Absent(w) ==
  \/ \E g \in gone : g.target = cur[w] /\ g.copy = TargetIn(w, cur[w]).msg
  \/ cur[w] \in EmptyAnswers

\* get_message fails, or the message is there and its window is still open.
CheckQuiet(w) ==
  /\ pc[w] = "check"
  /\ Goto(w, "retention") /\ PutDown(w) /\ Forget(w)
  /\ UNCHANGED <<now, db, outside, rubika, todo, got, new, rows, owner, history>>

\* The window is over, whether or not the message is still there.
Retain(w) ==
  /\ pc[w] = "check"
  /\ seen[w].expired
  /\ ~TargetBusy(w, cur[w])
  /\ Write(w, [TargetIn(w, cur[w]) EXCEPT !.status = "retained"])
  /\ Goto(w, "retention") /\ PutDown(w) /\ Forget(w)
  /\ UNCHANGED <<now, db, outside, rubika, todo, got, rows, owner, history>>

\* The violation rows after this one is inserted, and the strikes against the
\* channel: counted after the flush that takes the channel's lock.
Recorded(w) ==
  newViolation[w] \cup
    {[target |-> cur[w], by |-> w, copy |-> TargetIn(w, cur[w]).msg]}
StrikesFromCounter(w) == seen[w].channel.count + 1
StrikesAfter(w) == Strikes(ChannelOf[cur[w]], violation \cup Recorded(w))

\* The channel row after the violation.  A column is written only when it
\* differs from what the session loaded.
Punished(w) ==
  LET row == [ChannelIn(w, ChannelOf[cur[w]]) EXCEPT !.count = seen[w].channel.count + 1]
  IN  IF StrikesAfter(w) >= 3
        THEN [row EXCEPT
               !.status = IF seen[w].channel.status = "removed" THEN @ ELSE "removed",
               !.listed = IF seen[w].channel.listed THEN FALSE ELSE @]
        ELSE row

\* The message is taken for absent before the deadline: a violation, and the third one
\* removes the channel.
Penalise(w) ==
  /\ pc[w] = "check"
  /\ Absent(w) /\ ~seen[w].expired
  /\ ~TargetBusy(w, cur[w]) /\ ~ChannelBusy(w, ChannelOf[cur[w]])
  /\ newTarget' = [newTarget EXCEPT ![w][cur[w]] = Failed(w)]
  /\ newViolation' = [newViolation EXCEPT ![w] = Recorded(w)]
  /\ newChannel' = [newChannel EXCEPT ![w][ChannelOf[cur[w]]] = Punished(w)]
  /\ Goto(w, "retention") /\ PutDown(w) /\ Forget(w)
  /\ UNCHANGED <<newCampaign, dirty, now, db, outside, rubika, todo, got, rows, owner, history>>

\* The aggregate query of _reconcile_campaigns, where the library takes int for
\* the type of a cast.
ReconcileBegin(w) ==
  /\ pc[w] = "retention" /\ todo[w] = {}
  /\ castable
  /\ rows' = [rows EXCEPT ![w] = [c \in Campaigns |->
       IF CampaignIn(w, c) \in Live /\ TargetsOf(c) # {}
         THEN Verdict({TargetIn(w, t).status : t \in TargetsOf(c)}) ELSE NoWrite]]
  /\ Goto(w, "reconcile")
  /\ UNCHANGED <<now, db, outside, rubika, todo, cur, got, seen, new, owner, history>>

\* db.get of one campaign of the result flushes the one before it, and the
\* new status is assigned to what the get returned.
Flushable(w) == \A c \in Campaigns : dirty[w][c] # NoWrite => ~CampaignBusy(w, c)
Flushed(w) == [c \in Campaigns |->
                 IF dirty[w][c] # NoWrite THEN dirty[w][c] ELSE newCampaign[w][c]]
Reconcile(w) ==
  /\ pc[w] = "reconcile"
  /\ Flushable(w)
  /\ \E c \in Campaigns :
       /\ rows[w][c] # NoWrite
       /\ rows' = [rows EXCEPT ![w][c] = NoWrite]
       /\ newCampaign' = [newCampaign EXCEPT ![w] = Flushed(w)]
       /\ dirty' = [dirty EXCEPT ![w] = [NoCampaignRows EXCEPT ![c] =
                       IF CampaignIn(w, c) = rows[w][c] THEN NoWrite ELSE rows[w][c]]]
  /\ UNCHANGED <<newTarget, newChannel, newViolation, now, db, outside, rubika, pc, todo, cur, got, seen, owner, history>>

\* db.commit() at the end of tick().
Commit(w) ==
  /\ pc[w] = "reconcile"
  /\ \A c \in Campaigns : rows[w][c] = NoWrite
  /\ Flushable(w)
  /\ target' = [t \in Targets |-> TargetIn(w, t)]
  /\ channel' = [ch \in Channels |-> ChannelIn(w, ch)]
  /\ campaign' = [c \in Campaigns |->
                    IF Flushed(w)[c] # NoWrite THEN Flushed(w)[c] ELSE campaign[c]]
  /\ violation' = violation \cup newViolation[w]
  /\ Clear(w) /\ Goto(w, "idle")
  /\ sent' = [sent EXCEPT ![w] = {}]
  /\ UNCHANGED <<now, outside, rubika, todo, cur, got, seen, rows, owner, lost, rollbacks>>

Step(w) ==
  \/ TickBegin(w) \/ PickTarget(w) \/ Claim(w) \/ ClaimLost(w)
  \/ CheckChannel(w) \/ Forward(w)
  \/ Record(w) \/ RetentionBegin(w) \/ PickPublished(w) \/ CheckQuiet(w)
  \/ Retain(w) \/ Penalise(w) \/ ReconcileBegin(w) \/ Reconcile(w) \/ Commit(w)

\* The transaction is rolled back; the next tick starts afresh.
Abort(w) ==
  /\ pc[w] # "idle"
  /\ Clear(w)
  /\ rows' = [rows EXCEPT ![w] = NoCampaignRows]
  /\ todo' = [todo EXCEPT ![w] = {}]
  /\ got' = [got EXCEPT ![w] = 0]
  /\ lost' = [t \in Targets |-> lost[t] + (IF t \in sent[w] THEN 1 ELSE 0)]
  /\ sent' = [sent EXCEPT ![w] = {}]
  /\ Goto(w, "idle") /\ PutDown(w) /\ Forget(w)
  /\ UNCHANGED <<now, db, outside, rubika, owner>>

\* An exception leaves tick(), or the process ends.
Rollback(w) ==
  /\ rollbacks < MaxRollbacks
  /\ rollbacks' = rollbacks + 1
  /\ Abort(w)

\* The library refuses the Python type int as the type of a cast: building the
\* aggregate query raises, run() logs the exception, and nothing of the tick is
\* ever committed.
QueryRefused(w) ==
  /\ pc[w] = "retention" /\ todo[w] = {}
  /\ ~castable
  /\ Abort(w)
  /\ UNCHANGED rollbacks

\* PostgreSQL aborts one of the transactions that wait for one another.
WaitsFor(w) == {v \in Workers \ {w} :
  \/ pc[w] = "claim" /\ newTarget[v][cur[w]] # NoTargetRow
  \/ pc[w] = "check" /\ (seen[w].expired \/ Absent(w))
       /\ newTarget[v][cur[w]] # NoTargetRow
  \/ pc[w] = "check" /\ ~seen[w].expired /\ Absent(w)
       /\ newChannel[v][ChannelOf[cur[w]]] # NoChannelRow
  \/ pc[w] = "record" /\ got[w] # 0 /\ newChannel[v][ChannelOf[cur[w]]] # NoChannelRow
  \/ pc[w] = "reconcile" /\ \E c \in Campaigns : dirty[w][c] # NoWrite
                                                  /\ newCampaign[v][c] # NoWrite}
Deadlocked(w) == \E D \in SUBSET Workers : w \in D /\ \A v \in D : WaitsFor(v) \cap D # {}
DeadlockVictim(w) == Deadlocked(w) /\ Abort(w) /\ UNCHANGED rollbacks

-----------------------------------------------------------------------------
(* The owner's confirmed operations.  Each loads the rows it changes, sets  *)
(* them, and commits; only a column that differs is written.                *)

OwnerIdle == pending = NoOwnerWrites
Changed(old, value) == IF old = value THEN NoWrite ELSE value

OwnerOp(campaigns, channels) ==
  /\ OwnerIdle /\ ownerOps < MaxOwnerOps
  /\ pending' = [campaign |-> campaigns, channel |-> channels]
  /\ ownerOps' = ownerOps + 1
  /\ UNCHANGED <<now, db, outside, rubika, session, history>>

CancelCampaign(c) ==
  OwnerOp([NoOwnerWrites.campaign EXCEPT ![c] = Changed(campaign[c], "cancelled")],
          NoOwnerWrites.channel)
ToggleCampaign(c) ==
  OwnerOp([NoOwnerWrites.campaign EXCEPT ![c] =
             IF campaign[c] \in Live THEN "paused" ELSE "active"],
          NoOwnerWrites.channel)
EmergencyStop ==
  OwnerOp([c \in Campaigns |-> IF campaign[c] \in Live THEN "paused" ELSE NoWrite],
          NoOwnerWrites.channel)
SuspendChannel(ch) ==
  OwnerOp(NoOwnerWrites.campaign,
          [NoOwnerWrites.channel EXCEPT ![ch] = Changed(channel[ch].status, "suspended")])
RemoveChannel(ch) ==
  OwnerOp(NoOwnerWrites.campaign,
          [NoOwnerWrites.channel EXCEPT ![ch] = Changed(channel[ch].status, "removed")])

OwnerCommit ==
  /\ ~OwnerIdle
  /\ \A w \in Workers :
       /\ \A c \in Campaigns : pending.campaign[c] # NoWrite => newCampaign[w][c] = NoWrite
       /\ \A ch \in Channels :
            pending.channel[ch] # NoWrite => newChannel[w][ch] = NoChannelRow
  /\ campaign' = [c \in Campaigns |->
       IF pending.campaign[c] # NoWrite THEN pending.campaign[c] ELSE campaign[c]]
  /\ channel' = [ch \in Channels |->
       IF pending.channel[ch] # NoWrite
         THEN [channel[ch] EXCEPT !.status = pending.channel[ch]] ELSE channel[ch]]
  /\ pending' = NoOwnerWrites
  /\ UNCHANGED <<now, target, violation, outside, rubika, session, ownerOps, history>>

Owner ==
  \/ \E c \in Campaigns : CancelCampaign(c) \/ ToggleCampaign(c)
  \/ EmergencyStop
  \/ \E ch \in Channels : SuspendChannel(ch) \/ RemoveChannel(ch)

-----------------------------------------------------------------------------
(* The world outside.                                                       *)

ClockTick ==
  /\ now < MaxTime
  /\ now' = now + 1
  /\ UNCHANGED <<db, outside, rubika, session, owner, history>>

\* A channel administrator deletes a posted copy.
DeletePost(t) ==
  /\ \E copy \in 1 .. posted[t] :
       /\ \A g \in gone : g.target # t \/ g.copy # copy
       /\ gone' = gone \cup {[target |-> t, copy |-> copy]}
  /\ UNCHANGED <<now, db, outside, posted, session, owner, history>>

\* The account of a list goes offline, or is connected again.
AccountChange(l) ==
  /\ online' = IF l \in online THEN online \ {l} ELSE online \cup {l}
  /\ UNCHANGED <<castable, now, db, rubika, session, owner, history>>

World ==
  \/ ClockTick
  \/ \E t \in Targets : DeletePost(t)
  \/ \E l \in Flaky : AccountChange(l)

Init ==
  /\ now = 0
  /\ target = [t \in Targets |-> [status |-> "planned", at |-> 0, msg |-> 0]]
  /\ campaign \in [Campaigns -> Starting]
  /\ channel = [ch \in Channels |-> [status |-> "active", listed |-> TRUE,
                                   count |-> EarlierStrikes[ch]]]
  /\ violation = {}
  /\ online = Lists
  /\ castable \in Builds
  /\ posted = [t \in Targets |-> 0] /\ gone = {}
  /\ pc = [w \in Workers |-> "idle"]
  /\ todo = [w \in Workers |-> {}]
  /\ cur = [w \in Workers |-> NoTarget]
  /\ got = [w \in Workers |-> 0]
  /\ seen = [w \in Workers |-> Unseen]
  /\ newTarget = [w \in Workers |-> NoTargetRows]
  /\ newChannel = [w \in Workers |-> NoChannelRows]
  /\ newCampaign = [w \in Workers |-> NoCampaignRows]
  /\ newViolation = [w \in Workers |-> {}]
  /\ dirty = [w \in Workers |-> NoCampaignRows]
  /\ rows = [w \in Workers |-> NoCampaignRows]
  /\ pending = NoOwnerWrites /\ ownerOps = 0
  /\ sent = [w \in Workers |-> {}]
  /\ lost = [t \in Targets |-> 0]
  /\ rollbacks = 0

Next ==
  \/ \E w \in Workers : Step(w) \/ QueryRefused(w) \/ Rollback(w) \/ DeadlockVictim(w)
  \/ Owner \/ OwnerCommit
  \/ World

Spec == Init /\ [][Next]_vars

\* run() loops for ever and catches what a tick raises, and a call of the
\* gateway ends with an answer or an exception; a transaction that waits for a
\* row has it when the holder ends, since the holder's next tick is an interval
\* away (SF of Step); PostgreSQL looks for deadlocks.
TickFairness ==
  /\ \A w \in Workers : SF_vars(Step(w) \/ QueryRefused(w))
  /\ WF_vars(\E w \in Workers : DeadlockVictim(w))
TickSpec == Spec /\ TickFairness

\* get_message does not fail every time (SF of Retain); the clock moves.
Fairness ==
  /\ TickFairness
  /\ \A w \in Workers : SF_vars(Retain(w))
  /\ WF_vars(OwnerCommit)
  /\ WF_vars(ClockTick)
LiveSpec == Spec /\ Fairness

-----------------------------------------------------------------------------
(* Properties.                                                              *)

Stage == {"idle", "publish", "claim", "channel", "forward", "record",
          "retention", "check", "reconcile"}
CampaignWrites == [Campaigns -> CampaignStatus \cup {NoWrite}]

\* Every variable has its type.
TypeOK ==
  /\ now \in Time
  /\ target \in [Targets -> TargetRow]
  /\ campaign \in [Campaigns -> CampaignStatus]
  /\ channel \in [Channels -> ChannelRow]
  /\ violation \subseteq Violation
  /\ online \subseteq Lists
  /\ castable \in BOOLEAN
  /\ posted \in [Targets -> Nat]
  /\ gone \subseteq [target : Targets, copy : Nat]
  /\ pc \in [Workers -> Stage]
  /\ todo \in [Workers -> SUBSET Targets]
  /\ cur \in [Workers -> Targets \cup {NoTarget}]
  /\ got \in [Workers -> Nat]
  /\ seen \in [Workers -> [channel : ChannelRow \cup {NoChannelRow}, expired : BOOLEAN]]
  /\ newTarget \in [Workers -> [Targets -> TargetRow \cup {NoTargetRow}]]
  /\ newChannel \in [Workers -> [Channels -> ChannelRow \cup {NoChannelRow}]]
  /\ newCampaign \in [Workers -> CampaignWrites]
  /\ newViolation \in [Workers -> SUBSET Violation]
  /\ dirty \in [Workers -> CampaignWrites]
  /\ rows \in [Workers -> CampaignWrites]
  /\ pending \in [campaign : CampaignWrites,
                  channel : [Channels -> ChannelStatus \cup {NoWrite}]]
  /\ ownerOps \in Nat
  /\ sent \in [Workers -> SUBSET Targets]
  /\ lost \in [Targets -> Nat]
  /\ rollbacks \in Nat

\* However many workers run, a target is posted at most once more than the
\* number of ticks that posted it and were rolled back: the claim
\* (PublicationService.claim) makes concurrent workers safe, and only a tick
\* that is lost after its forward can make the network post twice.
NoDoublePost == \A t \in Targets : posted[t] <= lost[t] + 1

\* A target is posted at most once (README "Idempotent publication target
\* states").  The forward is not undone when its tick is rolled back.
AtMostOnePost == \A t \in Targets : posted[t] <= 1

\* A claim that is not followed by its outcome is never visible: whatever
\* happens in a tick, no committed row is left "running", so no target needs
\* to be rescued from a worker that died (claim and mark_* share a commit).
NoStrandedClaim == \A t \in Targets : target[t].status # "running"

\* The message the retention monitor watches is the last copy that was posted:
\* copies that belong to lost ticks are older, and nobody watches them.
WatchesLastCopy ==
  \A t \in Targets : target[t].status \in {"published", "retained"} =>
                       target[t].msg > 0 /\ target[t].msg = posted[t]

\* A committed violation is about a failed target whose watched message was
\* deleted, unless get_message may answer nothing for it, and no target is
\* punished twice (RetentionMonitor.check).
WasDeleted(v) == \E g \in gone : g.target = v.target /\ g.copy = v.copy
StrikeJustified ==
  /\ \A v \in violation :
       /\ target[v.target].status = "failed" /\ target[v.target].msg = v.copy
       /\ WasDeleted(v) \/ v.target \in EmptyAnswers
  /\ \A u, v \in violation : u.target = v.target => u = v

\* Every strike is for a message that was deleted, as the note of the violation
\* says (retention_monitor.py:88).
StrikesAreDeletions == \A v \in violation : WasDeleted(v)

\* A channel with three committed early deletions is out of the rotation, even
\* when the strikes come from ticks that overlap.
ThreeStrikesOut ==
  \A ch \in Channels : Strikes(ch, violation) >= 3 => channel[ch].status # "active"

\* The counter shown to admins is the number of violations recorded.
CountMatchesViolations ==
  \A ch \in Channels : channel[ch].count = Strikes(ch, violation)

\* A campaign the reconciliation closed has no target left to publish or to
\* watch, although its verdict was computed from an uncommitted view.
ClosedIsSettled ==
  \A c \in Campaigns : campaign[c] \in {"completed", "failed"} =>
    \A t \in TargetsOf(c) : target[t].status \in Settled

\* "completed" means that some target of the campaign was retained.
ClosedOutcome ==
  \A c \in Campaigns : campaign[c] \in {"completed", "failed"} =>
    (campaign[c] = "completed" <=> \E t \in TargetsOf(c) : target[t].status = "retained")

\* A campaign the owner stopped is not put back on the air by anybody else: the
\* emergency stop answers "N campaigns were stopped" (owner_inline.py:207).
StoppedStaysOffAir ==
  [][\A c \in Campaigns :
       campaign[c] \in {"paused", "cancelled"} /\ campaign'[c] \in Live
         => ~OwnerIdle /\ OwnerIdle']_vars

\* The worker implements the lifecycle a target is promised: posts only while
\* the target is planned for everybody, and no outcome is ever taken back.
Lifecycle == INSTANCE TargetLifecycle
               WITH status <- [t \in Targets |-> target[t].status], copies <- posted
ImplementsLifecycle == Lifecycle!Spec

\* A tick never waits for ever: ticks that lock rows in different orders are
\* told apart, and every tick ends and is followed by another.
TickEnds == \A w \in Workers : pc[w] # "idle" ~> pc[w] = "idle"

\* Targets that cannot be published keep their place at the head of the query
\* (due_targets, limit 50) and come back in every tick; so do the published ones
\* at the head of the retention query (limit 100) whose account is away or whose
\* window is open.  As many of them as the query returns hide what is behind.
HiddenFromPublishing(t) ==
  Cardinality({u \in Targets : Due(u) /\ ~Publishable(u) /\ Earlier(PlannedAt, u, t)})
    >= PublishLimit
Waiting(t) == target[t].status = "published"
WindowOver(t) == now >= target[t].at + Retention[CampaignOf[t]]
HiddenFromRetention(t) ==
  Cardinality({u \in Targets : /\ Waiting(u)
                               /\ ListOf[u] \notin online \/ ~WindowOver(u)
                               /\ Earlier([v \in Targets |-> target[v].at], u, t)})
    >= RetentionLimit

\* Where the library takes the cast, a due target whose account is connected is
\* eventually taken out of "planned", or stops being due, unless the targets that
\* cannot be published fill the query before it.
DueIsPublished ==
  \A t \in Targets :
    castable /\ Due(t) /\ Publishable(t)
      ~> ~(Due(t) /\ Publishable(t)) \/ HiddenFromPublishing(t)

\* Where the library takes the cast, a published message is eventually settled
\* once its window is over, unless its account goes away or those that have to
\* wait fill the retention query before it.
PublishedIsSettled ==
  \A t \in Targets :
    castable /\ Waiting(t) /\ WindowOver(t)
      ~> ~Waiting(t) \/ ListOf[t] \notin online \/ HiddenFromRetention(t)

\* Where the library takes the cast, a live campaign all of whose targets are
\* settled is eventually closed.
SettledIsClosed ==
  \A c \in Campaigns :
    (castable /\ TargetsOf(c) # {} /\ campaign[c] \in Live
       /\ \A t \in TargetsOf(c) : target[t].status \in Settled)
      ~> campaign[c] \notin Live

=============================================================================
