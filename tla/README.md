# Verification of the Rubika advertising network

TLA+ specifications of the advertising network in `src/`, checked with TLC, and proved
with TLAPS in their safety properties. Paths in this document are relative
to `src/src/ad_network/` unless they say otherwise.

The program is one process: three Rubika bots (user, admin, owner), a worker
that publishes advertisements and watches that they stay, and a loop that keeps
the accounts it posts with connected. All of it shares one database. Nothing in
the process locks anything else: what keeps the parts apart are PostgreSQL's
transactions, a few conditional updates and unique constraints, and one
`SELECT ... FOR UPDATE`. What is hard about the program is therefore what may
happen **between two awaits of one transaction**, and **what a rollback does not
undo**, namely messages that were already posted. The specifications are
written around these two questions, and around a third one for what is not in the
database: what may happen **between two awaits of one coroutine** to the tables that
are only in memory (the registry of live clients, the updates that were seen, the
conversations).

## 1. Inventory

| Component | State | Operations | Behaviours that are hard |
|---|---|---|---|
| Publication worker: `infrastructure/network_worker.py`, `core/publisher.py`, `core/retention_monitor.py` | rows of `campaign_targets`, `campaigns`, `channels`, `violations`; messages on Rubika | one tick: publish what is due, check what is published, reconcile campaigns, commit | several workers; a rollback after a forward; answers that are lost; a clock read before an await; row locks taken in different orders; queries with a limit |
| Owner operations: `bots/owner_bot.py`, `bots/owner_inline.py` | `campaigns.status`, `channels.status`, `ad_orders.status`, `lists` | cancel, pause and resume, emergency stop, suspend, remove, archive | they write blindly what the worker writes too |
| Registration: `core/services.py`, driven by `bots/user_bot.py` and `bots/admin_bot.py` | `registration_requests`, `channels`, `lists.next_channel_number` | submit, check permissions, approve, reject | concurrent decisions; the code counter; flushes in the middle of a handler; requests left open |
| Orders and payments: `core/commerce.py`, `core/payments.py`, `core/campaigns.py` | `ad_orders`, `payments`, `campaigns`, `campaign_targets` | place an order, confirm its payment, cancel it | two confirmations; cancellation meanwhile; channels that leave; failure half way |
| List accounts: `core/list_accounts.py`, `core/account_runtime.py`, `core/account_management.py`, `adapters/list_account.py`, `bots/account_routes.py` | `list_accounts`; registry of live clients; their session files | bind, replace, disable, connect, disconnect, synchronise | connect awaits between look-up and bind; a connection that hangs; a client closed while it is used |
| Process runtime: `infrastructure/runtime.py`, `main.py`, `bootstrap.py` | tasks, stop event | start, restart a bot, shut down | restarts, order of the shutdown |
| Update deduplication: `bots/common.py` | table of updates seen in the last 30 s | `is_duplicate_update` | marks before handling; shared by three bots; clicks have no key |
| Conversations: `bots/user_bot.py`, `bots/owner_bot.py`, `bots/admin_bot.py` | `_STATES`, one dictionary per bot and process | menus, forms, confirmations | lost at a restart; two messages of one person at once; a state read before an await and replaced after it |
| Roles: `core/roles.py` | `users`, cache of user names | who may do what | cached names |
| Rubika gateway: `adapters/rubika.py`, `application/ports.py` | none | forward, get message, check access | answers of several shapes, and answers of none |
| Unused: `core/order_flow.py`, `core/publication_worker.py`, `core/retention.py`, `core/emergency_state.py`, `core/session.py`, `bots/account_routes.py`, `RotationPlanner`, `mark_permissions`, `plan_operation`, `settle`, `record_list_earning` | | no caller in the program as it is wired | |

How they meet: the bots' handlers and the worker never call each other. An order
that is confirmed inserts a campaign and its targets, which the worker finds by a
query; the worker's third strike against a channel takes it out of its list,
which registration and the choice of targets see; an account the reconciliation
loop has connected is found by the worker in a shared dictionary.

What makes each part correct:

* worker: a target is posted once, its outcome says what happened, the message
  that is watched is the one that was posted, only real and early deletions are
  punished, three of them remove the channel, campaigns end when they are done, and
  what cannot be published or has to wait does not stop the rest;
* owner: what is stopped stays stopped;
* registration: a channel is on the air only with permissions Rubika has
  confirmed and a code nobody else has; codes come in sequence; what was removed
  stays out;
* orders: payment, campaign and targets appear together and match; cancelled
  orders stay cancelled;
* accounts: the registry converges to the active accounts of the table, with one
  live client each;
* runtime: a bot that stops is started again; the shutdown ends, with no task and
  no client left behind;
* deduplication and conversations: what was asked for once is done once, also when
  an update is delivered twice; one message answers one question; an operation is
  confirmed by a message that was sent after it was asked for.

`PROJECT.json` lists under `hazards` each place in the code where one of these
may break, and the property that would show it.

## 2. Modules

| Module | What it is |
|---|---|
| `Publication` | the worker's ticks, the owner's operations on the same rows, the Rubika servers and the channels' administrators |
| `TargetLifecycle` | abstract: what the network promises about one target |
| `MCPublication` | instances of `Publication` for TLC |
| `PublicationProofs` | proofs about `Publication`: types, posts and claims |
| `OutcomeProofs` | proofs about `Publication`: message ids, outcomes, strikes, closed campaigns, and that it implements `TargetLifecycle` |
| `Registration` | submissions, permission checks and decisions about channels |
| `MCRegistration`, `RegistrationProofs` | its instances and its proofs |
| `Commerce` | orders, payments and the creation of campaigns |
| `MCCommerce`, `CommerceProofs` | its instance and its proofs |
| `Accounts` | the registry of live clients; `connect` and `disconnect` as coroutines |
| `Runtime` | the process around them: boot, the five tasks, the synchronisation, the account handlers, an interrupt, the shutdown; extends `Accounts` |
| `MCRuntime`, `RuntimeProofs` | its instance; proofs about `Accounts` and `Runtime` |
| `Updates` | what the three bots share: the table of seen updates, handlers that overlap, redelivery, restarts |
| `UserBot`, `StaffBots` | the conversations of the user bot, and of the owner and the admin bot; both extend `Updates` |
| `Bots` | the three bots in one process, and what is promised about them |
| `MCBots`, `BotsProofs` | its instance and its proofs |

### How transactions are modelled

One handler, or one tick, is one SQLAlchemy session and one PostgreSQL
transaction at READ COMMITTED (the default, `core/db.py` sets nothing else).
Every statement another transaction may come before is an action:

* a **read** takes the committed row, or the row the transaction has flushed
  itself, as it is at that moment;
* a **flush** writes the columns that differ from what the session has *loaded*,
  on top of the row as it *is* (`Punished`, `Merged`), and holds its lock: the
  written row is kept in the transaction's own state (`newTarget`, `newChannel`,
  ... in `Publication`; `tx[h].row` in `Registration`) and any other writer's
  guard waits for it;
* **autoflush** is part of the action whose query causes it: the `db.get` in the
  loop of `_reconcile_campaigns` flushes the campaign before (`Reconcile`), the
  query of `allocate_channel_code` flushes the channel half changed (`Activate`);
* **Commit** makes the writes visible at once; **Rollback**, **Abort** and
  **Fail** forget them, and only them: what was sent to Rubika stays sent.

### Publication

| In the module | In the code |
|---|---|
| `TickBegin`, `PickTarget` | `tick`, `_publish_due`, `PublicationService.due_targets` |
| `Claim`, `ClaimLost` | `PublicationService.claim`: `UPDATE ... WHERE status = 'planned'`, `rowcount` |
| `CheckChannel`, `Forward`, `Record` | `RotationExecutor.execute`, `extract_message_id`, `mark_published`, `mark_failed` |
| `RetentionBegin`, `PickPublished`, `CheckQuiet`, `Retain`, `Penalise` | `_check_retention`, `RetentionMonitor.check` |
| `ReconcileBegin`, `Reconcile`, `Commit` | `_reconcile_campaigns`, the commit of `tick` |
| `QueryRefused` | `_reconcile_campaigns` where the library refuses `.cast(int)` |
| `Rollback`, `DeadlockVictim` | an exception leaves `tick`, the process ends; PostgreSQL's deadlock detector |
| `Owner`, `OwnerCommit` | the confirmed operations and the emergency stop |
| `World` | the clock, deletions by administrators, accounts that go and come |

A forward has the outcomes the gateway can have: posted and answered with an id,
posted with the answer lost or without an id, not posted. `get_message` fails, or
answers; and `message_exists` takes None, an empty answer and a dictionary without
the keys it knows for a message that is gone. `Absent` says when it does: the watched
copy was deleted, or the target is one of `EmptyAnswers`, for which such answers may
come.

The history variables `sent` and `lost` count the forwards of ticks that were
rolled back; `gone` remembers which copies were deleted, `posted` how many copies
there are. The code has none of the four; the properties are about them.

**Two builds of the library.** `_reconcile_campaigns` casts to the Python type `int`
(`infrastructure/network_worker.py:116-118`), which is not an SQLAlchemy type.
`castable` is drawn once for a process and never changes. Where it is true the
aggregate is what it is meant to be, a sum of 0 and 1 (`ReconcileBegin`, `Verdict`);
where it is false every tick raises at that point, after its forwards, and is rolled
back (`QueryRefused`). The safety properties and the theorems hold in both; the
liveness properties name `castable` in their premise, for without it nothing a tick
does is ever committed. `PubDuplicate` shows what then happens instead.

### Registration

`tx[h]` is the open transaction of handler `h`: `stage` is the statement it is
about to run, `seen` the channel row it has loaded, `row` the row it has flushed
and locks, `number` the code it has taken (with the lock of the list, which
`FOR UPDATE` holds until the end). `Submit` and `Lookup` are
`RegistrationService.start` and `submit_for_verification`; `Choose` the select at
the head of the three admin handlers; `Load`, `Ask`, `Activate`, `Allocate` and
`Decide` the statements of `verify`, `verify_from_rubika` and
`allocate_channel_code`. `Strike`, `Suspend` and `Remove` are what the worker and
the owner do to channels meanwhile. Codes are their numbers: `#{number:03d}` is
injective, and nothing here depends on the order of the strings.

### Commerce

`Place` is a user's whole transaction, since nobody knows the rows it inserts
before it commits. A confirmation is one action per statement of
`confirm_payment`, `create_campaign` and `target_list`. `scheduled_at` has no
writer in the program, so a campaign is active at once and an order is never
"scheduled". Price rules have no writer either; an order that reaches the table
has its price. `CampaignMoves` is everybody else who writes a campaign's status: the
reconciliation, the owner's cancellation and toggle, and the emergency stop. All of
them write on top of what they read a statement before, so that any status may follow
any other.

### Accounts and Runtime

asyncio runs a coroutine from one await to the next without interruption. A call of
`connect` or `disconnect` is therefore two or three steps: up to the first await,
from one await to the next, and from the last one to the end. `call[p]` is the call
the coroutine `p` is in, and at which await.

| In the module | In the code |
|---|---|
| `Connect`, `Disconnect` | `ListAccountRuntime.connect`, `disconnect` up to the first await |
| `Started`, `StartFails` | `await client.start()` returns and the client is bound; it raises or is cancelled, before or after it has connected |
| `Closed`, `CloseFails`, `Unbind` | `await result` in `disconnect`, and its `finally` |
| `Load`, `SessionCloses`, `LoadFails`, `Drop`, `Visit`, `RoundDone`, `SyncWakes` | `_sync_accounts_once`, `sync_active_accounts`, `_sync_accounts_loop` |
| `SyncAnswered`, `SyncCancelled` | the answers to the awaits of the synchronisation |
| `BotReturns`, `BotWakes`, `WorkerStops` | `BotSupervisor.run`, `_sleep_or_stop`, `NetworkWorker.run` |
| `Interrupt`, `Unwind` | a SIGINT cancels `main`; `gather` raises and the `finally` of `main` runs |
| `CloseBot`, `CancelTasks`, `Gathered`, `DisconnectNext`, `End` | `shutdown`, statement by statement |
| `Delivered` | a cancellation reaches a task at the await it is in |
| `RouteAssigns`, `RouteDisables`, `RouteTests`, `RouteAnswered` | `account_text`, `account_button` with `AccountManagementService` |

A step of the synchronisation that does not end at an await is followed by its next
one: `Parked` keeps everybody else out until then. The first synchronisation, which
`run` awaits before it creates any task, is the same coroutine in the phase "boot";
a connection that hangs there keeps the whole program from starting, and the model
has that behaviour.

No bot registers the account handlers today. They are modelled because `connect` and
`disconnect` are written for more than one caller, and they are what makes the rows
change while the process runs; their transaction, from the load to the commit, is one
step, and `bind` after it is theirs too. A handler is not one of the tasks that
`shutdown` cancels, so that one in flight may bind a client after the clients were
listed (`EndsClean` says of which accounts).

The rows of a round arrive before the session that read them is closed, and that close
is awaited too: the clients to drop are listed after it (`SessionCloses`).

A `Messenger` object has a number of its own, which is used again when nothing holds
the object. `stranded` and `raced` remember what the code cannot know: a client that
was left connected by a `start` or a `close` that raised or was cancelled, and an
account with two calls in it at once. A SIGTERM, which nothing handles, and a second SIGINT end the process without a
shutdown; what follows is the initial state, with any table.

### Updates, UserBot, StaffBots and Bots

| In the module | In the code |
|---|---|
| `Receives`, `ReceivesAgain`, `Duplicate`, `Lapse` | `update_key`, `is_duplicate_update` and its window of 30 seconds |
| `UserResolved` | the handlers of the user bot from `await resolve_user` on: `_clear_state`, `_start_state`, `_handle_state` |
| `UserFinishes` | `_finish_register`, `_finish_ad`, `_finish_support` |
| `OwnerPress`, `AdminPress`, `Menu`, `Message` | `on_callback`, `on_message`, `action`, `handle` up to the sender's rights |
| `ListType` .. `ListCapacity`, `CapacityChecked`, `CreateList` | the steps of the list form |
| `CarryOut`, `Recruit` | the confirmed operation; the admin's lead |
| `Denied`, `Refused`, `Popping` | no rights; an error or a wrong answer; the state is removed after the commit |

The three conversations differ in **when the state is changed**. The user bot looks
and changes it between two awaits, and forgets it *before* it awaits the submission.
The owner and the admin bot look, await the sender's rights and the transaction, and
change the state afterwards, by the key and not by what they have read: whatever is
pending by then is removed. `conv` and `pend` are these dictionaries; `form` is the
dictionary of answers each press of "create a list" makes, which handlers share.

An update's id is its place among those that are taken up; a press of an inline button
has no key (`update_key`), so that its second delivery is one more press. The key of a
message names its sender and its number and not the bot, while the bots share the
table, so that a message may be dropped because another bot has seen its key. A first
delivery that is dropped changes nothing and is no step of the model; a second one may
be dropped also when the entry of the first is gone (`ReceivesAgain`). `done` is what was
committed, for whom, asked for by which update and confirmed by which. `mixed` are the
persons two of whose updates were in handling at once, `renewed` the updates whose
entry in the table is gone, by time or by a restart. Whether the SDK lets handlers
overlap cannot be seen in `src/`: `Slots` with one element is an SDK that does not.
What the properties promise only to persons who are not in `mixed` is what the code
owes to the SDK, and they say so.

Roles are an outcome (`Denied`). The transactions of the user bot's submissions are
one step here; `Registration` and `Commerce` have them statement by statement.

## 3. What the runs check

| Run | Instance | Shows |
|---|---|---|
| `PubSingle` | 1 worker, 3 targets of 2 campaigns, two of them in one channel, one with empty answers, 1 owner operation, time 0..1 | `TypeOK`, `ClosedIsSettled`, `ClosedOutcome`, `CountMatchesViolations` |
| `PubWorkers` | 2 workers, 2 targets of one channel that has a strike already, 1 rollback, fairness of the ticks | `NoDoublePost`, `NoStrandedClaim`, `WatchesLastCopy`, `ThreeStrikesOut`, `TickEnds` |
| `PubLive` | 1 worker, 3 campaigns with windows of 1 and 2, one of them malformed, one of whose account comes and goes, queries of 2 and 1, both builds, 1 rollback, fairness | `StrikeJustified`; `Publication` implements `TargetLifecycle`; `DueIsPublished`, `PublishedIsSettled`, `SettledIsClosed` |
| `PubStop` | 1 worker, 1 owner operation, a library that takes the cast | **violated** `StoppedStaysOffAir` |
| `PubDuplicate` | 1 worker, a library that refuses the cast, no other failure | **violated** `AtMostOnePost` |
| `PubBlank` | 1 worker, a target with empty answers | **violated** `StrikesAreDeletions` |
| `RegSingle` | 2 handlers, 2 channels, 1 list, 2 requests, 1 takedown | `TypeOK`, `CodesInSequence`, `ActiveIsEntitled`, `ClashesOnlyOnMoves` |
| `RegMove` | 1 handler, 2 channels, 2 lists, 3 requests | **violated** `ApprovalNeverClashes` |
| `RegRemoved` | 1 handler, 1 channel, 1 list, 1 takedown | **violated** `RemovedStaysOut` |
| `ComConfirm` | 2 handlers, 1 order of 2 channels out of 3 | `TypeOK`, `PaidIsDelivered`, `DeliveredByConfirmation`, `CancelledStaysCancelled` |
| `RunAccounts` | 2 accounts, 2 sessions, 5 clients of each, 1 leak, 1 bot, 1 account handler, 1 account update, fairness | `TypeOK`, `RegistryIsTrue`, `ClientsAccountedFor`, `EndsClean`, `SyncSparesHealthy`, `ClientsFollowTable`, `ShutdownEnds` |
| `BotTalk` | 1 person, 2 handlers, 6 updates (5 where one is delivered twice), 2 kinds of list with two thresholds, 1 restart | `TypeOK`, `OncePerRequest`, `AnswersAreItsOwn`, `ConfirmedAfterAsked`, `FormsComplete`, `ListsAreDistinct` |

The violated ones are disagreements between the code and what it says of itself:

* **PubDuplicate**: where the library refuses the cast of the reconciliation, a tick
  posts, fails and leaves the target planned, and every tick after it does the same; the
  earlier copies are watched by nobody. Any other failure between a forward and the
  commit does it once. What does hold is `NoDoublePost`: one extra copy per tick that
  is lost, and none because of concurrent workers.
* **PubBlank**: an answer that `message_exists` does not know, such as the dictionary of
  an error, is a strike against a channel that deleted nothing. What does hold is
  `StrikeJustified`: no other answer is, and no target is punished twice.
* **PubStop**: an emergency stop that commits between the reconciliation's query
  and the tick's commit is overwritten with "active".
* **RegMove**: an approval that moves a channel with a code to another list
  flushes the new list with the old code and may meet the unique constraint; the
  approval then fails for ever.
* **RegRemoved**: a request that was open when its channel was removed can still
  be rejected, which makes the channel pending, or approved.

What the passing runs do **not** promise is worth as much:

* a message deleted after its deadline may be punished when the answer of
  `get_message` arrives late, since the clock is read before it
  (`core/retention_monitor.py:66`, `77-78`); `StrikeJustified` does not speak of time;
* a target that cannot be published, or has to wait, is never moved out of the way: as
  many of them as a query returns hide everything behind them
  (`HiddenFromPublishing`, `HiddenFromRetention`). `DueIsPublished` and
  `PublishedIsSettled` say that fewer do not;
* `ActiveIsEntitled` says that permissions were once confirmed, not for which list, nor
  that they still are;
* conversations do not survive a restart, whatever `src/README.md:45` says; the
  properties say that nothing of one is taken for another;
* `ClientsFollowTable` is about rows whose session file exists. An account that is
  given a session whose file is missing keeps its old client, since `connect` raises
  before it closes it (`src/README.md:34` does not say so);
* an owner whose messages overlap may toggle twice with one confirmation.

### Bounds, and why they are enough

`MaxTime`, `MaxPosts`, `MaxRollbacks`, `MaxOwnerOps`, `MaxTakedowns` and `MaxLeaks`
bound what the environment may do; the tables are bounded by the sets of ids.

* `PubSingle`: two targets in one channel are the least for a counter that is read,
  carried over an await and written twice in one tick; two targets of another campaign
  in two channels the least for a campaign half of which is settled. The owner's one
  operation meets every point of a tick.
* `PubWorkers`: two workers are the least for a contended claim and for a cycle of
  locks, two strikes onto an earlier one the least for a third that neither tick sees.
  Time stands still, which leaves every window open: what happens there is about
  claims, locks and strikes. Three copies of a target leave room for the one the
  rollback loses.
* `PubLive`: the due query returns two of three targets and the first of them can
  never be published; the retention query returns one of two, and the one in front
  may have a window that is longer or an account that is away. Everything the queries
  may starve is thus in the instance, and `Hidden...` says when they do. Both builds of
  the library are among the initial states. Targets of one campaign each keep their windows
  apart; campaigns of several targets are in `PubSingle`.
* The owner is in `PubSingle`; his race with a tick is `PubStop`.

In `Registration` two handlers and two channels are the least for two approvals of
one list, or two decisions about one channel; two requests, one for each; one
takedown hits every point of a decision. `RegMove` needs a third request: two
channels that have the same code in different lists, and the move. In `Commerce`
two of three channels are wanted, so that the choice changes when one of them
leaves.

In `Runtime` two accounts are the least for one that hangs while another is waiting
for its turn, two sessions the least for a row that changes its session, one handler
the least for two calls in one account (the other caller is the loop, or the
shutdown), and one update changes a row at every point of a round. One bot stands for
three: supervisors share nothing but the stop event, and `gather` sees a task that is
over whichever it is. `MCRuntime` starts from one state of each orbit under
permutations of accounts, and of the sessions of each account, and every session file
exists; with one leak no account ever needs a sixth client. That a supervisor starts its bot again is a step
of the model (`BotReturns`, `BotWakes`) and no property of its own.

In `Bots` six updates are as many as the list form has, with its button and its
confirmation; two overlaps are enough for a message that was read under an old state
to act under a new one; five updates with a second delivery reach the confirmation of
an operation twice, and a copy that falls into another conversation. The bots are
explored one at a time, since they share nothing but the table of seen updates, in
which an update of one bot is never one of another; so are overlap and second
delivery, although a copy may overlap its original. The view leaves out entries of the
table that can no longer match. "BOOST" and "PULSE" with two thresholds below one
thousand apart give codes that differ and codes that are the same, and that can clash
with those of another owner.

### Fairness

`TickSpec` assumes strong fairness of a tick's steps and that PostgreSQL looks for
deadlocks: `NetworkWorker.run` loops until it is stopped and catches what a tick
raises, and a call of the gateway ends with an answer or with an exception. Strong and
not weak, because a statement that waits for a row may be disabled again and again by
another tick: it gets the row when the holder ends, since the holder's next tick is an
interval away and PostgreSQL wakes those who wait. `LiveSpec` adds that the owner
commits and the clock moves, and strong fairness of `Retain`: a check may fail, but a
gateway that answers again and again is not silent each time. No fairness is assumed of
the owner, of administrators or of accounts. The liveness runs have no rollbacks beyond
`MaxRollbacks`: a tick that fails every time makes no progress, in the model as in the
code, which is why the liveness properties ask for `castable`.

`Runtime` assumes that a task whose await is over goes on, that the database answers
in the end (strong fairness of `Load` and `SessionCloses`: a load may fail, but not each time), that a
cancellation is delivered and that `close()` answers during the shutdown. Nothing is
assumed of `start()` of a bot, of signals, of the account handlers, or of the calls
of the synchronisation. `ShutdownEnds` holds all the same: a hanging
connection is cancelled. `ClientsFollowTable` needs more, and says so in its
premise `SyncAnswers`: the calls of the synchronisation answer, and a connection that
is tried again and again succeeds in the end.

`Registration`, `Commerce` and `Bots` state safety only: nobody is obliged to decide,
or to write.

## 4. What is proved

Every safety property the passing runs check is also a theorem, and with one worker
so is the refinement: it holds for every value of the constants that satisfies the
modules' assumptions, from every initial state of `Spec`, where TLC takes one small
instance and, in `MCRuntime` and `MCBots`, a part of the initial states or of the
faults.

| Theorem | Statement |
|---|---|
| `PublicationProofs!TypeCorrect`, `NoDoublePostCorrect`, `NoStrandedClaimCorrect` | `Spec => []TypeOK`, `[]NoDoublePost`, `[]NoStrandedClaim` |
| `OutcomeProofs!WatchesLastCopyCorrect`, `ClosedIsSettledCorrect`, `ThreeStrikesOutCorrect` | `Spec => []WatchesLastCopy`, `[]ClosedIsSettled`, `[]ThreeStrikesOut`, for any number of workers |
| `OutcomeProofs!LifecycleCorrect` | `OneWorker` : `Spec => ImplementsLifecycle` |
| `OutcomeProofs!StrikeJustifiedCorrect`, `CountMatchesViolationsCorrect`, `ClosedOutcomeCorrect` | `OneWorker` : `Spec => []StrikeJustified`, `[]CountMatchesViolations`, `[]ClosedOutcome` |
| `RegistrationProofs!RegistrationTypeCorrect`, `CodesInSequenceCorrect`, `ActiveIsEntitledCorrect` | `Spec => []TypeOK`, `[]CodesInSequence`, `[]ActiveIsEntitled` |
| `RegistrationProofs!ClashesOnlyOnMovesCorrect` | `Spec => []ClashesOnlyOnMoves` |
| `CommerceProofs!CommerceTypeCorrect`, `PaidIsDeliveredCorrect`, `DeliveredByConfirmationCorrect` | `Spec => []TypeOK`, `[]PaidIsDelivered`, `[]DeliveredByConfirmation` |
| `CommerceProofs!CancelledStaysCancelledCorrect` | `Spec => CancelledStaysCancelled` |
| `RuntimeProofs!RuntimeTypeCorrect`, `RegistryIsTrueCorrect`, `ClientsAccountedForCorrect`, `EndsCleanCorrect` | `Spec => []TypeOK`, `[]RegistryIsTrue`, `[]ClientsAccountedFor`, `[]EndsClean` |
| `RuntimeProofs!SyncSparesHealthyCorrect` | `Spec => SyncSparesHealthy` (an action property) |
| `BotsProofs!BotsTypeCorrect`, `OncePerRequestCorrect`, `AnswersAreItsOwnCorrect`, `ConfirmedAfterAskedCorrect`, `FormsCompleteCorrect`, `ListsAreDistinctCorrect` | `Spec => []TypeOK`, `[]OncePerRequest`, `[]AnswersAreItsOwn`, `[]ConfirmedAfterAsked`, `[]FormsComplete`, `[]ListsAreDistinct` |

### The assumptions

The modules assume that the values that stand for `None` are none of the values they
are told apart from, that the tables given as constants are functions of the right
kind, and that bounds are numbers. TLC evaluates them in the passing runs. Which
build of the library runs (`Builds`), which targets may have empty answers
(`EmptyAnswers`) and how many clients may leak (`MaxLeaks`) are left open. The theorems
about one process have a hypothesis of their own:

* `OneWorker` (there is one worker). The program starts one `NetworkWorker`, and is
  one process, so that this is what runs. It is needed: `mark_retained`
  and `mark_failed` write without looking at the status, and two ticks that watch the
  same target may each settle it, one after the other's commit: the second outcome
  replaces the first, and the target is punished or counted twice.
### The arguments

**NoDoublePost** bounds the copies of a target by the ticks that were lost. It is
not inductive: it says nothing of the ticks that are open. The invariant `IInv` in
`PublicationProofs` says where a copy may come from while a tick is under way: the
worker that has posted a target in its open tick has the target's row locked with
a status other than "planned", so that nobody else has, and the count of copies is
that of the lost ticks plus, at most, one: either the open tick's or the committed
outcome's. A rollback moves the open tick's copy to `lost`; a commit makes the
target's row say that it is not planned any more, which it will never be again.
`NoStrandedClaim` comes with it: in a transaction that reaches its commit, no row
is left "running", since a worker has at most the target in hand in that status,
and none when it commits.

**WatchesLastCopy** (`WatchInv`): a row that is published or retained has the number of
the last copy, in the table and in every open tick; between the answer of a forward
and its record, the answer is the last copy or none. Nobody posts the target
meanwhile, by the lock of `IInv`.

**ClosedIsSettled** (`ClosedInv`): a campaign about to be closed by a tick is settled
as that tick sees it. Locked rows keep it so until the commit, and a settled row is
never planned or published again, whoever else commits. The owner's operations write
neither verdict, and they never make a channel active.

**ThreeStrikesOut** (`StrikesInv`): at most one open tick has written a channel row
(`ChannelLocks`), and a tick that has counted three deletions, committed or its own,
has written the row so that it is out of the rotation; a count nobody else sees
cannot be raised by two.

**With one worker.** `AloneInv`: what the tick writes is planned or published in the
table, and what it watches is published as it sees it. Hence a commit moves a row
only along the lifecycle, which is the step of `TargetLifecycle`; a forward is its
post; all the rest is stuttering. `JustInv`, `CountInv` and `VerdictInv` say of the
open tick what the properties say of the table: the violations it is about to insert
are of rows it has failed, whose copy is known to be gone or whose answers may be empty; the counter as it sees
it is the number of violations with its own, also in the copy it took before
`get_message`; and a verdict it holds, in whatever state of the flush, is "completed"
exactly when it sees a retained target.

**CodesInSequence** relates the counter of a list to the codes that were issued.
What makes it inductive is the lock: `Exclusive`, no two handlers hold a number of
the same list, and, in `TxOK`, a handler that holds one has the number that the
counter still has. A commit then appends exactly the next number; a failure changes
nothing.

**ActiveIsEntitled** (`EInv`): a code, once given, is never taken from a row, and a check of permissions that
was done stays done, so that what an old load lets a handler write is still
justified when it writes; at most one handler has flushed a channel. **ClashesOnlyOnMoves**
(`UInv`): a code was issued by the counter of the list that `origin` remembers
(`Numbered`), no two channels have one code from one list (`Apart`), and a flushed row has
either the channel's own code or the number its handler holds, which is above all that
were issued (`OwnRow`). So two rows with one list and one code are two channels one of
which sits in a list, or is flushed for a list, that did not give it its code: `Moved`.
`RegMove` shows that a move does clash.

**PaidIsDelivered** and **DeliveredByConfirmation** (`CInv`): the unique key of
`campaigns.order_id` lets one confirmation of an order insert (`OneInserts`), for which
there is no campaign until it commits; an order without a confirmed payment has no targets
(`RowsAgree`), and a confirmation that has chosen its channels will reach the number
that was paid for, whichever others it finds (`TxOK`). The number of channels is a bound on a cardinality: the chosen ones are counted by how many members
come before them (`ChosenBound`). **CancelledStaysCancelled** is a temporal formula: a
refused order without a confirmation in progress is a state no step leaves.

**Accounts and Runtime**: `AInv` says what each coroutine holds: a client that is
starting is registered nowhere, and in the hands of no other call unless the account
is in `raced`; one that is closing is registered under its account or has been
replaced; one that is connected and neither is stranded. Given that, the registry changes only together with the sessions it
remembers. `PInv` says which tasks exist in which phase, what `shutdown` has listed
and what of the rows the round's copy still describes (`CopiesOK`, which is
`SyncSparesHealthy` seen from the state before).

**Bots**: every step is a `Turn` of one handler (five kinds of the user bot, six of the
other two) or a `WorldTurn`, and each part of the invariant is shown for these kinds.

* `OnceInv`: an update whose handler has not looked at the state yet was used nowhere,
  as a conversation's beginning, an answer, a pending question or a commit, and is in
  no second handler, unless its entry in the table of seen updates was renewed. This is what the table is for, stated as an
  invariant of the whole process.
* `UserOnceInv`: a conversation of the user bot is in one place, with its person,
  with the handler that submits it, or in what was committed. `AnswersInv`: its
  answers are in order, and a message that waits for its sender comes after them.
* For a person not in `mixed` at most one handler is busy (`Serial`). So what a
  handler of the owner or the admin bot has read is still what is pending
  (`StaffInv`), and what was committed but not popped is in the hands of the one that
  pops it. `OwnersInv`: what one press asked for belongs to one person, which keeps
  other people's overlap out of the argument.
* `FormsInv`: answers are added to a dictionary, never removed, so a question stays
  answerable although several handlers change one dictionary. `CodesInv`: the code a
  handler looked for, or found, is the one of the dictionary; and the insertion looks at
  the unique constraint, which is what makes the codes distinct.

Each proof has one lemma per action, or per kind of step; the steps that write nothing
the invariant speaks of share one. Each strengthening was model-checked on an
instance before it was proved.

### What is only model-checked

The liveness properties: `TickEnds`, `DueIsPublished`, `PublishedIsSettled`,
`SettledIsClosed`, `ClientsFollowTable` and `ShutdownEnds`. They need
fairness and `ENABLED`, about which the provers do not reason. The
violated runs are counterexamples; there is nothing to prove about them.

## 5. Not modelled

* Menus, reports, keypads, texts and the shapes of SDK objects (`owner_localized.py`,
  `owner_list_grid.py`, most of `owner_inline.py` and of `common.py`): they read and
  show. The labels and buttons that change a conversation's state are in `StaffBots`.
* Migrations, settings and the construction of objects (`bootstrap.py`).
* Quotes and prices: price rules are written outside the program.
* Code without a caller: `settle`, `record_list_earning`, `plan_operation`,
  `order_flow.py`, `publication_worker.py`, `retention.py`, `session.py`,
  `RotationPlanner`, `mark_permissions`.
* Who may call an operation (`core/roles.py`): an outcome of the handlers. How roles
  are granted is not modelled.
* The emergency menu beyond its stop, and operations on lists beyond their effect, a
  list that is closed (`NetworkChange` in `Commerce`).
* A connection of an account that dies after `start()`: nothing in `src/` shows how
  the library reports it, and the code does not look.
* Names, links and messages are atoms. SQLite, which the tests use, is not modelled:
  it has no concurrent writers.

## 6. Plan

The modules and the proofs of the first plan are written. What is left:

1. The composition of `Commerce` with `Publication` over `campaigns.status`, from the
   order to the retained message: the orders whose campaigns the worker closes, and the
   cancellation of an order whose campaign runs.
2. An abstract decision per registration request, and what survives two admins who
   decide the same one.
3. As theorems: the refinement of that decision by `Registration`, and what the
   composition promises of an order that is paid and not cancelled.
