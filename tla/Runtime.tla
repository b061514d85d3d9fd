------------------------------ MODULE Runtime -------------------------------
(***************************************************************************)
(* The process: main() and ApplicationRuntime, with the three supervised   *)
(* bots, the worker's task and the loop that makes the live clients        *)
(* (Accounts) follow the active rows of list_accounts, and the handlers by *)
(* which an admin adds, replaces, tests and disables an account.           *)
(*                                                                         *)
(* main's first synchronisation, before any task exists, is the body of    *)
(* the same coroutine as the loop's, and is modelled by the caller Sync in *)
(* phase "boot"; shutdown() disconnects as the caller Main.  The initial   *)
(* state has any table and any session files: it is also the state after   *)
(* a restart, since everything else is lost with the process.              *)
(***************************************************************************)
EXTENDS Accounts

CONSTANTS
  Bots, AdminBot,
  Routes,          \* handlers of account updates that may run at the same time
  Sync, Main, Worker,
  MaxUpdates       \* bound of the exploration: account updates handled

ASSUME RuntimeAssumption ==
  /\ Callers = Routes \cup {Sync, Main}
  /\ Sync # Main /\ Sync # Worker
  /\ {Sync, Main, Worker} \cap (Routes \cup Bots) = {}
  /\ AdminBot \in Bots /\ MaxUpdates \in Nat

VARIABLES
  table,     \* list_accounts: the active flag and session of each account
  phase,     \* how far main() is
  bot,       \* the supervisor of each bot
  worker,    \* the worker's task
  sync,      \* the synchronisation: its stage and the round's copies
  asked,     \* tasks with a cancellation that has not been delivered
  todo,      \* what shutdown() has left of the list it goes through
  edited,    \* history: accounts whose row changed since the current round loaded it
  pending,   \* history: accounts a handler was at work on when shutdown() listed the clients
  updates    \* number of account updates so far

processVars == <<phase, bot, worker, asked, todo>>
runtimeVars == <<table, processVars, sync, edited, pending, updates>>
vars == <<accountVars, runtimeVars>>

Row == [active : BOOLEAN, session : Sessions \cup {NoSession}]
Tasks == Bots \cup {Worker, Sync}

TaskDone(t) == CASE t = Worker -> worker = "done"
                 [] t = Sync -> sync.stage = "done"
                 [] OTHER -> bot[t] = "done"
Stopping == phase \in {"closing", "cancelling", "disconnecting", "ended"}

\* A round: the accounts left to drop, those left to connect, and the session
\* of each in the rows the round loaded.
Round(stage, drop, visit, rows) ==
  [stage |-> stage, drop |-> drop, visit |-> visit, rows |-> rows]
NoRows == [a \in Account |-> NoSession]
Between(stage) == Round(stage, {}, {}, NoRows)
Active == {a \in Account : table[a].active}

-----------------------------------------------------------------------------
(* _sync_accounts_once and its loop                                         *)

\* load_active_list_accounts: the rows arrive, and then the session's close() is
\* awaited; the clients are listed after that.
Load ==
  /\ sync.stage = "load" /\ phase # "ended"
  /\ sync' = Round("loaded", {}, Active,
                   [a \in Account |-> IF a \in Active THEN table[a].session ELSE NoSession])
  /\ edited' = {}
  /\ UNCHANGED <<accountVars, table, processVars, pending, updates>>

DropsNone == {}
ToDrop == {a \in Account : registry[a] # NoClient} \ sync.visit
SessionCloses ==
  /\ sync.stage = "loaded"
  /\ sync' = [sync EXCEPT !.stage = "round", !.drop = ToDrop]
  /\ UNCHANGED <<accountVars, table, processVars, edited, pending, updates>>

\* The loop logs the failure of a round and waits for the next; at boot
\* nothing catches it, and run() ends before it has created a task.
RoundFails ==
  IF phase = "boot" THEN /\ sync' = Between("done")
                         /\ phase' = "closing" /\ todo' = Bots
                         /\ UNCHANGED <<bot, worker, asked>>
                    ELSE /\ sync' = Between("sleep")
                         /\ UNCHANGED processVars
LoadFails ==
  /\ sync.stage \in {"load", "loaded"} /\ phase # "ended"
  /\ RoundFails
  /\ edited' = {}
  /\ UNCHANGED <<accountVars, table, pending, updates>>

\* Accounts are dropped first, then connected one after the other.  Any order
\* stands for the order of the dictionary and of the ids.
Drop(a) ==
  /\ sync.stage = "round" /\ a \in sync.drop
  /\ Disconnect(Sync, a)
  /\ sync' = [sync EXCEPT !.drop = @ \ {a}]
  /\ UNCHANGED <<table, processVars, edited, pending, updates>>
Visit(a) ==
  /\ sync.stage = "round" /\ sync.drop = {} /\ a \in sync.visit
  /\ Connect(Sync, a, sync.rows[a])
  /\ sync' = [sync EXCEPT !.visit = @ \ {a}, !.rows[a] = NoSession]
  /\ UNCHANGED <<table, processVars, edited, pending, updates>>

\* At boot the end of the round is where run() creates the five tasks.
RoundDone ==
  /\ sync.stage = "round" /\ sync.drop = {} /\ sync.visit = {} /\ call[Sync] = Idle
  /\ IF phase = "boot"
     THEN /\ phase' = "run" /\ sync' = Between("load")
          /\ bot' = [b \in Bots |-> "polling"] /\ worker' = "running"
          /\ UNCHANGED <<asked, todo>>
     ELSE sync' = Between("sleep") /\ UNCHANGED processVars
  /\ edited' = {}
  /\ UNCHANGED <<accountVars, table, pending, updates>>

SyncWakes ==
  /\ sync.stage = "sleep" /\ phase # "ended"
  /\ sync' = Between(IF Stopping THEN "done" ELSE "load")
  /\ UNCHANGED <<accountVars, table, processVars, edited, pending, updates>>

\* The answers to Sync's awaits.  connect()'s exceptions are caught for each
\* account; one of a drop aborts the round.
SyncAnswered ==
  /\ \/ (Started(Sync) \/ StartFails(Sync) \/ Closed(Sync)) /\ UNCHANGED <<sync, edited>>
     \/ /\ CloseFails(Sync)
        /\ IF call[Sync].kind = "disconnect" THEN sync' = Between("sleep") /\ edited' = {}
           ELSE UNCHANGED <<sync, edited>>
  /\ UNCHANGED <<table, processVars, pending, updates>>

SyncCancelled ==
  /\ sync.stage # "done"
  /\ IF call[Sync] = Idle THEN UNCHANGED accountVars ELSE CallCancelled(Sync)
  /\ sync' = Between("done") /\ edited' = {}

-----------------------------------------------------------------------------
(* BotSupervisor.run and NetworkWorker.run                                  *)

\* start() returned or raised: the supervisor waits, and once stopping it is
\* over.
AfterStart(b) == IF Stopping THEN "done" ELSE "waiting"
BotReturns(b) ==
  /\ bot[b] = "polling" /\ b \notin asked
  /\ bot' = [bot EXCEPT ![b] = AfterStart(b)]
  /\ UNCHANGED <<accountVars, table, phase, worker, sync, asked, todo, edited, pending, updates>>
BotWakes(b) ==
  /\ bot[b] = "waiting" /\ b \notin asked
  /\ bot' = [bot EXCEPT ![b] = IF Stopping THEN "done" ELSE "polling"]
  /\ UNCHANGED <<accountVars, table, phase, worker, sync, asked, todo, edited, pending, updates>>

\* The worker's loop ends after the tick in which stop() was called.
WorkerStops ==
  /\ worker = "running" /\ Stopping /\ Worker \notin asked
  /\ worker' = "done"
  /\ UNCHANGED <<accountVars, table, phase, bot, sync, asked, todo, edited, pending, updates>>

\* A cancellation is the next thing a task hears of, at the await it is in.
\* Every task passes it on; only start() of a bot may have swallowed it.
Delivered(t) ==
  /\ t \in asked
  /\ asked' = asked \ {t}
  /\ \/ /\ t \in Bots /\ bot[t] # "done"
        /\ bot' \in {[bot EXCEPT ![t] = "done"]} \cup
                    (IF bot[t] = "polling" THEN {[bot EXCEPT ![t] = AfterStart(t)]} ELSE {})
        /\ UNCHANGED <<accountVars, worker, sync, edited>>
     \/ /\ t = Worker /\ worker = "running"
        /\ worker' = "done"
        /\ UNCHANGED <<accountVars, bot, sync, edited>>
     \/ /\ t = Sync /\ SyncCancelled
        /\ UNCHANGED <<bot, worker>>
  /\ UNCHANGED <<table, phase, todo, pending, updates>>

-----------------------------------------------------------------------------
(* main and shutdown                                                        *)

\* SIGINT cancels main: at boot that is the synchronisation itself; later
\* gather passes the cancellation on to every task.
Interrupt ==
  \/ /\ phase = "boot" /\ SyncCancelled
     /\ phase' = "closing" /\ todo' = Bots
     /\ UNCHANGED <<table, bot, worker, asked, pending, updates>>
  \/ /\ phase = "run"
     /\ phase' = "interrupted" /\ asked' = Tasks
     /\ UNCHANGED <<accountVars, table, bot, worker, sync, todo, edited, pending, updates>>

\* gather raises at the first task that ended cancelled, and does not wait for
\* the others: shutdown() begins while they are still running.
Unwind ==
  /\ phase = "interrupted" /\ \E t \in Tasks : TaskDone(t)
  /\ phase' = "closing" /\ todo' = Bots
  /\ UNCHANGED <<accountVars, table, bot, worker, asked, sync, edited, pending, updates>>

\* close() of a bot returns or raises, which is logged.
CloseBot(b) ==
  /\ phase = "closing" /\ b \in todo
  /\ todo' = todo \ {b}
  /\ UNCHANGED <<accountVars, table, phase, bot, worker, asked, sync, edited, pending, updates>>

NotDone == {t \in Tasks : ~TaskDone(t)}
NoTasks == \A b \in Bots : bot[b] = "off"
CancelsNone == {}
ToCancel == IF NoTasks THEN {} ELSE NotDone
CancelTasks ==
  /\ phase = "closing" /\ todo = {}
  /\ phase' = "cancelling"
  /\ asked' = ToCancel
  /\ UNCHANGED <<accountVars, table, bot, worker, sync, todo, edited, pending, updates>>

\* The list of clients to disconnect is taken once every task is over.
AnyGathered == NoTasks \/ NotDone # Tasks
AllGathered == NoTasks \/ NotDone = {}
Gathered ==
  /\ phase = "cancelling" /\ AllGathered
  /\ phase' = "disconnecting" /\ todo' = {a \in Account : registry[a] # NoClient}
  /\ pending' = {call[r].acct : r \in Routes}
  /\ UNCHANGED <<accountVars, table, bot, worker, asked, sync, edited, updates>>

DisconnectNext(a) ==
  /\ phase = "disconnecting" /\ a \in todo
  /\ Disconnect(Main, a)
  /\ todo' = todo \ {a}
  /\ UNCHANGED <<table, phase, bot, worker, asked, sync, edited, pending, updates>>
MainAnswered ==
  /\ Closed(Main) \/ CloseFails(Main)
  /\ UNCHANGED runtimeVars
End ==
  /\ phase = "disconnecting" /\ todo = {} /\ call[Main] = Idle
  /\ phase' = "ended"
  /\ UNCHANGED <<accountVars, table, bot, worker, asked, sync, todo, edited, pending, updates>>

-----------------------------------------------------------------------------
(* account_text and account_button: an account is assigned a session (added
   or replaced), disabled or tested.  The handler's transaction, from the load
   of the row to its commit, is one step; the handler itself then connects or
   disconnects, without the loop.  New updates come while the admin bot polls;
   a handler that has begun is not stopped by shutdown().                    *)

Accepts(r) ==
  /\ bot[AdminBot] = "polling" /\ updates < MaxUpdates
  /\ updates' = updates + 1
  /\ UNCHANGED <<processVars, sync, pending>>
Commit(a, row) ==
  /\ table' = [table EXCEPT ![a] = row]
  /\ edited' = IF row # table[a] /\ sync.stage \in {"loaded", "round"}
               THEN edited \cup {a} ELSE edited

RouteAssigns(r, a, s) ==
  /\ Accepts(r) /\ s \in files
  /\ Commit(a, [active |-> TRUE, session |-> s])
  /\ Connect(r, a, s)
RouteDisables(r, a) ==
  /\ Accepts(r)
  /\ Commit(a, [table[a] EXCEPT !.active = FALSE])
  /\ Disconnect(r, a)
RouteTests(r, a) ==
  /\ Accepts(r)
  /\ Connect(r, a, table[a].session)
  /\ UNCHANGED <<table, edited>>
RouteAnswered(r) ==
  /\ phase # "ended"
  /\ Started(r) \/ StartFails(r) \/ Closed(r) \/ CloseFails(r)
  /\ UNCHANGED runtimeVars

-----------------------------------------------------------------------------
Init ==
  /\ AccountsInit
  /\ table \in [Account -> Row]
  /\ phase = "boot" /\ worker = "off" /\ bot = [b \in Bots |-> "off"]
  /\ sync = Between("load")
  /\ asked = {} /\ todo = {} /\ edited = {} /\ pending = {} /\ updates = 0

SyncStep == /\ Sync \notin asked
            /\ \/ Load \/ SessionCloses \/ LoadFails \/ RoundDone \/ SyncWakes \/ SyncAnswered
               \/ \E a \in Account : Drop(a) \/ Visit(a)
BotStep(b) == BotReturns(b) \/ BotWakes(b)
MainStep == \/ Unwind \/ CancelTasks \/ Gathered \/ MainAnswered \/ End
            \/ \E b \in Bots : CloseBot(b)
            \/ \E a \in Account : DisconnectNext(a)
RouteStep(r) ==
  \/ RouteAnswered(r)
  \/ \E a \in Account : \/ RouteDisables(r, a) \/ RouteTests(r, a)
                        \/ \E s \in Sessions : RouteAssigns(r, a, s)

\* A round goes from one account to the next without an await of its own:
\* nobody else runs until a call has one.
Parked == sync.stage = "round" => call[Sync] # Idle
Next ==
  \/ SyncStep
  \/ /\ Parked
     /\ \/ MainStep \/ Interrupt \/ WorkerStops
        \/ \E b \in Bots : BotStep(b)
        \/ \E t \in Tasks : Delivered(t)
        \/ \E r \in Routes : RouteStep(r)

\* What the code's scheduling justifies: tasks whose await is over go on, the
\* database answers in the end, a cancellation is delivered, and close() of a
\* client in shutdown() answers.  Nothing is assumed of start() of a bot, of a
\* signal, of the account handlers, or of the answers to Sync's awaits.
Fairness ==
  /\ SF_vars(Load) /\ SF_vars(SessionCloses) /\ WF_vars(RoundDone) /\ WF_vars(SyncWakes)
  /\ WF_vars(\E a \in Account : Drop(a) \/ Visit(a))
  /\ WF_vars(MainStep) /\ WF_vars(WorkerStops)
  /\ \A t \in Tasks : WF_vars(Delivered(t))

Spec == Init /\ [][Next]_vars /\ Fairness

-----------------------------------------------------------------------------
TypeOK ==
  /\ AccountsTypeOK
  /\ table \in [Account -> Row]
  /\ phase \in {"boot", "run", "interrupted", "closing", "cancelling", "disconnecting", "ended"}
  /\ bot \in [Bots -> {"off", "polling", "waiting", "done"}]
  /\ worker \in {"off", "running", "done"}
  /\ sync.stage \in {"load", "loaded", "round", "sleep", "done"}
  /\ sync.drop \subseteq Account /\ sync.visit \subseteq Account
  /\ sync.rows \in [Account -> Sessions \cup {NoSession}]
  /\ asked \subseteq Tasks
  /\ todo \subseteq Bots \cup Account
  /\ edited \subseteq Account /\ pending \subseteq Account \cup {NoAccount}
  /\ updates \in 0 .. MaxUpdates

\* A client that serves its account as the table wants it is not taken away by
\* the synchronisation, unless the row was changed while the round worked from
\* its copy of the rows, or two calls were in the account at once.
HasItsClient(a) ==
  registry[a] # NoClient /\ table[a] = [active |-> TRUE, session |-> refs[a]]
SyncSparesHealthy ==
  [][\A a \in Account :
       HasItsClient(a) /\ registry'[a] # registry[a] /\ call'[Sync] # call[Sync]
         => a \in edited \cup raced']_vars

\* A process that has ended by shutdown() leaves no task running and no client
\* registered, except of an account a handler was at work on when the clients
\* were listed: handlers are not among the tasks shutdown() waits for.
EndsClean ==
  phase = "ended" =>
    /\ NoTasks \/ \A t \in Tasks : TaskDone(t)
    /\ \A a \in Account : registry[a] # NoClient => a \in pending

\* If the awaits of the synchronisation answer, and a connection that is tried
\* again and again succeeds in the end, then once the rows stop changing the
\* clients follow them for good: an account that is inactive has none, an
\* active one with a session file has one on that session.  Unless main stops.
SyncAnswers ==
  /\ WF_vars(SyncAnswered)
  /\ \A a \in Account : SF_vars(SyncAnswered /\ call[Sync].acct = a /\ registry'[a] # NoClient)
Follows ==
  \A a \in Account :
    IF table[a].active THEN table[a].session \in files => HasItsClient(a)
                       ELSE registry[a] = NoClient
ClientsFollowTable == SyncAnswers => <>[](phase # "run" \/ Follows)

\* Once main is unwinding, the process ends: no task can keep shutdown() from
\* its end, not even one that is waiting for a connection that never answers.
ShutdownEnds == (phase = "interrupted" \/ Stopping) ~> phase = "ended"
=============================================================================
