------------------------------ MODULE Updates -------------------------------
(***************************************************************************)
(* What the three bots share (bots/common.py): the table of updates that   *)
(* were seen, and handlers, each of which takes up an update, asks Rubika  *)
(* who sent it (resolve_user), and goes on when the answer is there.       *)
(*                                                                         *)
(* asyncio runs a handler from one await to the next without interruption. *)
(* Slots is the number of handlers the SDK lets overlap; one slot is an    *)
(* SDK that handles one update after the other.  The SDK may deliver an    *)
(* update twice, and the process may be restarted at any point.            *)
(***************************************************************************)
EXTENDS Naturals, Sequences

CONSTANTS
  Person, Slots,
  Nothing,
  MaxSent,         \* bound of the exploration: updates sent
  MaxRestarts      \* and restarts of the process

ASSUME UpdatesAssumption == MaxSent \in Nat /\ MaxRestarts \in Nat

VARIABLES
  handler,   \* what is in each slot
  seen,      \* _SEEN_UPDATES: updates seen less than 30 seconds ago
  again,     \* an update with a key that the SDK is going to deliver a second time
  sent,      \* number of updates taken up so far; an update's id is its place
  restarts,  \* restarts so far
  mixed,     \* history: persons two of whose updates were in handling at once
  renewed,   \* history: updates whose entry in the table is gone
  done       \* what has been committed for whom, oldest first

updateVars == <<handler, seen, again, sent, restarts, mixed, renewed, done>>

Ids == 1 .. MaxSent
Rest == [stage |-> "rest", update |-> Nothing, held |-> Nothing]
Handling(stage, u, held) == [stage |-> stage, update |-> u, held |-> held]
Goes(h, next) == handler' = [handler EXCEPT ![h] = next]
Overlapping(h, u) ==
  \E g \in Slots \ {h} : handler[g] # Rest /\ handler[g].update.who = u.who

\* update_key: a press of an inline button has none, and is never a duplicate: its
\* second delivery is one more press.
Buttons == {"home", "recruit:start", "list:create", "operate"}
Keyed(u) == u.text \notin Buttons

\* is_duplicate_update looks and marks in one step, before any await.  The key of
\* a message (its sender and its number) does not name the bot, though the bots
\* share the table: a message may be taken for one that another bot has seen.  It
\* is then dropped, which changes nothing: a first delivery that is dropped is no
\* step of its own (ids count the updates that are taken up), and a second one may
\* be dropped also when its own entry is gone.
NeverDuplicate(u) == FALSE
Duplicate(u) == Keyed(u) /\ u.id \in seen

TakesUpUnmarked(h, u) ==
  /\ handler[h] = Rest
  /\ Goes(h, Handling("resolving", u, Nothing))
  /\ mixed' = IF Overlapping(h, u) THEN mixed \cup {u.who} ELSE mixed
  /\ UNCHANGED seen
TakesUp(h, u) ==
  /\ handler[h] = Rest
  /\ Goes(h, Handling("resolving", u, Nothing))
  /\ seen' = IF Keyed(u) THEN seen \cup {u.id} ELSE seen
  /\ mixed' = IF Overlapping(h, u) THEN mixed \cup {u.who} ELSE mixed

Receives(h, b, p, text) ==
  LET u == [id |-> sent + 1, bot |-> b, who |-> p, text |-> text] IN
  /\ sent < MaxSent
  /\ sent' = sent + 1
  /\ again' \in {again} \cup (IF again = Nothing /\ Keyed(u) THEN {u} ELSE {})
  /\ TakesUp(h, u)
  /\ UNCHANGED <<restarts, renewed, done>>

ReceivesAgain(h) ==
  /\ again # Nothing
  /\ again' = Nothing
  /\ \/ ~Duplicate(again) /\ TakesUp(h, again)
     \/ UNCHANGED <<handler, seen, mixed>>
  /\ UNCHANGED <<sent, restarts, renewed, done>>

\* More than the window passes after the update was first seen: its entry, and
\* those of older updates, are purged before the next look at the table.
Lapse ==
  /\ again # Nothing /\ again.id \in seen
  /\ seen' = {n \in seen : n > again.id}
  /\ renewed' = renewed \cup {again.id}
  /\ UNCHANGED <<handler, again, sent, restarts, mixed, done>>

\* The tables are the process's, and so are its handlers; what is committed stays.
Restart ==
  /\ restarts < MaxRestarts /\ restarts' = restarts + 1
  /\ handler' = [h \in Slots |-> Rest]
  /\ seen' = {}
  /\ renewed' = IF again = Nothing THEN renewed ELSE renewed \cup {again.id}
  /\ UNCHANGED <<again, sent, mixed, done>>

\* The handler of u has committed what was asked for by the update with this id.
Records(u, asked, what) ==
  done' = Append(done, [bot |-> u.bot, who |-> u.who, asked |-> asked, by |-> u.id, what |-> what])
Silent == UNCHANGED <<seen, again, sent, restarts, mixed, renewed>>

UpdatesInit ==
  /\ handler = [h \in Slots |-> Rest] /\ seen = {} /\ again = Nothing
  /\ sent = 0 /\ restarts = 0 /\ mixed = {} /\ renewed = {} /\ done = <<>>
=============================================================================
