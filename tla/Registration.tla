---------------------------- MODULE Registration ----------------------------
(***************************************************************************)
(* How a channel enters the network: a user or a recruiting admin submits  *)
(* it (RegistrationService.start), an admin has its permissions checked by *)
(* the list's account (VerificationService) and approves or rejects the    *)
(* request (RegistrationService.verify), which gives the channel the next  *)
(* code of the list (ListService.allocate_channel_code).                   *)
(*                                                                         *)
(* Every handler of a bot opens a session of its own, and handlers run     *)
(* concurrently: one handler here is one transaction, and every statement  *)
(* that another transaction may come before is a step.  A handler writes   *)
(* only the columns it has changed with respect to what it LOADED, on top  *)
(* of the row as it is when the UPDATE takes the lock (READ COMMITTED).    *)
(*                                                                         *)
(* The publication worker and the owner take channels down meanwhile:      *)
(* Strike, Suspend and Remove.                                             *)
(***************************************************************************)
EXTENDS Naturals, FiniteSets, Sequences

CONSTANTS
  Handlers,      \* handlers of bot updates that may run at the same time
  Channels, Applicants, Lists,
  Requests,      \* ids of registration_requests rows
  NoList, NoRequest,
  MaxTakedowns   \* bound of the exploration: strikes, suspensions and removals

ASSUME RegistrationAssumption ==
  /\ Requests \subseteq Nat
  /\ NoRequest \notin Requests /\ NoList \notin Lists
  /\ MaxTakedowns \in Nat

VARIABLES
  channel,    \* committed channels rows
  request,    \* committed registration_requests rows
  next,       \* committed lists.next_channel_number
  admin,      \* Rubika: <<channel, list>> where the list's account is a full administrator
  tx,         \* the open transaction of each handler
  issued,     \* history: the numbers approved channels were given in each list, in order
  origin,     \* history: the list whose counter gave a channel its code
  checked,    \* history: <<channel, list>> with a committed successful verification
  takedowns   \* number of takedowns so far

history == <<issued, origin, checked, takedowns>>
vars == <<channel, request, next, admin, tx, history>>

\* A request is committed as pending_verification at the earliest: start and
\* submit_for_verification share a transaction.
RequestStatus == {"pending", "active", "rejected"}
ChannelStatus == {"pending", "active", "suspended", "removed"}

\* The four permission columns are checked together and set together.
ChannelRow == [status : ChannelStatus \cup {"unregistered"}, list : Lists \cup {NoList},
               code : Nat, verified : BOOLEAN]
Unregistered == [status |-> "unregistered", list |-> NoList, code |-> 0, verified |-> FALSE]
RequestRow == [status : RequestStatus, channel : Channels, applicant : Applicants, list : Lists]
NoRow == [status |-> "none"]

\* kind: what the handler does; stage: the statement it is about to run; seen:
\* the channel it has loaded; row: the channel it has flushed, and locks;
\* number: the code it has taken, 0 if none, with a lock on its list.
Idle == [kind |-> "idle", stage |-> "idle", req |-> NoRequest, chan |-> NoRow,
         list |-> NoList, who |-> NoRow, seen |-> NoRow, row |-> NoRow,
         number |-> 0, answer |-> FALSE]

-----------------------------------------------------------------------------
ChannelLocked(h, c) == \E g \in Handlers \ {h} : tx[g].chan = c /\ tx[g].row # NoRow
ListLocked(h, l)    == \E g \in Handlers \ {h} : tx[g].list = l /\ tx[g].number # 0
RequestLocked(h, r) ==
  \E g \in Handlers \ {h} : /\ tx[g].kind \in {"approve", "reject"}
                            /\ tx[g].req = r /\ tx[g].stage = "commit"

\* uq_channel_list_code: NULLs do not collide.
SameCode(c, row, d, other) ==
  c # d /\ row.list # NoList /\ row.code # 0 /\ other.list = row.list /\ other.code = row.code
Taken(c, row) == \E d \in Channels : SameCode(c, row, d, channel[d])
Contended(h, c, row) ==
  \E g \in Handlers \ {h} :
    tx[g].row # NoRow /\ SameCode(c, row, tx[g].chan, tx[g].row)

\* What the session has changed, on top of the row as it is now.
Merged(h, changed) ==
  LET now == IF tx[h].row = NoRow THEN channel[tx[h].chan] ELSE tx[h].row IN
  [status   |-> IF changed.status # tx[h].seen.status THEN changed.status ELSE now.status,
   list     |-> IF changed.list # tx[h].seen.list THEN changed.list ELSE now.list,
   code     |-> IF changed.code # tx[h].seen.code THEN changed.code ELSE now.code,
   verified |-> IF changed.verified # tx[h].seen.verified THEN changed.verified ELSE now.verified]

\* The UPDATE of the channel: nothing if nothing has changed; it waits for the
\* row and for rows that may take the same code.
CanFlush(h, changed) ==
  changed # tx[h].seen =>
    /\ ~ChannelLocked(h, tx[h].chan)
    /\ ~Contended(h, tx[h].chan, Merged(h, changed))
Flushed(h, changed) == IF changed = tx[h].seen THEN tx[h].row ELSE Merged(h, changed)
Clash(h, changed) == changed # tx[h].seen /\ Taken(tx[h].chan, Merged(h, changed))

\* The handler goes on; nothing is committed.
Step(h, t) == /\ tx' = [tx EXCEPT ![h] = t]
              /\ UNCHANGED <<channel, request, next, admin, history>>

-----------------------------------------------------------------------------
(* Submitting a channel.                                                    *)

\* RegistrationService.start: an active or a removed channel is refused.
Submit(h, c, a, l) ==
  /\ tx[h] = Idle
  /\ channel[c].status \notin {"removed", "active"}
  /\ Step(h, [Idle EXCEPT !.kind = "submit", !.stage = "lookup", !.chan = c,
                          !.list = l, !.who = a, !.seen = channel[c]])

\* A new channel is pending in the list; one with no list is put in it.
Submitted(h) ==
  LET t == tx[h] IN
  CASE t.seen.status = "unregistered" -> [t.seen EXCEPT !.status = "pending", !.list = t.list]
    [] t.seen.status # "unregistered" /\ t.seen.list = NoList -> [t.seen EXCEPT !.list = t.list]
    [] OTHER -> t.seen

Open(h) == {r \in Requests : /\ request[r] # NoRow /\ request[r].status = "pending"
                             /\ request[r].channel = tx[h].chan
                             /\ request[r].applicant = tx[h].who
                             /\ request[r].list = tx[h].list}
Unused == {r \in Requests : request[r] = NoRow /\ \A g \in Handlers : tx[g].req # r}

\* The open request of the applicant is used again; or a new one is inserted.
\* rubika_guid is unique: a channel inserted meanwhile is an error (Fail).
Lookup(h) ==
  LET t == tx[h] IN
  /\ t.stage = "lookup"
  /\ t.seen.status = "unregistered" => channel[t.chan] = Unregistered
  /\ CanFlush(h, Submitted(h)) /\ ~Clash(h, Submitted(h))
  /\ \E r \in IF Open(h) # {} THEN {NoRequest} ELSE {r \in Unused : \A s \in Unused : r <= s} :
       Step(h, [t EXCEPT !.stage = "commit", !.row = Flushed(h, Submitted(h)), !.req = r])

-----------------------------------------------------------------------------
(* An admin's decision on a pending request.                                *)

\* handle_action selects the request if it is still pending.
Choose(h, kind, r) ==
  /\ tx[h] = Idle
  /\ request[r] # NoRow /\ request[r].status = "pending"
  /\ Step(h, [Idle EXCEPT !.kind = kind, !.stage = "load", !.req = r,
                          !.chan = request[r].channel, !.list = request[r].list])

\* The channel is loaded; an approval needs verified permissions.
PermittedUnchecked(row) == TRUE
Permitted(row) == row.verified
Load(h) ==
  LET t == tx[h]  row == channel[t.chan] IN
  /\ t.stage = "load"
  /\ t.kind = "approve" => Permitted(row)
  /\ Step(h, [t EXCEPT !.seen = row,
                       !.stage = CASE t.kind = "access" -> "ask"
                                   [] t.kind = "approve" -> "activate"
                                   [] t.kind = "reject" -> "decide"])

\* What verify_channel_access finds: the account is listed as an administrator,
\* with the rights to send, to edit and to delete.
FullAccess(c, l) == <<c, l>> \in admin

\* verify_from_rubika awaits the gateway, with the account of the request's list.
Ask(h) ==
  /\ tx[h].stage = "ask"
  /\ Step(h, [tx[h] EXCEPT !.answer = FullAccess(tx[h].chan, tx[h].list),
                           !.stage = "decide"])

\* The query of allocate_channel_code flushes the channel's list and status,
\* with the code the channel had before.
Activated(h) == [tx[h].seen EXCEPT !.list = tx[h].list, !.status = "active"]
Activate(h) ==
  /\ tx[h].stage = "activate"
  /\ CanFlush(h, Activated(h)) /\ ~Clash(h, Activated(h))
  /\ Step(h, [tx[h] EXCEPT !.row = Flushed(h, Activated(h)), !.stage = "allocate"])

\* SELECT ... FOR UPDATE: the counter is read when the lock is taken.
AllocatableUnlocked(h) == TRUE
Allocatable(h) == ~ListLocked(h, tx[h].list)
NumberByCount(l) ==
  1 + Cardinality({c \in Channels : channel[c].list = l /\ channel[c].status = "active"})
Number(l) == next[l]
Allocate(h) ==
  /\ tx[h].stage = "allocate"
  /\ Allocatable(h)
  /\ Step(h, [tx[h] EXCEPT !.number = Number(tx[h].list), !.stage = "decide"])

\* The channel as the handler leaves it.
Decided(h) ==
  LET t == tx[h] IN
  CASE t.kind = "access"  -> [t.seen EXCEPT !.verified = t.answer]
    [] t.kind = "approve" -> [Activated(h) EXCEPT !.code = t.number]
    [] t.kind = "reject"  -> [t.seen EXCEPT !.status = "pending"]

Decide(h) ==
  /\ tx[h].stage = "decide"
  /\ CanFlush(h, Decided(h)) /\ ~Clash(h, Decided(h))
  /\ tx[h].kind # "access" => ~RequestLocked(h, tx[h].req)
  /\ Step(h, [tx[h] EXCEPT !.row = Flushed(h, Decided(h)), !.stage = "commit"])

-----------------------------------------------------------------------------
(* The end of a transaction.                                                *)

\* The request row the transaction leaves; a permission check leaves it alone.
ResolutionDraft == [submit |-> "draft", approve |-> "active", reject |-> "rejected"]
Resolution == [submit |-> "pending", approve |-> "active", reject |-> "rejected"]
Resolved(t) == [status |-> Resolution[t.kind],
                channel |-> t.chan,
                applicant |-> IF t.kind = "submit" THEN t.who ELSE request[t.req].applicant,
                list |-> t.list]

\* The channel row the transaction leaves.
Left(t) == IF t.row = NoRow THEN channel[t.chan] ELSE t.row

Commit(h) ==
  LET t == tx[h] IN
  /\ t.stage = "commit"
  /\ channel' = [channel EXCEPT ![t.chan] = Left(t)]
  /\ request' = IF t.req = NoRequest \/ t.kind = "access" THEN request
                ELSE [request EXCEPT ![t.req] = Resolved(t)]
  /\ IF t.kind = "approve"
       THEN /\ next' = [next EXCEPT ![t.list] = t.number + 1]
            /\ issued' = [issued EXCEPT ![t.list] = Append(@, t.number)]
            /\ origin' = [origin EXCEPT ![t.chan] = IF Left(t).code = t.number THEN t.list ELSE @]
       ELSE UNCHANGED <<next, issued, origin>>
  /\ checked' = IF t.kind = "access" /\ t.answer THEN checked \cup {<<t.chan, t.list>>} ELSE checked
  /\ tx' = [tx EXCEPT ![h] = Idle]
  /\ UNCHANGED <<admin, takedowns>>

\* The channel as the next flush of the handler wants it; that flush can run, and
\* meets the unique constraint.
Wanted(h) ==
  CASE tx[h].stage = "lookup"   -> Submitted(h)
    [] tx[h].stage = "activate" -> Activated(h)
    [] tx[h].stage = "decide"   -> Decided(h)
    [] OTHER -> tx[h].seen
Colliding(h) == CanFlush(h, Wanted(h)) /\ Clash(h, Wanted(h))

\* A ValueError, an IntegrityError of a flush, an exception of the gateway or of
\* the database, or the end of the process: the session is rolled back.
RefundedNot(t) == IF t.number # 0 THEN [next EXCEPT ![t.list] = t.number + 1] ELSE next
Refunded(t) == next
Fail(h) ==
  /\ tx[h] # Idle
  /\ tx' = [tx EXCEPT ![h] = Idle]
  /\ next' = Refunded(tx[h])
  /\ UNCHANGED <<channel, request, admin, issued, origin, checked, takedowns>>

-----------------------------------------------------------------------------
(* Others who write channels, and Rubika.                                   *)

TakeDown(c, row) ==
  /\ takedowns < MaxTakedowns
  /\ channel[c].status # "unregistered" /\ row # channel[c]
  /\ \A h \in Handlers : tx[h].chan # c \/ tx[h].row = NoRow
  /\ channel' = [channel EXCEPT ![c] = row]
  /\ takedowns' = takedowns + 1
  /\ UNCHANGED <<request, next, admin, tx, issued, origin, checked>>

\* The third early deletion of an advertisement published in the channel.
Strike(c) == channel[c].code # 0
             /\ TakeDown(c, [channel[c] EXCEPT !.status = "removed", !.list = NoList])
\* The owner's confirmed operations.
Suspend(c) == TakeDown(c, [channel[c] EXCEPT !.status = "suspended"])
Remove(c)  == TakeDown(c, [channel[c] EXCEPT !.status = "removed"])

\* The channel makes the account of a list an administrator, or no longer.
AdminChange(c, l) ==
  /\ admin' = IF <<c, l>> \in admin THEN admin \ {<<c, l>>} ELSE admin \cup {<<c, l>>}
  /\ UNCHANGED <<channel, request, next, tx, history>>

Init ==
  /\ channel = [c \in Channels |-> Unregistered]
  /\ request = [r \in Requests |-> NoRow]
  /\ next = [l \in Lists |-> 1]
  /\ admin = {}
  /\ tx = [h \in Handlers |-> Idle]
  /\ issued = [l \in Lists |-> <<>>]
  /\ origin = [c \in Channels |-> NoList]
  /\ checked = {} /\ takedowns = 0

Handle(h) ==
  \/ \E c \in Channels, a \in Applicants, l \in Lists : Submit(h, c, a, l)
  \/ \E kind \in {"access", "approve", "reject"}, r \in Requests : Choose(h, kind, r)
  \/ Lookup(h) \/ Load(h) \/ Ask(h) \/ Activate(h) \/ Allocate(h) \/ Decide(h) \/ Commit(h) \/ Fail(h)

Next ==
  \/ \E h \in Handlers : Handle(h)
  \/ \E c \in Channels : Strike(c) \/ Suspend(c) \/ Remove(c)
  \/ \E c \in Channels, l \in Lists : AdminChange(c, l)

Spec == Init /\ [][Next]_vars

-----------------------------------------------------------------------------
(* Properties.                                                              *)

Stages == {"idle", "lookup", "load", "ask", "activate", "allocate", "decide", "commit"}
Kinds == {"idle", "submit", "access", "approve", "reject"}
TxType == [kind : Kinds, stage : Stages, req : Requests \cup {NoRequest},
           chan : Channels \cup {NoRow}, list : Lists \cup {NoList},
           who : Applicants \cup {NoRow}, seen : ChannelRow \cup {NoRow},
           row : ChannelRow \cup {NoRow}, number : Nat, answer : BOOLEAN]

\* The types of the rows, and of what the handlers have loaded.
TypeOK ==
  /\ channel \in [Channels -> ChannelRow]
  /\ request \in [Requests -> RequestRow \cup {NoRow}]
  /\ next \in [Lists -> Nat]
  /\ admin \subseteq Channels \X Lists
  /\ tx \in [Handlers -> TxType]
  /\ issued \in [Lists -> Seq(Nat)]
  /\ origin \in [Channels -> Lists \cup {NoList}]
  /\ checked \subseteq Channels \X Lists
  /\ takedowns \in 0..MaxTakedowns

\* The codes of a list are issued in sequence, 1, 2, 3 and so on: two admins
\* who approve at the same time never share one, a channel that leaves does not
\* free its own, and an approval that fails after it has taken a number gives
\* it back (the lock and the rollback around services.py:233-242).
CodesInSequence ==
  \A l \in Lists :
    /\ next[l] = Len(issued[l]) + 1
    /\ \A i \in 1..Len(issued[l]) : issued[l][i] = i

\* A channel is on the air only if Rubika once confirmed to some list's account
\* that it may send, edit and delete there, and only with a code its approval
\* has taken: neither a takedown, nor a submission, nor another admin's
\* decision that comes between the reads and the writes of an approval can
\* activate a channel without both (services.py:128-134, 167-175).
ActiveIsEntitled ==
  \A c \in Channels : channel[c].status = "active" =>
    /\ \E l \in Lists : <<c, l>> \in checked
    /\ \E l \in Lists : channel[c].code \in 1..Len(issued[l])

\* An approval never meets the unique constraint on (list, code): the code it
\* writes was never given out before (tests/test_core_services.py:31, "assigns
\* monotonic code").
ApprovalNeverClashes == \A h \in Handlers : ~Colliding(h)

\* It is only met when a channel is moved between lists: as long as every channel
\* sits in, and is requested for, the list that gave it its code (or that it was
\* submitted to, when it has none), no counter read too early and no column
\* written on top of a row that has changed makes a flush of any handler collide
\* (services.py:128-135, 233-242).
Home(c) == IF channel[c].code # 0 THEN origin[c] ELSE channel[c].list
Moved(c) ==
  \/ channel[c].list \notin {Home(c), NoList}
  \/ \E h \in Handlers : /\ tx[h].chan = c /\ tx[h].list # Home(c)
                         /\ tx[h].kind = "approve" \/ channel[c].code # 0
ClashesOnlyOnMoves == ApprovalNeverClashes \/ \E c \in Channels : Moved(c)

\* A removed channel does not come back by a request: "Removed channel cannot
\* be re-registered automatically" (services.py:64).  Requests left open when
\* the channel was removed are decided all the same (services.py:131, 138).
RemovedStaysOut ==
  [][\A c \in Channels : channel[c].status = "removed" => channel'[c].status = "removed"]_vars
=============================================================================
