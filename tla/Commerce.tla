------------------------------ MODULE Commerce ------------------------------
(***************************************************************************)
(* How an order becomes a campaign: a user places an order with a payment  *)
(* (user_bot._finish_ad), and an admin confirms the payment                *)
(* (CommerceService.confirm_payment), which creates the campaign and its   *)
(* targets in the channels of the list that are active by then.            *)
(*                                                                         *)
(* Confirmations run concurrently, each in a transaction of its own whose  *)
(* every statement is a step here; the owner cancels orders, and the       *)
(* worker and the owner move campaigns and channels meanwhile.  An order   *)
(* is never scheduled for later: the only caller of create_order gives no  *)
(* scheduled_at, so that its campaign is active at once.                   *)
(***************************************************************************)
EXTENDS Naturals, FiniteSets

CONSTANTS
  Handlers,          \* handlers of bot updates that may run at the same time
  Orders, Lists,
  Channels,          \* numbered in the order of their codes
  ListOf,            \* list of an order
  Wanted,            \* channel_count of an order
  Home,              \* list of a channel
  NoOrder

ASSUME CommerceAssumption ==
  /\ Channels \subseteq Nat
  /\ ListOf \in [Orders -> Lists] /\ Home \in [Channels -> Lists]
  /\ Wanted \in [Orders -> Nat \ {0}]
  /\ NoOrder \notin Orders

VARIABLES
  order,       \* committed ad_orders.status
  payment,     \* committed payments.status of the order
  campaign,    \* committed campaigns.status of the order
  targets,     \* committed campaign_targets of the order: their channels
  active,      \* channels whose status is active
  account,     \* lists with an active account
  open,        \* active lists
  tx,          \* the open confirmation of each handler
  confirmed    \* committed audit rows "payment_confirmed" of the order

tables == <<order, payment, campaign, targets, confirmed>>
network == <<active, account, open>>
vars == <<tables, network, tx>>

OrderStatus == {"awaiting_payment", "running", "cancelled"}
PaymentStatus == {"pending", "confirmed"}
CampaignStatus == {"active", "paused", "completed", "failed", "cancelled"}

\* stage: the statement a confirmation is about to run; seen: the order's status
\* it has loaded; found: the campaign it has loaded, or "none" if it inserts
\* one; adds: the channels it adds targets for.
Idle == [stage |-> "idle", order |-> NoOrder, seen |-> "none", found |-> "none", adds |-> {}]

Goto(h, t) == tx' = [tx EXCEPT ![h] = t] /\ UNCHANGED <<tables, network>>
Others(h) == {g \in Handlers \ {h} : tx[g].order = tx[h].order}

-----------------------------------------------------------------------------
\* quote, create_order and prepare_payment: nobody else knows these rows.
Place(o) ==
  /\ order[o] = "none" /\ ListOf[o] \in open
  /\ order' = [order EXCEPT ![o] = "awaiting_payment"]
  /\ payment' = [payment EXCEPT ![o] = "pending"]
  /\ UNCHANGED <<campaign, targets, confirmed, network, tx>>

\* confirm_payment of a payment that is still pending; a confirmed one is left
\* alone.
Begin(h, o) ==
  /\ tx[h] = Idle /\ payment[o] = "pending"
  /\ Goto(h, [Idle EXCEPT !.stage = "order", !.order = o])

ActivatableAny(o) == TRUE
Activatable(o) == order[o] \in {"awaiting_payment", "running"}
ReadOrder(h) ==
  LET t == tx[h] IN
  /\ t.stage = "order" /\ Activatable(t.order)
  /\ Goto(h, [t EXCEPT !.stage = "account", !.seen = order[t.order]])

ReadAccount(h) ==
  /\ tx[h].stage = "account" /\ ListOf[tx[h].order] \in account
  /\ Goto(h, [tx[h] EXCEPT !.stage = "campaign"])

\* create_campaign: the campaign of the order if there is one by now.
FindCampaign(h) ==
  LET t == tx[h] IN
  /\ t.stage = "campaign"
  /\ Goto(h, [t EXCEPT !.stage = IF campaign[t.order] = "none" THEN "insert" ELSE "list",
                       !.found = campaign[t.order]])

\* campaigns.order_id is unique: the INSERT waits for another one, and fails
\* (Fail) if that one is committed.
Inserting(g) ==
  tx[g].found = "none" /\ tx[g].stage \in {"list", "channels", "targets", "finish", "commit"}
InsertCampaign(h) ==
  /\ tx[h].stage = "insert"
  /\ \A g \in Others(h) : ~Inserting(g)
  /\ campaign[tx[h].order] = "none"
  /\ Goto(h, [tx[h] EXCEPT !.stage = "list"])

\* target_list: the list must be active, and have channels enough.
ReadList(h) ==
  /\ tx[h].stage = "list" /\ ListOf[tx[h].order] \in open
  /\ Goto(h, [tx[h] EXCEPT !.stage = "channels"])

Members(o) == {c \in active : Home[c] = ListOf[o]}
\* ORDER BY list_code LIMIT channel_count
ChosenAll(o) == Members(o)
Chosen(o) == {c \in Members(o) : Cardinality({d \in Members(o) : d < c}) < Wanted[o]}
EnoughNone(S, o) == S # {}
Enough(S, o) == Cardinality(S) >= Wanted[o]

\* Channels that have a target already get no second one.
ReadChannels(h) ==
  LET t == tx[h] IN
  /\ t.stage = "channels"
  /\ Enough(Chosen(t.order), t.order)
  /\ Goto(h, [t EXCEPT !.stage = "targets", !.adds = Chosen(t.order) \ targets[t.order]])

\* (campaign, channel) is unique, too.
InsertTargets(h) ==
  LET t == tx[h] IN
  /\ t.stage = "targets"
  /\ \A g \in Others(h) : tx[g].stage \in {"finish", "commit"} => tx[g].adds \cap t.adds = {}
  /\ t.adds \cap targets[t.order] = {}
  /\ Goto(h, [t EXCEPT !.stage = "finish"])

\* The UPDATEs of payment, order and campaign take their locks.
Finish(h) ==
  /\ tx[h].stage = "finish"
  /\ \A g \in Others(h) : tx[g].stage # "commit"
  /\ Goto(h, [tx[h] EXCEPT !.stage = "commit"])

\* A campaign is inserted as a draft; it is active from the moment it is visible.
\* Only a column that differs from what was loaded is written.
StartedDraft == "draft"
Started == "active"
Commit(h) ==
  LET t == tx[h]  o == t.order IN
  /\ t.stage = "commit"
  /\ payment' = [payment EXCEPT ![o] = "confirmed"]
  /\ order' = [order EXCEPT ![o] = IF t.seen = "running" THEN @ ELSE "running"]
  /\ campaign' = [campaign EXCEPT ![o] = IF t.found = Started THEN @ ELSE Started]
  /\ targets' = [targets EXCEPT ![o] = @ \cup t.adds]
  /\ confirmed' = [confirmed EXCEPT ![o] = @ + 1]
  /\ tx' = [tx EXCEPT ![h] = Idle]
  /\ UNCHANGED network

\* A ValueError, an error of the database or the end of the process: everything
\* the confirmation has written is rolled back.
Fail(h) ==
  /\ tx[h] # Idle
  /\ Goto(h, Idle)

-----------------------------------------------------------------------------
(* Others who write the same rows.  They wait for a row that is locked.     *)

Free(o) == \A h \in Handlers : tx[h].order = o => tx[h].stage # "commit"

\* The owner cancels an order, whatever its status.
CancelOrder(o) ==
  /\ order[o] \in OrderStatus \ {"cancelled"} /\ Free(o)
  /\ order' = [order EXCEPT ![o] = "cancelled"]
  /\ UNCHANGED <<payment, campaign, targets, confirmed, network, tx>>

\* The worker completes, fails or restores a campaign; the owner pauses it, resumes
\* it whatever its status, or cancels it.  All of them write on top of what they
\* read a statement earlier, so that any status may follow any other.
CampaignMoves(o) ==
  /\ campaign[o] # "none" /\ Free(o)
  /\ \E s \in CampaignStatus : campaign' = [campaign EXCEPT ![o] = s]
  /\ UNCHANGED <<order, payment, targets, confirmed, network, tx>>

Toggle(S, x) == IF x \in S THEN S \ {x} ELSE S \cup {x}

\* Channels join and leave, accounts and lists are switched on and off.
NetworkChange ==
  /\ \/ \E c \in Channels : active' = Toggle(active, c) /\ UNCHANGED <<account, open>>
     \/ \E l \in Lists : account' = Toggle(account, l) /\ UNCHANGED <<active, open>>
     \/ \E l \in Lists : open' = Toggle(open, l) /\ UNCHANGED <<active, account>>
  /\ UNCHANGED <<tables, tx>>

Init ==
  /\ order = [o \in Orders |-> "none"]
  /\ payment = [o \in Orders |-> "none"]
  /\ campaign = [o \in Orders |-> "none"]
  /\ targets = [o \in Orders |-> {}]
  /\ confirmed = [o \in Orders |-> 0]
  /\ active \in SUBSET Channels /\ account = Lists /\ open = Lists
  /\ tx = [h \in Handlers |-> Idle]

Confirmation(h) ==
  \/ \E o \in Orders : Begin(h, o)
  \/ ReadOrder(h) \/ ReadAccount(h) \/ FindCampaign(h) \/ InsertCampaign(h)
  \/ ReadList(h) \/ ReadChannels(h) \/ InsertTargets(h) \/ Finish(h)
  \/ Commit(h) \/ Fail(h)

Next ==
  \/ \E o \in Orders : Place(o) \/ CancelOrder(o) \/ CampaignMoves(o)
  \/ \E h \in Handlers : Confirmation(h)
  \/ NetworkChange

Spec == Init /\ [][Next]_vars

-----------------------------------------------------------------------------
(* Properties.                                                              *)

Stages == {"idle", "order", "account", "campaign", "insert", "list", "channels",
           "targets", "finish", "commit"}

\* The types of the rows, and of what a confirmation has in hand.
TypeOK ==
  /\ order \in [Orders -> OrderStatus \cup {"none"}]
  /\ payment \in [Orders -> PaymentStatus \cup {"none"}]
  /\ campaign \in [Orders -> CampaignStatus \cup {"none"}]
  /\ targets \in [Orders -> SUBSET Channels]
  /\ confirmed \in [Orders -> Nat]
  /\ active \subseteq Channels /\ account \subseteq Lists /\ open \subseteq Lists
  /\ tx \in [Handlers -> [stage : Stages, order : Orders \cup {NoOrder},
                          seen : OrderStatus \cup {"none"},
                          found : CampaignStatus \cup {"none"}, adds : SUBSET Channels]]

\* A payment is confirmed if and only if its order has a campaign, and then the
\* campaign has at least the channels that were paid for: no failure between
\* create_campaign and the last flush leaves one without the other
\* (commerce.py:202-242).
PaidIsDelivered ==
  \A o \in Orders :
    /\ payment[o] = "confirmed" <=> campaign[o] # "none"
    /\ payment[o] = "confirmed" => Cardinality(targets[o]) >= Wanted[o]
    /\ payment[o] = "pending" => targets[o] = {} /\ confirmed[o] = 0

\* No confirmation adds more targets than were paid for: an order gets more of
\* them only if several confirmations of its payment overlap while channels
\* come and go (the second one finds the campaign of the first and chooses
\* again, commerce.py:177-217, campaigns.py:107-143).
DeliveredByConfirmation ==
  \A o \in Orders : Cardinality(targets[o]) <= confirmed[o] * Wanted[o]

\* An order that is cancelled while nobody is confirming its payment stays
\* cancelled (commerce.py:187).
CancelledStaysCancelled ==
  \A o \in Orders :
    []( order[o] = "cancelled" /\ (\A h \in Handlers : tx[h].order # o)
          => [](order[o] = "cancelled") )
=============================================================================
