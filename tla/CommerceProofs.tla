---------------------------- MODULE CommerceProofs ----------------------------
(***************************************************************************)
(* Proofs about Commerce, for any number of orders, channels and concurrent *)
(* confirmations: the types, that a payment is confirmed exactly when what  *)
(* was paid for is there, that no confirmation delivers more than that, and *)
(* that a cancelled order stays cancelled.                                  *)
(*                                                                         *)
(* The unique key of campaigns.order_id is what the argument turns on: of   *)
(* the confirmations of one order at most one is inserting the campaign     *)
(* (OneInserts), and while it does there is none (TxOK).                    *)
(***************************************************************************)
EXTENDS Commerce, FiniteSetTheorems, TLAPS

\* Stages at which a confirmation has its campaign, and its channels.
Past == {"list", "channels", "targets", "finish", "commit"}
Picked == {"targets", "finish", "commit"}

\* What is known of an open confirmation, by the statement it is about to run.
TxOK(t) ==
  /\ t.stage # "idle" => t.order \in Orders /\ payment[t.order] # "none"
  /\ t.stage \in {"account", "campaign", "insert"} \cup Past
       => t.seen \in {"awaiting_payment", "running"}
  /\ t.stage \in {"order", "account", "campaign", "insert"} => t.found = "none"
  /\ t.stage \in Past => (t.found = "none" <=> campaign[t.order] = "none")
  /\ t.stage \in Picked =>
       /\ IsFiniteSet(t.adds) /\ Cardinality(t.adds) <= Wanted[t.order]
       /\ Cardinality(targets[t.order] \cup t.adds) >= Wanted[t.order]

TxType == [stage : Stages, order : Orders \cup {NoOrder},
           seen : OrderStatus \cup {"none"},
           found : CampaignStatus \cup {"none"}, adds : SUBSET Channels]

Confirmations == \A h \in Handlers : TxOK(tx[h])

OneInserts ==
  \A g, h \in Handlers :
    g # h /\ tx[g].order = tx[h].order => ~(Inserting(g) /\ Inserting(h))

\* An order whose payment is not confirmed has nothing yet; the rows of an
\* order and of its payment appear together.
RowsAgree ==
  \A o \in Orders :
    /\ order[o] = "none" <=> payment[o] = "none"
    /\ payment[o] # "confirmed" => targets[o] = {} /\ confirmed[o] = 0
    /\ IsFiniteSet(targets[o])

CInv ==
  /\ TypeOK /\ Confirmations /\ OneInserts /\ RowsAgree
  /\ PaidIsDelivered /\ DeliveredByConfirmation

-----------------------------------------------------------------------------
\* ORDER BY list_code LIMIT channel_count returns at most channel_count rows:
\* a channel is chosen for the number of members before it, which is different
\* for each.
LEMMA ChosenBound ==
  ASSUME TypeOK, NEW o \in Orders
  PROVE  IsFiniteSet(Chosen(o)) /\ Cardinality(Chosen(o)) <= Wanted[o]
<1> DEFINE M == Members(o)
           Before(c) == {d \in M : d < c}
           f == [c \in Chosen(o) |-> Cardinality(Before(c))]
<1>1. M \subseteq Nat /\ Wanted[o] \in Nat \ {0}
  BY CommerceAssumption DEF TypeOK, Members
<1>2. \A c \in M : IsFiniteSet(Before(c)) /\ Cardinality(Before(c)) \in Nat
  <2> SUFFICES ASSUME NEW c \in M
               PROVE  IsFiniteSet(Before(c)) /\ Cardinality(Before(c)) \in Nat
    OBVIOUS
  <2>1. c \in Nat /\ Before(c) \in SUBSET Nat /\ \A d \in Before(c) : d <= c
    BY <1>1
  <2>2. IsFiniteSet(Before(c))
    BY ONLY <2>1, FS_BoundedSetOfNaturals
  <2> QED
    BY ONLY <2>2, FS_CardinalityType
<1>3. \A c, d \in M : c < d => Cardinality(Before(c)) < Cardinality(Before(d))
  <2> SUFFICES ASSUME NEW c \in M, NEW d \in M, c < d
               PROVE  Cardinality(Before(c)) < Cardinality(Before(d))
    OBVIOUS
  <2>1. Before(c) \in SUBSET Before(d) /\ c \in Before(d) /\ c \notin Before(c)
    BY <1>1
  <2>2. Before(c) # Before(d)
    BY <2>1
  <2>3. /\ Cardinality(Before(c)) <= Cardinality(Before(d))
        /\ Cardinality(Before(d)) = Cardinality(Before(c)) => Before(d) = Before(c)
    <3> HIDE DEF Before
    <3> QED
      BY <1>2, <2>1, FS_Subset
  <2>4. Cardinality(Before(c)) \in Nat /\ Cardinality(Before(d)) \in Nat
    BY <1>2
  <2> HIDE DEF Before
  <2> QED
    BY <2>2, <2>3, <2>4
<1>4. Chosen(o) = {c \in M : Cardinality(Before(c)) < Wanted[o]}
  BY DEF Chosen
<1>5. f \in Injection(Chosen(o), 0 .. Wanted[o] - 1)
  <2> HIDE DEF M, Before
  <2>0. ASSUME NEW c \in Chosen(o) PROVE Cardinality(Before(c)) \in 0 .. Wanted[o] - 1
    <3>1. c \in M /\ Cardinality(Before(c)) < Wanted[o]
      BY <1>4
    <3>2. Cardinality(Before(c)) \in Nat
      BY <1>2, <3>1
    <3> QED
      BY <1>1, <3>1, <3>2
  <2>1. f \in [Chosen(o) -> 0 .. Wanted[o] - 1]
    BY <2>0
  <2>2. \A c, d \in Chosen(o) : f[c] = f[d] => c = d
    <3> SUFFICES ASSUME NEW c \in Chosen(o), NEW d \in Chosen(o), c # d
                 PROVE  f[c] # f[d]
      OBVIOUS
    <3>1. c \in M /\ d \in M /\ c \in Nat /\ d \in Nat
      BY <1>1, <1>4
    <3>2. CASE c < d
      BY <1>2, <1>3, <3>1, <3>2
    <3>3. CASE d < c
      BY <1>2, <1>3, <3>1, <3>3
    <3> QED
      BY <3>1, <3>2, <3>3
  <2> HIDE DEF f
  <2> QED
    BY <2>1, <2>2 DEF Injection, IsInjective
<1>6. IsFiniteSet(0 .. Wanted[o] - 1) /\ Cardinality(0 .. Wanted[o] - 1) = Wanted[o]
  <2>1. 0 \in Int /\ Wanted[o] - 1 \in Int /\ ~(0 > Wanted[o] - 1)
        /\ (Wanted[o] - 1) - 0 + 1 = Wanted[o]
    BY <1>1
  <2> QED
    BY ONLY <2>1, FS_Interval
<1> HIDE DEF f
<1> QED
  BY <1>5, <1>6, FS_Injection

\* What a confirmation adds and what is there already are together at least the
\* channels it has chosen.
LEMMA AddsSuffice ==
  ASSUME TypeOK, RowsAgree, NEW o \in Orders, Enough(Chosen(o), o)
  PROVE  LET adds == Chosen(o) \ targets[o] IN
         /\ IsFiniteSet(adds) /\ Cardinality(adds) <= Wanted[o]
         /\ Cardinality(targets[o] \cup adds) >= Wanted[o]
<1> DEFINE adds == Chosen(o) \ targets[o]
<1>1. IsFiniteSet(Chosen(o)) /\ Cardinality(Chosen(o)) <= Wanted[o]
  BY ChosenBound
<1>2. IsFiniteSet(targets[o]) /\ Wanted[o] \in Nat
  BY CommerceAssumption DEF RowsAgree
<1>3. adds \in SUBSET Chosen(o) /\ Chosen(o) \in SUBSET (targets[o] \cup adds)
  OBVIOUS
<1> HIDE DEF adds
<1>4. IsFiniteSet(adds) /\ Cardinality(adds) <= Cardinality(Chosen(o))
  BY <1>1, <1>3, FS_Subset
<1>5. IsFiniteSet(targets[o] \cup adds)
  BY <1>2, <1>4, FS_Union
<1>6. Cardinality(Chosen(o)) <= Cardinality(targets[o] \cup adds)
  BY <1>3, <1>5, FS_Subset
<1>7. /\ Cardinality(Chosen(o)) \in Nat /\ Cardinality(adds) \in Nat
      /\ Cardinality(targets[o] \cup adds) \in Nat
  BY <1>1, <1>4, <1>5, FS_CardinalityType
<1>8. Cardinality(Chosen(o)) >= Wanted[o]
  BY DEF Enough
<1>9. /\ Cardinality(adds) <= Wanted[o]
      /\ Cardinality(targets[o] \cup adds) >= Wanted[o]
  BY <1>1, <1>2, <1>4, <1>6, <1>7, <1>8
<1> QED
  BY <1>4, <1>9 DEF adds

-----------------------------------------------------------------------------
\* A handler without a confirmation is of the right type, and claims nothing.
LEMMA IdleOK == Idle \in TxType /\ TxOK(Idle)
  BY DEF Idle, TxType, TxOK, Stages, Past, Picked

\* The invariant holds before the first order.
LEMMA InitCInv == Init => CInv
<1> SUFFICES ASSUME Init PROVE CInv
  OBVIOUS
<1>1. TypeOK
  BY IdleOK DEF Init, TypeOK, TxType, OrderStatus, PaymentStatus, CampaignStatus
<1>2. Confirmations /\ OneInserts
  BY IdleOK DEF Init, Confirmations, OneInserts, Inserting, Idle
<1>3. RowsAgree /\ PaidIsDelivered
  BY FS_EmptySet DEF Init, RowsAgree, PaidIsDelivered
<1>4. DeliveredByConfirmation
  BY FS_EmptySet, CommerceAssumption DEF Init, DeliveredByConfirmation
<1> QED
  BY <1>1, <1>2, <1>3, <1>4 DEF CInv

\* A statement that only moves one confirmation on keeps the invariant if the
\* confirmation's new state is sound and, where it inserts the campaign, no
\* other one of the order does.
LEMMA GotoCInv ==
  ASSUME CInv, NEW h \in Handlers, NEW t \in TxType, TxOK(t), Goto(h, t),
         t.found = "none" /\ t.stage \in Past =>
           \A g \in Handlers \ {h} : tx[g].order = t.order => ~Inserting(g)
  PROVE  CInv'
<1>1. UNCHANGED <<order, payment, campaign, targets, confirmed, active, account, open>>
  BY DEF Goto, tables, network
<1>2. \A g \in Handlers : tx'[g] = IF g = h THEN t ELSE tx[g]
  BY DEF Goto, CInv, TypeOK
<1>3. TypeOK'
  BY <1>1 DEF Goto, CInv, TypeOK, TxType
<1>4. Confirmations'
  BY <1>1, <1>2 DEF CInv, Confirmations, TxOK
<1>5. OneInserts'
  BY <1>2 DEF CInv, OneInserts, Inserting, Past
<1>6. RowsAgree' /\ PaidIsDelivered' /\ DeliveredByConfirmation'
  BY <1>1 DEF CInv, RowsAgree, PaidIsDelivered, DeliveredByConfirmation
<1> QED
  BY <1>3, <1>4, <1>5, <1>6 DEF CInv

\* A confirmation that already inserts the campaign stays the only one.
LEMMA StaysAlone ==
  ASSUME CInv, NEW h \in Handlers, NEW t \in TxType, t.order = tx[h].order,
         t.found = tx[h].found, tx[h].stage \in Past
  PROVE  t.found = "none" =>
           \A g \in Handlers \ {h} : tx[g].order = t.order => ~Inserting(g)
  BY DEF CInv, OneInserts, Inserting, Past

\* Begin, the reads of the order and of the account, and the end of a failure:
\* no campaign is touched yet.
LEMMA EarlyCInv ==
  ASSUME CInv, NEW h \in Handlers
  PROVE  /\ \A o \in Orders : Begin(h, o) => CInv'
         /\ ReadOrder(h) \/ ReadAccount(h) \/ Fail(h) => CInv'
<1> USE DEF CInv
<1>1. tx[h] \in TxType /\ TxOK(tx[h])
  BY DEF TypeOK, TxType, Confirmations
<1>2. ASSUME NEW o \in Orders, Begin(h, o) PROVE CInv'
  <2> DEFINE t == [Idle EXCEPT !.stage = "order", !.order = o]
  <2>1. t \in TxType
    BY DEF Idle, TxType, Stages
  <2>2. TxOK(t) /\ t.stage \notin Past
    BY <1>2 DEF Idle, TxOK, Past, Picked, Begin
  <2> QED
    BY <1>2, <2>1, <2>2, GotoCInv DEF Begin
<1>3. ASSUME ReadOrder(h) PROVE CInv'
  <2> DEFINE t == [tx[h] EXCEPT !.stage = "account", !.seen = order[tx[h].order]]
  <2>1. tx[h].order \in Orders
    BY <1>1, <1>3 DEF ReadOrder, TxOK
  <2>2. t \in TxType
    BY <1>1, <2>1 DEF TypeOK, TxType, Stages
  <2>3. TxOK(t) /\ t.stage \notin Past
    BY <1>1, <1>3, <2>1 DEF TxType, TxOK, Past, Picked, ReadOrder, Activatable
  <2> QED
    BY <1>3, <2>2, <2>3, GotoCInv DEF ReadOrder
<1>4. ASSUME ReadAccount(h) PROVE CInv'
  <2> DEFINE t == [tx[h] EXCEPT !.stage = "campaign"]
  <2>1. t \in TxType
    BY <1>1 DEF TxType, Stages
  <2>2. TxOK(t) /\ t.stage \notin Past
    BY <1>1, <1>4 DEF TxType, TxOK, Past, Picked, ReadAccount
  <2> QED
    BY <1>4, <2>1, <2>2, GotoCInv DEF ReadAccount
<1>5. ASSUME Fail(h) PROVE CInv'
  <2>1. Idle.stage \notin Past
    BY DEF Idle, Past
  <2> QED
    BY <1>5, <2>1, IdleOK, GotoCInv DEF Fail
<1> QED
  BY <1>2, <1>3, <1>4, <1>5

\* create_campaign: the campaign that is found is there to stay, and one is
\* inserted only where there is none and nobody else inserts it.
LEMMA CampaignCInv ==
  ASSUME CInv, NEW h \in Handlers, FindCampaign(h) \/ InsertCampaign(h)
  PROVE  CInv'
<1> USE DEF CInv
<1>1. tx[h] \in TxType /\ TxOK(tx[h])
  BY DEF TypeOK, TxType, Confirmations
<1>2. tx[h].order \in Orders
  BY <1>1 DEF FindCampaign, InsertCampaign, TxOK
<1>3. CASE FindCampaign(h)
  <2> DEFINE t == [tx[h] EXCEPT !.stage = IF campaign[tx[h].order] = "none"
                                          THEN "insert" ELSE "list",
                                !.found = campaign[tx[h].order]]
  <2>1. t \in TxType
    BY <1>1, <1>2 DEF TypeOK, TxType, Stages
  <2>2. TxOK(t) /\ (t.stage \in Past => t.found # "none")
    BY <1>1, <1>2, <1>3 DEF TxType, TxOK, Past, Picked, FindCampaign
  <2> QED
    BY <1>3, <2>1, <2>2, GotoCInv DEF FindCampaign
<1>4. CASE InsertCampaign(h)
  <2> DEFINE t == [tx[h] EXCEPT !.stage = "list"]
  <2>1. t \in TxType
    BY <1>1 DEF TxType, Stages
  <2>2. TxOK(t)
    BY <1>1, <1>2, <1>4 DEF TxType, TxOK, Past, Picked, InsertCampaign
  <2>3. \A g \in Handlers \ {h} : tx[g].order = t.order => ~Inserting(g)
    BY <1>1, <1>4 DEF InsertCampaign, Others, TxType
  <2> QED
    BY <1>4, <2>1, <2>2, <2>3, GotoCInv DEF InsertCampaign
<1> QED
  BY <1>3, <1>4

\* target_list and the statements up to the COMMIT.
LEMMA TargetsCInv ==
  ASSUME CInv, NEW h \in Handlers,
         ReadList(h) \/ ReadChannels(h) \/ InsertTargets(h) \/ Finish(h)
  PROVE  CInv'
<1> USE DEF CInv
<1>1. tx[h] \in TxType /\ TxOK(tx[h])
  BY DEF TypeOK, TxType, Confirmations
<1>2. tx[h].stage \in Past /\ tx[h].order \in Orders
  BY <1>1 DEF ReadList, ReadChannels, InsertTargets, Finish, TxOK, Past
<1>3. ASSUME NEW s \in Past, Goto(h, [tx[h] EXCEPT !.stage = s]),
             s \in Picked => tx[h].stage \in Picked
      PROVE  CInv'
  <2> DEFINE t == [tx[h] EXCEPT !.stage = s]
  <2>1. t \in TxType /\ t.order = tx[h].order /\ t.found = tx[h].found
    BY <1>1 DEF TxType, Stages, Past
  <2>2. TxOK(t)
    BY <1>1, <1>2, <1>3 DEF TxType, TxOK, Past, Picked
  <2>3. t.found = "none" => \A g \in Handlers \ {h} : tx[g].order = t.order => ~Inserting(g)
    BY <1>2, <2>1, StaysAlone
  <2> HIDE DEF t
  <2> QED
    BY <1>3, <2>1, <2>2, <2>3, GotoCInv DEF t
<1>4. CASE ReadList(h)
  BY <1>3, <1>4 DEF ReadList, Past, Picked
<1>5. CASE InsertTargets(h)
  BY <1>3, <1>5 DEF InsertTargets, Past, Picked
<1>6. CASE Finish(h)
  BY <1>3, <1>6 DEF Finish, Past, Picked
<1>7. CASE ReadChannels(h)
  <2> DEFINE o == tx[h].order
             t == [tx[h] EXCEPT !.stage = "targets", !.adds = Chosen(o) \ targets[o]]
  <2>1. t \in TxType /\ t.order = o /\ t.found = tx[h].found
    BY <1>1 DEF TypeOK, TxType, Stages, Chosen, Members
  <2>2. /\ IsFiniteSet(t.adds) /\ Cardinality(t.adds) <= Wanted[o]
        /\ Cardinality(targets[o] \cup t.adds) >= Wanted[o]
    <3>1. t.adds = Chosen(o) \ targets[o]
      BY <1>1 DEF TxType
    <3> QED
      BY <1>2, <1>7, <3>1, AddsSuffice DEF ReadChannels
  <2>3. TxOK(t)
    BY <1>1, <1>2, <2>2 DEF TxType, TxOK, Past, Picked
  <2>4. t.found = "none" => \A g \in Handlers \ {h} : tx[g].order = t.order => ~Inserting(g)
    BY <1>2, <2>1, StaysAlone
  <2>5. Goto(h, t)
    BY <1>7 DEF ReadChannels
  <2> HIDE DEF t
  <2> QED
    BY <2>1, <2>3, <2>4, <2>5, GotoCInv
<1> QED
  BY <1>4, <1>5, <1>6, <1>7

\* The COMMIT: the payment is confirmed together with a campaign that has the
\* channels; whoever else has a campaign of this order in hand has found it.
LEMMA CommitCInv ==
  ASSUME CInv, NEW h \in Handlers, Commit(h)
  PROVE  CInv'
<1> DEFINE t == tx[h]
           o == t.order
<1> USE DEF CInv
<1>1. t \in TxType /\ TxOK(t) /\ t.stage = "commit"
  BY DEF TypeOK, TxType, Confirmations, Commit
<1>2. /\ o \in Orders /\ payment[o] # "none" /\ t.seen \in {"awaiting_payment", "running"}
      /\ t.found = "none" <=> campaign[o] = "none"
      /\ IsFiniteSet(t.adds) /\ Cardinality(t.adds) <= Wanted[o]
      /\ Cardinality(targets[o] \cup t.adds) >= Wanted[o]
      /\ t.adds \subseteq Channels
  BY <1>1 DEF TxOK, Past, Picked, TxType
<1>3. /\ payment' = [payment EXCEPT ![o] = "confirmed"]
      /\ order' = [order EXCEPT ![o] = IF t.seen = "running" THEN order[o] ELSE "running"]
      /\ campaign' = [campaign EXCEPT ![o] = IF t.found = "active" THEN campaign[o] ELSE "active"]
      /\ targets' = [targets EXCEPT ![o] = targets[o] \cup t.adds]
      /\ confirmed' = [confirmed EXCEPT ![o] = confirmed[o] + 1]
      /\ tx' = [tx EXCEPT ![h] = Idle]
      /\ UNCHANGED <<active, account, open>>
  BY DEF Commit, network, Started
<1> HIDE DEF t, o
<1>4. \A g \in Handlers : tx'[g] = IF g = h THEN Idle ELSE tx[g]
  BY <1>3 DEF TypeOK
<1>5. \A p \in Orders \ {o} :
        /\ payment'[p] = payment[p] /\ order'[p] = order[p] /\ campaign'[p] = campaign[p]
        /\ targets'[p] = targets[p] /\ confirmed'[p] = confirmed[p]
  BY <1>3 DEF TypeOK
<1>6. /\ payment'[o] = "confirmed" /\ order'[o] # "none" /\ campaign'[o] # "none"
      /\ targets'[o] = targets[o] \cup t.adds /\ confirmed'[o] = confirmed[o] + 1
  <2>1. order[o] # "none"
    BY <1>2 DEF RowsAgree
  <2>2. t.found = "active" => campaign[o] # "none"
    BY <1>2
  <2> QED
    BY <1>2, <1>3, <2>1, <2>2 DEF TypeOK
<1>7. TypeOK'
  <2>1. tx' \in [Handlers -> TxType]
    BY <1>3, IdleOK DEF TypeOK, TxType
  <2>2. order' \in [Orders -> OrderStatus \cup {"none"}]
    BY <1>2, <1>3 DEF TypeOK, OrderStatus
  <2>3. /\ payment' \in [Orders -> PaymentStatus \cup {"none"}]
        /\ campaign' \in [Orders -> CampaignStatus \cup {"none"}]
    BY <1>2, <1>3 DEF TypeOK, PaymentStatus, CampaignStatus
  <2>4. targets' \in [Orders -> SUBSET Channels] /\ confirmed' \in [Orders -> Nat]
    BY <1>2, <1>3 DEF TypeOK
  <2>5. active' \subseteq Channels /\ account' \subseteq Lists /\ open' \subseteq Lists
    BY <1>3 DEF TypeOK
  <2> QED
    BY <2>1, <2>2, <2>3, <2>4, <2>5 DEF TypeOK, TxType
<1>8. IsFiniteSet(targets'[o])
  <2>1. IsFiniteSet(targets[o])
    BY <1>2 DEF RowsAgree
  <2>2. IsFiniteSet(targets[o] \cup t.adds)
    BY <1>2, <2>1, FS_Union
  <2> QED
    BY <1>6, <2>2
<1>9. RowsAgree'
  <2> SUFFICES ASSUME NEW p \in Orders
               PROVE  /\ order'[p] = "none" <=> payment'[p] = "none"
                      /\ payment'[p] # "confirmed" => targets'[p] = {} /\ confirmed'[p] = 0
                      /\ IsFiniteSet(targets'[p])
    BY DEF RowsAgree
  <2>1. CASE p = o
    BY <1>6, <1>8, <2>1
  <2>2. CASE p # o
    BY <1>5, <2>2 DEF RowsAgree
  <2> QED
    BY <2>1, <2>2
<1>10. PaidIsDelivered'
  <2> SUFFICES ASSUME NEW p \in Orders
               PROVE  /\ payment'[p] = "confirmed" <=> campaign'[p] # "none"
                      /\ payment'[p] = "confirmed" => Cardinality(targets'[p]) >= Wanted[p]
                      /\ payment'[p] = "pending" => targets'[p] = {} /\ confirmed'[p] = 0
    BY DEF PaidIsDelivered
  <2>1. CASE p = o
    BY <1>2, <1>6, <2>1
  <2>2. CASE p # o
    BY <1>5, <2>2 DEF PaidIsDelivered
  <2> QED
    BY <2>1, <2>2
<1>11. DeliveredByConfirmation'
  <2> SUFFICES ASSUME NEW p \in Orders
               PROVE  Cardinality(targets'[p]) <= confirmed'[p] * Wanted[p]
    BY DEF DeliveredByConfirmation
  <2>1. CASE p = o
    <3> DEFINE k == confirmed[o]
               w == Wanted[o]
    <3>1. k \in Nat /\ w \in Nat /\ IsFiniteSet(targets[o])
      BY <1>2, CommerceAssumption DEF TypeOK, RowsAgree
    <3>2. IsFiniteSet(targets[o] \cap t.adds)
      BY <3>1, FS_Intersection
    <3>3. /\ Cardinality(targets[o]) \in Nat /\ Cardinality(t.adds) \in Nat
          /\ Cardinality(targets[o] \cap t.adds) \in Nat
      BY <1>2, <3>1, <3>2, FS_CardinalityType
    <3>4. Cardinality(targets[o] \cup t.adds)
            = Cardinality(targets[o]) + Cardinality(t.adds) - Cardinality(targets[o] \cap t.adds)
      BY <1>2, <3>1, FS_Union
    <3>5. Cardinality(targets[o]) <= k * w
      BY <1>2 DEF DeliveredByConfirmation
    <3>6. (k + 1) * w = k * w + w /\ k * w \in Nat
      BY <3>1
    <3>7. confirmed'[o] * Wanted[o] = (k + 1) * w
      BY <1>6
    <3>8. Cardinality(t.adds) <= w
      BY <1>2
    <3> HIDE DEF k, w
    <3>9. Cardinality(targets[o] \cup t.adds) <= k * w + w
      BY <3>1, <3>3, <3>4, <3>5, <3>6, <3>8
    <3> QED
      BY <1>6, <2>1, <3>6, <3>7, <3>9
  <2>2. CASE p # o
    BY <1>5, <2>2 DEF DeliveredByConfirmation
  <2> QED
    BY <2>1, <2>2
<1>12. Confirmations'
  <2> SUFFICES ASSUME NEW g \in Handlers PROVE TxOK(tx[g])'
    BY DEF Confirmations
  <2>1. CASE g = h
    BY <1>4, <2>1 DEF TxOK, Idle, Past, Picked
  <2>2. CASE g # h /\ tx[g].order # o
    <3>1. TxOK(tx[g]) /\ tx'[g] = tx[g]
      BY <1>4, <2>2 DEF Confirmations
    <3>2. tx[g].stage # "idle" => tx[g].order \in Orders \ {o}
      BY <2>2, <3>1 DEF TxOK
    <3> QED
      BY <1>5, <3>1, <3>2 DEF TxOK, Past, Picked
  <2>3. CASE g # h /\ tx[g].order = o
    <3>1. TxOK(tx[g]) /\ tx'[g] = tx[g]
      BY <1>4, <2>3 DEF Confirmations
    <3>2. tx[g].stage \in Past => tx[g].found # "none"
      <4>1. CASE t.found = "none"
        BY <1>1, <2>3, <4>1 DEF OneInserts, Inserting, Past, t, o
      <4>2. CASE t.found # "none"
        BY <1>2, <2>3, <3>1, <4>2 DEF TxOK
      <4> QED
        BY <4>1, <4>2
    <3>3. tx[g].stage \in Picked =>
            /\ IsFiniteSet(tx[g].adds) /\ Cardinality(tx[g].adds) <= Wanted[o]
            /\ Cardinality(targets'[o] \cup tx[g].adds) >= Wanted[o]
      <4> SUFFICES ASSUME tx[g].stage \in Picked
                   PROVE  /\ IsFiniteSet(tx[g].adds) /\ Cardinality(tx[g].adds) <= Wanted[o]
                          /\ Cardinality(targets'[o] \cup tx[g].adds) >= Wanted[o]
        OBVIOUS
      <4> DEFINE S == targets[o] \cup tx[g].adds
                 T == targets'[o] \cup tx[g].adds
      <4>1. /\ IsFiniteSet(tx[g].adds) /\ Cardinality(tx[g].adds) <= Wanted[o]
            /\ Cardinality(S) >= Wanted[o]
        BY <2>3, <3>1 DEF TxOK
      <4>2. S \in SUBSET T
        BY <1>6
      <4>3. IsFiniteSet(T)
        BY <1>8, <4>1, FS_Union
      <4> HIDE DEF S, T
      <4>4. IsFiniteSet(S) /\ Cardinality(S) <= Cardinality(T)
        BY <4>2, <4>3, FS_Subset
      <4>5. Cardinality(S) \in Nat /\ Cardinality(T) \in Nat /\ Wanted[o] \in Nat
        BY <1>2, <4>3, <4>4, FS_CardinalityType, CommerceAssumption
      <4>6. Cardinality(T) >= Wanted[o]
        BY <4>1, <4>4, <4>5
      <4> QED
        BY <4>1, <4>6 DEF T
    <3> QED
      BY <1>2, <1>6, <2>3, <3>1, <3>2, <3>3 DEF TxOK, Past, Picked
  <2> QED
    BY <2>1, <2>2, <2>3
<1>13. OneInserts'
  BY <1>4 DEF OneInserts, Inserting, Idle
<1> QED
  BY <1>7, <1>9, <1>10, <1>11, <1>12, <1>13

\* What users, the worker and the owner do meanwhile leaves every confirmation
\* as it was: nobody else creates a campaign or a target.
LEMMA OthersCInv ==
  ASSUME CInv, \/ \E o \in Orders : Place(o) \/ CancelOrder(o) \/ CampaignMoves(o)
               \/ NetworkChange
  PROVE  CInv'
<1> USE DEF CInv
<1>1. CASE NetworkChange
  <2>1. UNCHANGED <<order, payment, campaign, targets, confirmed, tx>>
    BY <1>1 DEF NetworkChange, tables
  <2>2. active' \subseteq Channels /\ account' \subseteq Lists /\ open' \subseteq Lists
    BY <1>1 DEF NetworkChange, Toggle, TypeOK
  <2>3. TypeOK' /\ OneInserts' /\ RowsAgree'
    BY <2>1, <2>2 DEF TypeOK, OneInserts, Inserting, RowsAgree
  <2>4. Confirmations'
    BY <2>1 DEF Confirmations, TxOK
  <2>5. PaidIsDelivered' /\ DeliveredByConfirmation'
    BY <2>1 DEF PaidIsDelivered, DeliveredByConfirmation
  <2> QED
    BY <2>3, <2>4, <2>5
<1>2. ASSUME NEW o \in Orders, Place(o) \/ CancelOrder(o) \/ CampaignMoves(o)
      PROVE  CInv'
  <2>1. /\ UNCHANGED <<targets, confirmed, active, account, open, tx>>
        /\ \A p \in Orders : /\ payment'[p] = "none" => payment[p] = "none"
                             /\ payment'[p] = "confirmed" <=> payment[p] = "confirmed"
                             /\ campaign'[p] = "none" <=> campaign[p] = "none"
                             /\ order'[p] = "none" <=> payment'[p] = "none"
    <3>1. order[o] = "none" <=> payment[o] = "none"
      BY DEF RowsAgree
    <3>2. CASE Place(o)
      BY <3>1, <3>2 DEF Place, TypeOK, network, RowsAgree
    <3>3. CASE CancelOrder(o)
      BY <3>1, <3>3 DEF CancelOrder, TypeOK, network, RowsAgree, OrderStatus
    <3>4. CASE CampaignMoves(o)
      <4>1. "none" \notin CampaignStatus
        BY DEF CampaignStatus
      <4>2. PICK s \in CampaignStatus : campaign' = [campaign EXCEPT ![o] = s]
        BY <3>4 DEF CampaignMoves
      <4>3. \A p \in Orders : campaign'[p] = "none" <=> campaign[p] = "none"
        BY <3>4, <4>1, <4>2 DEF CampaignMoves, TypeOK
      <4> QED
        BY <3>4, <4>3 DEF CampaignMoves, network, RowsAgree
    <3> QED
      BY <1>2, <3>2, <3>3, <3>4
  <2>2. /\ order' \in [Orders -> OrderStatus \cup {"none"}]
        /\ payment' \in [Orders -> PaymentStatus \cup {"none"}]
        /\ campaign' \in [Orders -> CampaignStatus \cup {"none"}]
    BY <1>2 DEF Place, CancelOrder, CampaignMoves, TypeOK, OrderStatus, PaymentStatus,
                CampaignStatus
  <2>3. TypeOK'
    BY <2>1, <2>2 DEF TypeOK
  <2>4. Confirmations'
    <3> SUFFICES ASSUME NEW h \in Handlers PROVE TxOK(tx[h])'
      BY DEF Confirmations
    <3>1. TxOK(tx[h]) /\ tx'[h] = tx[h] /\ targets' = targets
      BY <2>1 DEF Confirmations
    <3>2. CASE tx[h].stage = "idle"
      BY <3>1, <3>2 DEF TxOK, Past, Picked
    <3>3. CASE tx[h].order \in Orders
      <4>1. /\ payment[tx[h].order] # "none" => payment'[tx[h].order] # "none"
            /\ campaign'[tx[h].order] = "none" <=> campaign[tx[h].order] = "none"
        BY <2>1, <3>3
      <4> QED
        BY <3>1, <4>1 DEF TxOK
    <3> QED
      BY <3>1, <3>2, <3>3 DEF TxOK
  <2>5. OneInserts'
    BY <2>1 DEF OneInserts, Inserting
  <2>6. RowsAgree'
    BY <2>1 DEF RowsAgree
  <2>7. PaidIsDelivered' /\ DeliveredByConfirmation'
    BY <2>1 DEF PaidIsDelivered, DeliveredByConfirmation, RowsAgree
  <2> QED
    BY <2>3, <2>4, <2>5, <2>6, <2>7
<1> QED
  BY <1>1, <1>2

\* Every step keeps the invariant.
LEMMA NextCInv == CInv /\ [Next]_vars => CInv'
<1> SUFFICES ASSUME CInv, [Next]_vars PROVE CInv'
  OBVIOUS
<1>1. CASE \/ \E o \in Orders : Place(o) \/ CancelOrder(o) \/ CampaignMoves(o)
           \/ NetworkChange
  BY <1>1, OthersCInv
<1>2. ASSUME NEW h \in Handlers, Confirmation(h) PROVE CInv'
  BY <1>2, EarlyCInv, CampaignCInv, TargetsCInv, CommitCInv DEF Confirmation
<1>3. CASE UNCHANGED vars
  BY <1>3 DEF vars, tables, network, CInv, TypeOK, Confirmations, TxOK, OneInserts,
              Inserting, RowsAgree, PaidIsDelivered, DeliveredByConfirmation
<1> QED
  BY <1>1, <1>2, <1>3 DEF Next

\* The inductive invariant of the confirmations of payments.
THEOREM CInvCorrect == Spec => []CInv
<1> QED
  BY InitCInv, NextCInv, PTL DEF Spec

\* The rows and the confirmations in progress always have their types.
THEOREM CommerceTypeCorrect == Spec => []TypeOK
<1>1. CInv => TypeOK
  BY DEF CInv
<1> QED
  BY <1>1, CInvCorrect, PTL

\* A payment is confirmed if and only if its order has a campaign with at least
\* the channels that were paid for, however the confirmations of its handlers
\* interleave and wherever they fail (commerce.py:202-242).
THEOREM PaidIsDeliveredCorrect == Spec => []PaidIsDelivered
<1>1. CInv => PaidIsDelivered
  BY DEF CInv
<1> QED
  BY <1>1, CInvCorrect, PTL

\* An order never has more targets than its confirmations were paid for
\* (campaigns.py:107-143).
THEOREM DeliveredByConfirmationCorrect == Spec => []DeliveredByConfirmation
<1>1. CInv => DeliveredByConfirmation
  BY DEF CInv
<1> QED
  BY <1>1, CInvCorrect, PTL

-----------------------------------------------------------------------------
\* A cancelled order that no confirmation has loaded: the next one that loads it
\* is refused.
Refused(o) ==
  order[o] = "cancelled" /\ \A h \in Handlers : tx[h].order = o => tx[h].stage = "order"

\* No step makes a confirmation go on with an order that is refused.
LEMMA RefusedStays ==
  ASSUME NEW o \in Orders, CInv, Refused(o), [Next]_vars
  PROVE  Refused(o)'
<1> USE DEF Refused, CInv
<1>1. ASSUME NEW h \in Handlers, NEW t, Goto(h, t), t.order = o => t.stage = "order"
      PROVE  Refused(o)'
  <2>1. order' = order /\ \A g \in Handlers : tx'[g] = IF g = h THEN t ELSE tx[g]
    BY <1>1 DEF Goto, tables, TypeOK
  <2> QED
    BY <1>1, <2>1
<1>2. ASSUME NEW h \in Handlers, Confirmation(h) PROVE Refused(o)'
  <2>0. tx[h] \in TxType /\ Idle.order # o
    BY CommerceAssumption DEF TypeOK, TxType, Idle
  <2>1. CASE \E p \in Orders : Begin(h, p)
    <3>1. PICK p \in Orders : Begin(h, p)
      BY <2>1
    <3>2. [Idle EXCEPT !.stage = "order", !.order = p].stage = "order"
      BY DEF Idle
    <3> QED
      BY <1>1, <3>1, <3>2 DEF Begin
  <2>2. CASE Fail(h)
    BY <1>1, <2>0, <2>2 DEF Fail
  <2>3. CASE Commit(h)
    <3>1. tx[h].order # o /\ tx' = [tx EXCEPT ![h] = Idle]
      BY <2>3 DEF Commit
    <3>2. order'[o] = order[o]
      BY <2>3, <3>1 DEF Commit, TypeOK
    <3> QED
      BY <2>0, <3>1, <3>2 DEF TypeOK
  <2>4. CASE ReadOrder(h)
    <3>1. tx[h].order # o
      BY <2>4 DEF ReadOrder, Activatable
    <3> QED
      BY <1>1, <2>0, <2>4, <3>1 DEF ReadOrder, TxType
  <2>5. CASE \/ ReadAccount(h) \/ FindCampaign(h) \/ InsertCampaign(h) \/ ReadList(h)
             \/ ReadChannels(h) \/ InsertTargets(h) \/ Finish(h)
    <3>1. tx[h].stage # "order"
      BY <2>5 DEF ReadAccount, FindCampaign, InsertCampaign, ReadList, ReadChannels,
                  InsertTargets, Finish
    <3>2. \A s \in Stages : [tx[h] EXCEPT !.stage = s].order = tx[h].order
      BY <2>0 DEF TxType
    <3>3. CASE \E s \in Stages : Goto(h, [tx[h] EXCEPT !.stage = s])
      BY <1>1, <3>1, <3>2, <3>3
    <3>4. CASE FindCampaign(h)
      <4> DEFINE t == [tx[h] EXCEPT !.stage = IF campaign[tx[h].order] = "none"
                                              THEN "insert" ELSE "list",
                                    !.found = campaign[tx[h].order]]
      <4>1. Goto(h, t) /\ t.order = tx[h].order
        BY <2>0, <3>4 DEF FindCampaign, TxType
      <4> HIDE DEF t
      <4> QED
        BY <1>1, <3>1, <4>1
    <3>5. CASE ReadChannels(h)
      <4> DEFINE t == [tx[h] EXCEPT !.stage = "targets",
                                    !.adds = Chosen(tx[h].order) \ targets[tx[h].order]]
      <4>1. Goto(h, t) /\ t.order = tx[h].order
        BY <2>0, <3>5 DEF ReadChannels, TxType
      <4> HIDE DEF t
      <4> QED
        BY <1>1, <3>1, <4>1
    <3> QED
      BY <2>5, <3>3, <3>4, <3>5
      DEF ReadAccount, InsertCampaign, ReadList, InsertTargets, Finish, Stages
  <2> QED
    BY <1>2, <2>1, <2>2, <2>3, <2>4, <2>5 DEF Confirmation
<1>3. ASSUME NEW p \in Orders, Place(p) \/ CancelOrder(p) \/ CampaignMoves(p)
      PROVE  Refused(o)'
  BY <1>3 DEF Place, CancelOrder, CampaignMoves, TypeOK
<1>4. CASE NetworkChange \/ UNCHANGED vars
  BY <1>4 DEF NetworkChange, tables, vars
<1> QED
  BY <1>2, <1>3, <1>4 DEF Next

\* An order that is cancelled while nobody confirms its payment stays cancelled
\* for ever (commerce.py:187).
THEOREM CancelledStaysCancelledCorrect == Spec => CancelledStaysCancelled
<1> SUFFICES ASSUME NEW o \in Orders
             PROVE  Spec => []( order[o] = "cancelled" /\ (\A h \in Handlers : tx[h].order # o)
                                  => [](order[o] = "cancelled") )
  BY DEF CancelledStaysCancelled
<1>1. order[o] = "cancelled" /\ (\A h \in Handlers : tx[h].order # o) => Refused(o)
  BY DEF Refused
<1>2. Refused(o) => order[o] = "cancelled"
  BY DEF Refused
<1>3. CInv /\ Refused(o) /\ [Next]_vars => Refused(o)'
  BY RefusedStays
<1> QED
  BY <1>1, <1>2, <1>3, CInvCorrect, PTL DEF Spec
=============================================================================
