----------------------------- MODULE BotsProofs ------------------------------
(***************************************************************************)
(* Proofs about Bots: its types, and its five properties, for any number of *)
(* persons, of handlers that overlap, of updates and of restarts.           *)
(***************************************************************************)
EXTENDS Bots, TLAPS

-----------------------------------------------------------------------------
(* The invariant.                                                           *)

\* What a handler holds fits its stage and its bot.
StageOK(k) ==
  /\ k.stage = "finishing" => k.update.bot = "user" /\ k.held \in Conversations
  /\ k.stage = "working" => /\ k.update.bot \in Staff /\ k.held \in Waiting
                            /\ k.held.kind # "lead" => k.update.bot = "owner"
  /\ k.stage = "checking" => k.update.bot = "owner" /\ k.held \in Checking
  /\ k.stage = "popping" => k.update.bot \in Staff

\* What was committed fits the bot; only the other owner's list was asked for by
\* no update of these persons.
EntryOK(e) ==
  /\ e.bot = "user" => e.what \in Conversations
  /\ e.bot = "owner" => e.what \in Forms \cup {Nothing}
  /\ e.bot = "admin" => e.what = Nothing
  /\ e.asked \in Ids => e.who \in Person
  /\ e.asked \notin Ids => e.asked = 0 /\ e.who = AnotherOwner /\ e.bot = "owner"

TypeInv ==
  /\ TypeOK
  /\ \A h \in Slots : StageOK(handler[h])
  /\ \A i \in DOMAIN done : EntryOK(done[i])
  /\ \A p \in Person : pend["admin"][p] # Nothing => pend["admin"][p].kind = "lead"
  /\ \A p \in Person : pend["owner"][p] # Nothing => pend["owner"][p].kind # "lead"

\* The question with this dictionary can be answered.
Ready(kind, f) == f \in Forms /\ Needs(kind, f)
FormsInv ==
  /\ \A p \in Person : LET w == pend["owner"][p] IN
       w # Nothing /\ w.kind # "phrase" => Ready(w.kind, form[w.asked])
  /\ \A h \in Slots : LET k == handler[h] IN
       /\ k.stage = "working" /\ k.held.kind \notin {"phrase", "lead"} => Ready(k.held.kind, form[k.held.asked])
       /\ k.stage = "checking" => Ready("capacity", form[k.held.asked])

-----------------------------------------------------------------------------
(* Types.                                                                   *)

\* The record in a slot that is taken.
LEMMA HandFacts ==
  ASSUME TypeInv, NEW h \in Slots, handler[h].stage # "rest"
  PROVE  /\ handler[h] \in Hands /\ handler[h] # Rest
         /\ handler[h].update \in Updates /\ handler[h].update.id \in Ids
         /\ handler[h].update.who \in Person /\ handler[h].update.bot \in {"user"} \cup Staff
         /\ StageOK(handler[h])
<1>1. handler[h] \in Hands \cup {Rest} /\ StageOK(handler[h])
  BY DEF TypeInv, TypeOK
<1>2. handler[h] # Rest
  BY DEF Rest
<1>3. handler[h] \in Hands
  BY <1>1, <1>2
<1>4. handler[h].update \in Updates
  BY <1>3 DEF Hands
<1>5. handler[h].update.id \in Ids /\ handler[h].update.who \in Person /\ handler[h].update.bot \in {"user"} \cup Staff
  BY <1>4 DEF Updates
<1> QED
  BY <1>1, <1>2, <1>3, <1>4, <1>5

\* None is no record of these, and a code is one of those that lists may have.
LEMMA NoneFacts ==
  /\ Nothing \notin Updates /\ Nothing \notin Conversations /\ Nothing \notin Waiting /\ Nothing \notin Forms
  /\ Nothing \notin Families /\ Nothing \notin Thresholds /\ Nothing \notin ListCodes
  /\ \A f \in Families, t \in Thresholds : ListCode(f, t) \in ListCodes
  /\ MaxSent \in Nat /\ AnotherOwner \notin Person
BY BotsAssumption, UpdatesAssumption DEF ListCodes

\* The answer to a question.
LEMMA Answered ==
  ASSUME NEW c \in Conversations, NEW u \in Updates
  PROVE  /\ WithAnswer(c, u) \in Conversations
         /\ WithAnswer(c, u).topic = c.topic /\ WithAnswer(c, u).asked = c.asked
         /\ WithAnswer(c, u).given = Append(c.given, u.id)
         /\ Len(WithAnswer(c, u).given) = Len(c.given) + 1
BY DEF WithAnswer, Conversations, Updates

LEMMA QuestionsFacts ==
  \A topic \in Topics : Len(Questions[topic]) \in Nat /\ Len(Questions[topic]) > 0
<1> SUFFICES ASSUME NEW topic \in Topics
             PROVE  Len(Questions[topic]) \in Nat /\ Len(Questions[topic]) > 0
  OBVIOUS
<1>1. topic \in {"register", "ad", "status", "support"}
  BY DEF Topics, Questions
<1>2. CASE topic = "register"
  BY <1>2 DEF Questions
<1>3. CASE topic = "ad"
  BY <1>3 DEF Questions
<1>4. CASE topic \in {"status", "support"}
  BY <1>4 DEF Questions
<1> QED
  BY <1>1, <1>2, <1>3, <1>4

LEMMA InitTypeInv == Init => TypeInv /\ FormsInv
<1> SUFFICES ASSUME Init PROVE TypeInv /\ FormsInv
  OBVIOUS
<1>1. TypeOK
  BY NoneFacts, UpdatesAssumption DEF Init, UpdatesInit, TypeOK
<1>2. (\A h \in Slots : StageOK(handler[h])) /\ \A i \in DOMAIN done : EntryOK(done[i])
  BY DEF Init, UpdatesInit, StageOK, Rest
<1>3. /\ \A p \in Person : pend["admin"][p] = Nothing /\ pend["owner"][p] = Nothing
      /\ \A h \in Slots : handler[h].stage = "rest"
  BY DEF Init, UpdatesInit, Staff, Rest
<1> QED
  BY <1>1, <1>2, <1>3 DEF TypeInv, FormsInv

\* A slot is given another content; a question is made pending; an entry is added.
LEMMA MoveTypes ==
  ASSUME TypeInv, NEW h \in Slots, NEW k \in Hands \cup {Rest}, StageOK(k), Goes(h, k)
  PROVE  /\ handler' \in [Slots -> Hands \cup {Rest}]
         /\ \A g \in Slots : StageOK(handler'[g])
         /\ \A g \in Slots : handler'[g] = IF g = h THEN k ELSE handler[g]
<1>1. handler \in [Slots -> Hands \cup {Rest}] /\ \A g \in Slots : StageOK(handler[g])
  BY DEF TypeInv, TypeOK
<1>2. \A g \in Slots : handler'[g] = IF g = h THEN k ELSE handler[g]
  BY <1>1 DEF Goes
<1>3. handler' \in [Slots -> Hands \cup {Rest}]
  BY <1>1 DEF Goes
<1>4. ASSUME NEW g \in Slots PROVE StageOK(handler'[g])
  <2>1. handler'[g] = k \/ handler'[g] = handler[g]
    BY <1>2
  <2> QED
    BY <2>1, <1>1
<1> QED
  BY <1>2, <1>3, <1>4

LEMMA PendTypes ==
  ASSUME TypeInv, NEW u \in Updates, NEW w \in Waiting \cup {Nothing}, u.bot \in Staff,
         w # Nothing => (w.kind = "lead" <=> u.bot = "admin"), Pending(u, w)
  PROVE  /\ pend' \in [Staff -> [Person -> Waiting \cup {Nothing}]]
         /\ \A p \in Person : pend'["admin"][p] # Nothing => pend'["admin"][p].kind = "lead"
         /\ \A p \in Person : pend'["owner"][p] # Nothing => pend'["owner"][p].kind # "lead"
         /\ \A b \in Staff, p \in Person :
              pend'[b][p] = IF b = u.bot /\ p = u.who THEN w ELSE pend[b][p]
<1>0. u.who \in Person /\ pend \in [Staff -> [Person -> Waiting \cup {Nothing}]]
  BY DEF Updates, TypeInv, TypeOK
<1>1. pend' = [pend EXCEPT ![u.bot] = [@ EXCEPT ![u.who] = w]]
  BY <1>0 DEF Pending
<1>2. [pend[u.bot] EXCEPT ![u.who] = w] \in [Person -> Waiting \cup {Nothing}]
  BY <1>0
<1>3. pend' \in [Staff -> [Person -> Waiting \cup {Nothing}]]
  BY <1>0, <1>1, <1>2
<1>4. \A b \in Staff, p \in Person :
        pend'[b][p] = IF b = u.bot /\ p = u.who THEN w ELSE pend[b][p]
  BY <1>0, <1>1
<1>5. \A p \in Person : pend'["admin"][p] # Nothing => pend'["admin"][p].kind = "lead"
  BY <1>4 DEF TypeInv, Staff
<1>6. \A p \in Person : pend'["owner"][p] # Nothing => pend'["owner"][p].kind # "lead"
  BY <1>4 DEF TypeInv, Staff
<1> QED
  BY <1>3, <1>4, <1>5, <1>6

LEMMA RecordTypes ==
  ASSUME TypeInv, NEW e \in Entries, EntryOK(e), done' = Append(done, e)
  PROVE  /\ done' \in Seq(Entries)
         /\ \A i \in DOMAIN done' : EntryOK(done'[i])
         /\ Len(done) \in Nat /\ DOMAIN done = 1 .. Len(done)
         /\ DOMAIN done' = 1 .. (Len(done) + 1)
         /\ \A i \in DOMAIN done' : done'[i] = IF i = Len(done) + 1 THEN e ELSE done[i]
<1>1. done \in Seq(Entries) /\ \A i \in DOMAIN done : EntryOK(done[i])
  BY DEF TypeInv, TypeOK
<1>2. Len(done) \in Nat /\ DOMAIN done = 1 .. Len(done) /\ DOMAIN done' = 1 .. (Len(done) + 1)
  BY <1>1
<1>3. \A i \in DOMAIN done' : done'[i] = IF i = Len(done) + 1 THEN e ELSE done[i]
  BY <1>1
<1>4. ASSUME NEW i \in DOMAIN done' PROVE EntryOK(done'[i])
  <2>1. done'[i] = e \/ (i \in DOMAIN done /\ done'[i] = done[i])
    BY <1>2, <1>3
  <2> QED
    BY <2>1, <1>1
<1> QED
  BY <1>1, <1>2, <1>3, <1>4

\* An update is taken up.
LEMMA TakesUpTypes ==
  ASSUME TypeInv, NEW h \in Slots, NEW u \in Updates, TakesUp(h, u),
         UNCHANGED <<restarts, renewed, done, conv, staffVars>>,
         again' \in Updates \cup {Nothing}, sent' \in 0 .. MaxSent
  PROVE  TypeInv'
<1>1. Handling("resolving", u, Nothing) \in Hands /\ StageOK(Handling("resolving", u, Nothing))
  BY DEF Handling, Hands, StageOK
<1>2. handler' \in [Slots -> Hands \cup {Rest}] /\ \A g \in Slots : StageOK(handler'[g])
  BY <1>1, MoveTypes DEF TakesUp
<1>3. u.id \in Ids /\ u.who \in Person
  BY DEF Updates
<1>4. seen' \subseteq Ids /\ mixed' \subseteq Person
  BY <1>3 DEF TakesUp, TypeInv, TypeOK
<1> QED
  BY <1>2, <1>4 DEF TypeInv, TypeOK, staffVars

LEMMA SendsTypes == ASSUME TypeInv, NEW b \in {"user"} \cup Staff, Sends(b) PROVE TypeInv'
<1>1. PICK h \in Slots, p \in Person, text \in IF b = "user" THEN UserTexts \cup {"home"} ELSE StaffTexts[b] :
        Receives(h, b, p, text)
  BY DEF Sends
<1> DEFINE u == [id |-> sent + 1, bot |-> b, who |-> p, text |-> text]
<1>2. sent < MaxSent /\ sent \in 0 .. MaxSent /\ sent + 1 \in Ids /\ sent' = sent + 1 /\ TakesUp(h, u)
      /\ again' \in {again, u} /\ UNCHANGED <<restarts, renewed, done>>
  BY <1>1, NoneFacts DEF Receives, TypeInv, TypeOK, Ids
<1>3. text \in UserTexts \cup UNION {StaffTexts[c] : c \in Staff}
  BY DEF StaffTexts, Staff
<1>4. u \in Updates
  BY <1>2, <1>3 DEF Updates
<1>5. again' \in Updates \cup {Nothing} /\ sent' \in 0 .. MaxSent
  BY <1>2, <1>4, NoneFacts DEF TypeInv, TypeOK, Ids
<1> HIDE DEF u
<1> QED
  BY <1>2, <1>4, <1>5, TakesUpTypes DEF Sends

LEMMA SharedTypes == ASSUME TypeInv, Shared PROVE TypeInv'
<1>0. UNCHANGED <<conv, staffVars>>
  BY DEF Shared
<1>1. CASE Lapse
  BY <1>0, <1>1 DEF Lapse, TypeInv, TypeOK, Updates, staffVars, EntryOK, StageOK
<1>2. ASSUME NEW h \in Slots, ReceivesAgain(h) PROVE TypeInv'
  <2>1. again \in Updates /\ again' = Nothing /\ UNCHANGED <<sent, restarts, renewed, done>>
    BY <1>2 DEF ReceivesAgain, TypeInv, TypeOK
  <2>2. CASE UNCHANGED <<handler, seen, mixed>>
    BY <1>0, <2>1, <2>2 DEF TypeInv, TypeOK, staffVars
  <2>3. CASE TakesUp(h, again)
    <3>1. sent' \in 0 .. MaxSent
      BY <2>1 DEF TypeInv, TypeOK
    <3> QED
      BY <2>3, <3>1, <2>1, <1>0, TakesUpTypes
  <2> QED
    BY <1>2, <2>2, <2>3 DEF ReceivesAgain
<1> QED
  BY <1>1, <1>2 DEF Shared

LEMMA RestartTypes == ASSUME TypeInv, ProcessRestart PROVE TypeInv'
<1>1. handler' \in [Slots -> Hands \cup {Rest}] /\ \A h \in Slots : handler'[h] = Rest
  BY DEF ProcessRestart, Restart
<1>2. \A h \in Slots : StageOK(handler'[h])
  BY <1>1 DEF StageOK, Rest
<1>3. restarts' \in 0 .. MaxRestarts /\ renewed' \subseteq Ids /\ seen' \subseteq Ids
  BY UpdatesAssumption DEF ProcessRestart, Restart, TypeInv, TypeOK, Updates
<1>4. /\ pend' \in [Staff -> [Person -> Waiting \cup {Nothing}]]
      /\ \A p \in Person : pend'["admin"][p] = Nothing /\ pend'["owner"][p] = Nothing
  BY DEF ProcessRestart, Staff
<1>5. /\ conv' \in [Person -> Conversations \cup {Nothing}] /\ \A p \in Person : conv'[p] = Nothing
      /\ form' \in [Ids -> Forms \cup {Nothing}]
  BY DEF ProcessRestart
<1> QED
  BY <1>1, <1>2, <1>3, <1>4, <1>5 DEF ProcessRestart, Restart, TypeInv, TypeOK

LEMMA OthersTypes == ASSUME TypeInv, Others PROVE TypeInv'
<1>1. PICK f \in Families, t \in Thresholds : OthersList(f, t)
  BY DEF Others
<1> DEFINE e == [bot |-> "owner", who |-> AnotherOwner, asked |-> 0, by |-> 0,
                 what |-> [type |-> f, threshold |-> t, named |-> TRUE, code |-> ListCode(f, t)]]
<1>2. done' = Append(done, e) /\ UNCHANGED <<handler, seen, again, sent, restarts, mixed, renewed, conv, pend, form>>
  BY <1>1 DEF Others, OthersList, Records, Silent, staffVars
<1>3. e.what \in Forms
  BY NoneFacts DEF Forms
<1>4. e \in Entries /\ EntryOK(e)
  BY <1>3, NoneFacts DEF Entries, EntryOK, Staff, Ids
<1> HIDE DEF e
<1>5. done' \in Seq(Entries) /\ \A i \in DOMAIN done' : EntryOK(done'[i])
  BY <1>2, <1>4, RecordTypes
<1> QED
  BY <1>2, <1>5 DEF TypeInv, TypeOK

-----------------------------------------------------------------------------
(* What the step of a handler changes: its slot, what is kept of the person  *)
(* it serves, and, where it says so, a form or what is committed.            *)

Turn(h, k, c, w) ==
  LET u == handler[h].update IN
  /\ \A g \in Slots : handler'[g] = IF g = h THEN k ELSE handler[g]
  /\ \A p \in Person : conv'[p] = IF u.bot = "user" /\ p = u.who THEN c ELSE conv[p]
  /\ \A b \in Staff, p \in Person : pend'[b][p] = IF b = u.bot /\ p = u.who THEN w ELSE pend[b][p]
  /\ Silent
EntryOf(h, what) ==
  LET k == handler[h] IN
  [bot |-> k.update.bot, who |-> k.update.who, asked |-> k.held.asked, by |-> k.update.id, what |-> what]

\* The user bot leaves the conversation as it is or ends it, begins one, takes an
\* answer, takes the last one, and submits.
UserIn(h, stage) == handler[h].stage = stage /\ handler[h].update.bot = "user"
UForgets(h) ==
  /\ UserIn(h, "resolving") /\ UNCHANGED <<form, done>>
  /\ \E c \in {conv[handler[h].update.who], Nothing} : Turn(h, Rest, c, Nothing)
UBegins(h) ==
  /\ UserIn(h, "resolving") /\ UNCHANGED <<form, done>>
  /\ conv[handler[h].update.who] = Nothing
  /\ Turn(h, Rest, Begins(handler[h].update), Nothing)
UAnswers(h) ==
  LET u == handler[h].update IN
  /\ UserIn(h, "resolving") /\ UNCHANGED <<form, done>>
  /\ conv[u.who] # Nothing
  /\ Turn(h, Rest, WithAnswer(conv[u.who], u), Nothing)
ULast(h) ==
  LET u == handler[h].update IN
  /\ UserIn(h, "resolving") /\ UNCHANGED <<form, done>>
  /\ conv[u.who] # Nothing
  /\ Turn(h, Handling("finishing", u, WithAnswer(conv[u.who], u)), Nothing, Nothing)
USubmits(h) ==
  /\ UserIn(h, "finishing") /\ UNCHANGED form
  /\ Turn(h, Rest, conv[handler[h].update.who], Nothing)
  /\ done' = done \/ done' = Append(done, EntryOf(h, handler[h].held))
UserTurn(h) == UForgets(h) \/ UBegins(h) \/ UAnswers(h) \/ ULast(h) \/ USubmits(h)

LEMMA UserTypes ==
  ASSUME TypeInv, NEW h \in Slots, UserStep(h) PROVE TypeInv' /\ UserTurn(h)
<1> DEFINE u == handler[h].update
<1> DEFINE c == conv[u.who]
<1>0. UNCHANGED <<pend, form>> /\ Silent
  BY DEF UserStep, UserResolved, UserFinishes, staffVars
<1>1. CASE UserResolved(h)
  <2>1. handler[h].stage = "resolving" /\ u.bot = "user" /\ UNCHANGED done
    BY <1>1 DEF UserResolved
  <2>2. u \in Updates /\ u.who \in Person /\ u.id \in Ids
    BY <2>1, HandFacts
  <2>3. c \in Conversations \cup {Nothing} /\ (c # Nothing => Len(c.given) < Len(Questions[c.topic]) /\ c \in Conversations)
    BY <2>2 DEF TypeInv, TypeOK
  <2>4. ASSUME NEW k \in Hands \cup {Rest}, NEW d \in Conversations \cup {Nothing}, Goes(h, k), StageOK(k),
               d # Nothing => Len(d.given) < Len(Questions[d.topic]), conv' = [conv EXCEPT ![u.who] = d]
        PROVE  TypeInv' /\ Turn(h, k, d, Nothing)
    <3>1. /\ handler' \in [Slots -> Hands \cup {Rest}] /\ \A g \in Slots : StageOK(handler'[g])
          /\ \A g \in Slots : handler'[g] = IF g = h THEN k ELSE handler[g]
      BY <2>4, MoveTypes
    <3>2. /\ conv' \in [Person -> Conversations \cup {Nothing}]
          /\ \A p \in Person : conv'[p] = IF p = u.who THEN d ELSE conv[p]
      BY <2>4, <2>2 DEF TypeInv, TypeOK
    <3>3. \A p \in Person : conv'[p] # Nothing => Len(conv'[p].given) < Len(Questions[conv'[p].topic])
      BY <3>2, <2>4 DEF TypeInv, TypeOK
    <3>4. TypeInv'
      BY <1>0, <2>1, <3>1, <3>2, <3>3 DEF TypeInv, TypeOK, Silent
    <3>5. u.bot \notin Staff
      BY <2>1 DEF Staff
    <3>6. Turn(h, k, d, Nothing)
      BY <3>1, <3>2, <3>5, <1>0, <2>1 DEF Turn
    <3> QED
      BY <3>4, <3>6
  <2>5. Rest \in Hands \cup {Rest} /\ StageOK(Rest)
    BY DEF StageOK, Rest
  <2>6. conv' = conv => conv' = [conv EXCEPT ![u.who] = c]
    BY <2>2 DEF TypeInv, TypeOK
  <2> HIDE DEF u, c
  <2>7. CASE Goes(h, Rest) /\ (conv' = conv \/ conv' = [conv EXCEPT ![u.who] = Nothing])
    <3>1. PICK d \in {c, Nothing} : conv' = [conv EXCEPT ![u.who] = d]
      BY <2>6, <2>7
    <3>2. TypeInv' /\ Turn(h, Rest, d, Nothing)
      BY <2>3, <2>4, <2>5, <2>7, <3>1
    <3> QED
      BY <3>2, <2>1, <1>0 DEF UserTurn, UForgets, UserIn, u, c
  <2>8. CASE Goes(h, Rest) /\ c = Nothing /\ u.text \in Topics /\ conv' = [conv EXCEPT ![u.who] = Begins(u)]
    <3>1. Begins(u) \in Conversations /\ Begins(u).given = <<>> /\ Begins(u).topic = u.text
      BY <2>2, <2>8 DEF Begins, Conversations
    <3>2. Len(Begins(u).given) < Len(Questions[Begins(u).topic])
      BY <3>1, <2>8, QuestionsFacts
    <3>3. TypeInv' /\ Turn(h, Rest, Begins(u), Nothing)
      BY <2>4, <2>5, <2>8, <3>1, <3>2
    <3> QED
      BY <3>3, <2>1, <2>8, <1>0 DEF UserTurn, UBegins, UserIn, u, c
  <2>9. CASE c # Nothing /\ ~IsLast(c) /\ conv' = [conv EXCEPT ![u.who] = WithAnswer(c, u)] /\ Goes(h, Rest)
    <3>1. /\ WithAnswer(c, u) \in Conversations /\ WithAnswer(c, u).topic = c.topic
          /\ Len(WithAnswer(c, u).given) = Len(c.given) + 1
      BY <2>2, <2>3, <2>9, Answered
    <3>2. Len(c.given) \in Nat /\ c.topic \in Topics
      BY <2>3, <2>9 DEF Conversations
    <3>3. Len(WithAnswer(c, u).given) < Len(Questions[WithAnswer(c, u).topic])
      BY <2>3, <2>9, <3>1, <3>2, QuestionsFacts DEF IsLast
    <3>4. TypeInv' /\ Turn(h, Rest, WithAnswer(c, u), Nothing)
      BY <2>4, <2>5, <2>9, <3>1, <3>3
    <3> QED
      BY <3>4, <2>1, <2>9, <1>0 DEF UserTurn, UAnswers, UserIn, u, c
  <2>10. CASE c # Nothing /\ conv' = [conv EXCEPT ![u.who] = Nothing]
              /\ Goes(h, Handling("finishing", u, WithAnswer(c, u)))
    <3>1. WithAnswer(c, u) \in Conversations
      BY <2>2, <2>3, <2>10, Answered
    <3>2. Handling("finishing", u, WithAnswer(c, u)) \in Hands /\ StageOK(Handling("finishing", u, WithAnswer(c, u)))
      BY <3>1, <2>1, <2>2 DEF Handling, Hands, StageOK, u
    <3>3. TypeInv' /\ Turn(h, Handling("finishing", u, WithAnswer(c, u)), Nothing, Nothing)
      BY <2>4, <2>10, <3>2
    <3> QED
      BY <3>3, <2>1, <2>10, <1>0 DEF UserTurn, ULast, UserIn, u, c
  <2>11. CASE u.text \in {"leave", "home"}
    BY <1>1, <2>7, <2>11 DEF UserResolved, u
  <2>12. CASE u.text \notin {"leave", "home"} /\ c = Nothing
    BY <1>1, <2>7, <2>8, <2>12 DEF UserResolved, u, c
  <2>13. CASE u.text \notin {"leave", "home"} /\ c # Nothing
    <3>1. IF ~Accepts(Question(c), u.text) THEN UNCHANGED conv /\ Goes(h, Rest)
          ELSE /\ conv' = [conv EXCEPT ![u.who] = AfterAnswer(c, u)]
               /\ Goes(h, IF IsLast(c) /\ c.topic # "status"
                          THEN Handling("finishing", u, WithAnswer(c, u)) ELSE Rest)
      BY <1>1, <2>13 DEF UserResolved, u, c
    <3> QED
      BY <3>1, <2>13, <2>7, <2>9, <2>10 DEF AfterAnswer
  <2> QED
    BY <2>11, <2>12, <2>13
<1>2. CASE UserFinishes(h)
  <2>1. handler[h].stage = "finishing" /\ Goes(h, Rest) /\ UNCHANGED conv
    BY <1>2 DEF UserFinishes
  <2>2. u \in Updates /\ u.who \in Person /\ u.id \in Ids /\ u.bot = "user" /\ handler[h].held \in Conversations
    BY <2>1, HandFacts DEF StageOK
  <2>3. /\ handler' \in [Slots -> Hands \cup {Rest}] /\ \A g \in Slots : StageOK(handler'[g])
        /\ \A g \in Slots : handler'[g] = IF g = h THEN Rest ELSE handler[g]
    BY <2>1, MoveTypes DEF StageOK, Rest
  <2>4. done' = done \/ done' = Append(done, EntryOf(h, handler[h].held))
    BY <1>2 DEF UserFinishes, Records, EntryOf
  <2>5. EntryOf(h, handler[h].held) \in Entries /\ EntryOK(EntryOf(h, handler[h].held))
    <3>1. handler[h].held.asked \in Ids
      BY <2>2 DEF Conversations
    <3> QED
      BY <3>1, <2>2 DEF EntryOf, Entries, EntryOK, Staff, Ids
  <2>6. done' \in Seq(Entries) /\ \A i \in DOMAIN done' : EntryOK(done'[i])
    <3>1. CASE done' = done
      BY <3>1 DEF TypeInv, TypeOK
    <3>2. CASE done' = Append(done, EntryOf(h, handler[h].held))
      BY <3>2, <2>5, RecordTypes
    <3> QED
      BY <2>4, <3>1, <3>2
  <2>7. TypeInv'
    BY <1>0, <2>1, <2>3, <2>6 DEF TypeInv, TypeOK, Silent
  <2>8. Turn(h, Rest, conv[u.who], Nothing)
    BY <1>0, <2>1, <2>2, <2>3 DEF Turn, Staff
  <2> QED
    BY <2>1, <2>2, <2>4, <2>7, <2>8, <1>0 DEF UserTurn, USubmits, UserIn
<1> QED
  BY <1>1, <1>2 DEF UserStep

\* The owner and the admin bot forget what is pending or leave it, ask a first
\* question, read what is pending, write an answer and ask the next question, look
\* for a code, write it, and commit.
StaffIn(h, stage) == handler[h].stage = stage /\ handler[h].update.bot \in Staff
PendingOf(h) == pend[handler[h].update.bot][handler[h].update.who]
Labels == {"menu", "refresh"}
FormBecomes(n, f) == \A m \in Ids : form'[m] = IF m = n THEN f ELSE form[m]
Grows(kind, n, f) ==
  /\ f \in Forms /\ Needs(kind, f)
  /\ \A other \in {"type", "threshold", "name", "capacity", "create"} : Ready(other, form[n]) => Needs(other, f)
SForgets(h) ==
  /\ \E stage \in {"resolving", "working", "checking", "popping"} : StaffIn(h, stage)
  /\ UNCHANGED <<form, done>>
  /\ \E k \in {Rest, Handling("popping", handler[h].update, Nothing)}, w \in {PendingOf(h), Nothing} :
       /\ Turn(h, k, Nothing, w)
       /\ handler[h].stage = "popping" /\ handler[h].update.text \notin Labels => w = Nothing
SAsks(h) ==
  LET u == handler[h].update IN
  /\ StaffIn(h, "resolving") /\ UNCHANGED done /\ ~Keyed(u)
  /\ \E kind \in {"type", "phrase", "lead"} :
       /\ (kind = "lead" <=> u.bot = "admin")
       /\ Turn(h, Rest, Nothing, Waits(kind, u.id))
       /\ IF kind = "type" THEN FormBecomes(u.id, Blank) ELSE form' = form
SReads(h) ==
  /\ StaffIn(h, "resolving") /\ UNCHANGED <<form, done>>
  /\ PendingOf(h) # Nothing
  /\ Turn(h, Handling("working", handler[h].update, PendingOf(h)), Nothing, PendingOf(h))
SFills(h) ==
  LET n == handler[h].held.asked IN
  /\ StaffIn(h, "working") /\ UNCHANGED done
  /\ handler[h].held.kind \in {"type", "threshold", "name"}
  /\ \E kind \in {"threshold", "name", "capacity"}, f \in Forms :
       Turn(h, Rest, Nothing, Waits(kind, n)) /\ FormBecomes(n, f) /\ Grows(kind, n, f)
CodeOf(f) == ListCode(f.type, f.threshold)
SLooks(h) ==
  LET k == handler[h] IN
  /\ StaffIn(h, "working") /\ UNCHANGED <<form, done>>
  /\ k.held.kind = "capacity"
  /\ Turn(h, Handling("checking", k.update, [asked |-> k.held.asked, code |-> CodeOf(form[k.held.asked])]),
          Nothing, PendingOf(h))
SCodes(h) ==
  LET n == handler[h].held.asked IN
  /\ StaffIn(h, "checking") /\ UNCHANGED done
  /\ \E f \in Forms : /\ f = [form[n] EXCEPT !.code = handler[h].held.code]
                      /\ Turn(h, Rest, Nothing, Waits("create", n))
                      /\ FormBecomes(n, f) /\ Grows("create", n, f)
SCommits(h) ==
  LET k == handler[h] IN
  /\ StaffIn(h, "working") /\ UNCHANGED form /\ k.update.text \notin Labels
  /\ Turn(h, Handling("popping", k.update, Nothing), Nothing, PendingOf(h))
  /\ \E what \in {Nothing, form[k.held.asked]} :
       /\ done' = Append(done, EntryOf(h, what))
       /\ what # Nothing => /\ k.held.kind = "create" /\ k.update.bot = "owner"
                            /\ what \in Forms /\ what.code \notin Codes
StaffTurn(h) ==
  \/ SForgets(h) \/ SAsks(h) \/ SReads(h) \/ SFills(h) \/ SLooks(h) \/ SCodes(h) \/ SCommits(h)

LEMMA StaffMoves ==
  ASSUME TypeInv, NEW h \in Slots, handler[h].stage # "rest", handler[h].update.bot \in Staff,
         NEW k \in Hands \cup {Rest}, StageOK(k), Goes(h, k),
         NEW w \in Waiting \cup {Nothing},
         w # Nothing => (w.kind = "lead" <=> handler[h].update.bot = "admin"),
         Pending(handler[h].update, w) \/ (UNCHANGED pend /\ w = PendingOf(h)),
         Silent, UNCHANGED conv,
         form' \in [Ids -> Forms \cup {Nothing}], done' \in Seq(Entries),
         \A i \in DOMAIN done' : EntryOK(done'[i])
  PROVE  TypeInv' /\ Turn(h, k, Nothing, w)
<1> DEFINE u == handler[h].update
<1>1. u \in Updates /\ u.bot # "user"
  BY HandFacts DEF Staff
<1>2. /\ handler' \in [Slots -> Hands \cup {Rest}]
      /\ \A g \in Slots : StageOK(handler'[g])
      /\ \A g \in Slots : handler'[g] = IF g = h THEN k ELSE handler[g]
  BY MoveTypes
<1> HIDE DEF u
<1>3. /\ pend' \in [Staff -> [Person -> Waiting \cup {Nothing}]]
      /\ \A p \in Person : pend'["admin"][p] # Nothing => pend'["admin"][p].kind = "lead"
      /\ \A p \in Person : pend'["owner"][p] # Nothing => pend'["owner"][p].kind # "lead"
      /\ \A b \in Staff, p \in Person :
           pend'[b][p] = IF b = u.bot /\ p = u.who THEN w ELSE pend[b][p]
  <2>1. CASE Pending(u, w)
    BY <2>1, <1>1, PendTypes DEF u
  <2>2. CASE UNCHANGED pend /\ w = PendingOf(h)
    <3>1. \A b \in Staff, p \in Person : pend'[b][p] = IF b = u.bot /\ p = u.who THEN w ELSE pend[b][p]
      BY <2>2 DEF PendingOf, u
    <3> QED
      BY <3>1, <2>2 DEF TypeInv, TypeOK
  <2> QED
    BY <2>1, <2>2 DEF u
<1>4. TypeInv'
  BY <1>2, <1>3 DEF TypeInv, TypeOK, Silent
<1>5. Turn(h, k, Nothing, w)
  BY <1>1, <1>2, <1>3 DEF Turn, u
<1> QED
  BY <1>4, <1>5

\* What a handler of these bots may take from what is pending, or leave of it.
LEMMA PendingFacts ==
  ASSUME TypeInv, NEW h \in Slots, handler[h].stage # "rest", handler[h].update.bot \in Staff
  PROVE  /\ PendingOf(h) \in Waiting \cup {Nothing}
         /\ PendingOf(h) # Nothing => (PendingOf(h).kind = "lead" <=> handler[h].update.bot = "admin")
         /\ Nothing \in Waiting \cup {Nothing}
         /\ \A k \in {Rest, Handling("popping", handler[h].update, Nothing)} :
              k \in Hands \cup {Rest} /\ StageOK(k)
         /\ form' = form => form' \in [Ids -> Forms \cup {Nothing}]
         /\ done' = done => done' \in Seq(Entries) /\ \A i \in DOMAIN done' : EntryOK(done'[i])
<1>1. handler[h].update \in Updates /\ handler[h].update.who \in Person
  BY HandFacts
<1>2. PendingOf(h) \in Waiting \cup {Nothing}
  BY <1>1 DEF PendingOf, TypeInv, TypeOK
<1>3. PendingOf(h) # Nothing => (PendingOf(h).kind = "lead" <=> handler[h].update.bot = "admin")
  BY <1>1 DEF PendingOf, TypeInv, Staff
<1>4. \A k \in {Rest, Handling("popping", handler[h].update, Nothing)} :
        k \in Hands \cup {Rest} /\ StageOK(k)
  BY <1>1 DEF Handling, Hands, Rest, StageOK
<1> QED
  BY <1>2, <1>3, <1>4 DEF TypeInv, TypeOK

\* The steps that only forget, ask or read.
LEMMA ForgetTypes ==
  ASSUME TypeInv, NEW h \in Slots, UNCHANGED conv,
         Menu(h) \/ Denied(h) \/ Refused(h) \/ Popping(h) \/
           (CapacityChecked(h) /\ handler[h].held.code \in Codes)
  PROVE  TypeInv' /\ SForgets(h)
<1> DEFINE u == handler[h].update
<1>1. /\ handler[h].stage \in {"resolving", "working", "checking", "popping"} /\ u.bot \in Staff
      /\ handler[h].stage = "resolving" \/ handler[h].stage # "resolving"
      /\ Silent /\ UNCHANGED <<form, done>>
  BY HandFacts DEF Menu, Denied, Refused, Popping, CapacityChecked, StageOK, staffVars, Staff
<1>2. PICK k \in {Rest, Handling("popping", u, Nothing)} : Goes(h, k)
  BY DEF Menu, Denied, Refused, Popping, CapacityChecked
<1>3. Pending(u, Nothing) \/ UNCHANGED pend
  BY DEF Menu, Denied, Refused, Popping, CapacityChecked, Pops, staffVars
<1>4. handler[h].stage = "popping" /\ u.text \notin Labels => Pending(u, Nothing)
  BY DEF Menu, Denied, Refused, Popping, CapacityChecked, Pops, Labels
<1>5. PICK w \in {PendingOf(h), Nothing} :
        /\ Pending(u, w) \/ (UNCHANGED pend /\ w = PendingOf(h))
        /\ handler[h].stage = "popping" /\ u.text \notin Labels => w = Nothing
  BY <1>3, <1>4
<1>6. TypeInv' /\ Turn(h, k, Nothing, w)
  BY <1>1, <1>2, <1>5, PendingFacts, StaffMoves
<1> QED
  BY <1>1, <1>5, <1>6 DEF SForgets, StaffIn

LEMMA PressTypes ==
  ASSUME TypeInv, NEW h \in Slots, UNCHANGED conv, OwnerPress(h) \/ AdminPress(h)
  PROVE  TypeInv' /\ (SForgets(h) \/ SAsks(h))
<1> DEFINE u == handler[h].update
<1>1. /\ handler[h].stage = "resolving" /\ u.bot \in Staff /\ ~Keyed(u)
      /\ Goes(h, Rest) /\ Silent /\ UNCHANGED done
  BY DEF OwnerPress, AdminPress, Press, Keyed, Staff
<1>2. u \in Updates /\ u.id \in Ids
  BY <1>1, HandFacts
<1>3. CASE UNCHANGED form /\ (UNCHANGED pend \/ Pending(u, Nothing))
  <2>1. PICK w \in {PendingOf(h), Nothing} : Pending(u, w) \/ (UNCHANGED pend /\ w = PendingOf(h))
    BY <1>3
  <2>2. TypeInv' /\ Turn(h, Rest, Nothing, w)
    BY <1>1, <1>3, <2>1, PendingFacts, StaffMoves
  <2> QED
    BY <1>1, <1>3, <2>2 DEF SForgets, StaffIn
<1>4. ASSUME NEW kind \in {"type", "phrase", "lead"}, Pending(u, Waits(kind, u.id)),
             kind = "lead" <=> u.bot = "admin",
             IF kind = "type" THEN form' = [form EXCEPT ![u.id] = Blank] ELSE form' = form
      PROVE  TypeInv' /\ SAsks(h)
  <2>1. Waits(kind, u.id) \in Waiting \cup {Nothing} /\ Waits(kind, u.id).kind = kind
    BY <1>2 DEF Waits, Waiting
  <2>2. /\ form' \in [Ids -> Forms \cup {Nothing}]
        /\ IF kind = "type" THEN FormBecomes(u.id, Blank) ELSE form' = form
    <3>1. Blank \in Forms /\ form \in [Ids -> Forms \cup {Nothing}]
      BY DEF Blank, Forms, TypeInv, TypeOK
    <3> QED
      BY <3>1, <1>2, <1>4 DEF FormBecomes
  <2>3. TypeInv' /\ Turn(h, Rest, Nothing, Waits(kind, u.id))
    BY <1>1, <1>4, <2>1, <2>2, PendingFacts, StaffMoves
  <2>4. kind = "lead" <=> u.bot = "admin"
    BY <1>1, <1>4 DEF Staff
  <2> QED
    BY <1>1, <2>2, <2>3, <2>4 DEF SAsks, StaffIn
<1>5. CASE OwnerPress(h)
  <2>0. u.bot = "owner"
    BY <1>5 DEF OwnerPress, Press
  <2>1. CASE u.text = "list:create" /\ Pending(u, Waits("type", u.id)) /\ form' = [form EXCEPT ![u.id] = Blank]
    BY <2>0, <2>1, <1>4
  <2>2. CASE u.text = "operate" /\ Pending(u, Waits("phrase", u.id)) /\ UNCHANGED form
    BY <2>0, <2>2, <1>4
  <2> QED
    BY <1>3, <1>5, <2>1, <2>2 DEF OwnerPress, staffVars
<1>6. CASE AdminPress(h)
  <2>0. u.bot = "admin" /\ UNCHANGED form
    BY <1>6 DEF AdminPress, Press
  <2>1. CASE u.text = "recruit:start" /\ Pending(u, Waits("lead", u.id))
    BY <2>0, <2>1, <1>4
  <2> QED
    BY <1>3, <1>6, <2>0, <2>1 DEF AdminPress
<1> QED
  BY <1>5, <1>6

LEMMA MessageTypes ==
  ASSUME TypeInv, NEW h \in Slots, UNCHANGED conv, Message(h)
  PROVE  TypeInv' /\ (SForgets(h) \/ SReads(h))
<1> DEFINE u == handler[h].update
<1> DEFINE p == PendingOf(h)
<1>1. /\ handler[h].stage = "resolving" /\ u.bot \in Staff
      /\ Silent /\ UNCHANGED <<pend, form, done>>
      /\ Goes(h, IF p # Nothing THEN Handling("working", u, p)
                 ELSE IF u.text = "refresh" THEN Handling("popping", u, Nothing) ELSE Rest)
  BY DEF Message, staffVars, PendingOf
<1>2. u \in Updates
  BY <1>1, HandFacts
<1>3. CASE p = Nothing
  <2>1. PICK k \in {Rest, Handling("popping", u, Nothing)} : Goes(h, k)
    BY <1>1, <1>3
  <2>2. TypeInv' /\ Turn(h, k, Nothing, p)
    BY <1>1, <2>1, PendingFacts, StaffMoves
  <2> QED
    BY <1>1, <2>2 DEF SForgets, StaffIn
<1>4. CASE p # Nothing
  <2>1. p \in Waiting /\ (p.kind = "lead" <=> u.bot = "admin")
    BY <1>1, <1>4, PendingFacts
  <2>2. Handling("working", u, p) \in Hands /\ StageOK(Handling("working", u, p))
    BY <1>1, <1>2, <2>1 DEF Handling, Hands, StageOK, Staff
  <2>3. TypeInv' /\ Turn(h, Handling("working", u, p), Nothing, p)
    BY <1>1, <1>4, <2>1, <2>2, PendingFacts, StaffMoves
  <2> QED
    BY <1>1, <1>4, <2>3 DEF SReads, StaffIn
<1> QED
  BY <1>3, <1>4

\* An answer that is written into a form takes nothing away.
FormKinds == {"type", "threshold", "name", "capacity", "create"}
LEMMA Grown ==
  ASSUME NEW f \in Forms
  PROVE  /\ Needs("type", f)
         /\ \A t \in Families : LET g == [f EXCEPT !.type = t] IN
              g \in Forms /\ Needs("threshold", g) /\ \A kind \in FormKinds : Needs(kind, f) => Needs(kind, g)
         /\ \A t \in Thresholds : LET g == [f EXCEPT !.threshold = t] IN
              g \in Forms /\ (Needs("threshold", f) => Needs("name", g))
                          /\ \A kind \in FormKinds : Needs(kind, f) => Needs(kind, g)
         /\ LET g == [f EXCEPT !.named = TRUE] IN
              g \in Forms /\ (Needs("name", f) => Needs("capacity", g))
                          /\ \A kind \in FormKinds : Needs(kind, f) => Needs(kind, g)
         /\ \A c \in ListCodes : LET g == [f EXCEPT !.code = c] IN
              g \in Forms /\ (Needs("capacity", f) => Needs("create", g))
                          /\ \A kind \in FormKinds : Needs(kind, f) => Needs(kind, g)
<1>1. Needs("type", f)
  BY DEF Needs
<1>2. ASSUME NEW t \in Families
      PROVE  LET g == [f EXCEPT !.type = t] IN
             g \in Forms /\ Needs("threshold", g) /\ \A kind \in FormKinds : Needs(kind, f) => Needs(kind, g)
  BY NoneFacts DEF Forms, Needs, FormKinds
<1>3. ASSUME NEW t \in Thresholds
      PROVE  LET g == [f EXCEPT !.threshold = t] IN
             g \in Forms /\ (Needs("threshold", f) => Needs("name", g))
                         /\ \A kind \in FormKinds : Needs(kind, f) => Needs(kind, g)
  BY NoneFacts DEF Forms, Needs, FormKinds
<1>4. LET g == [f EXCEPT !.named = TRUE] IN
      g \in Forms /\ (Needs("name", f) => Needs("capacity", g))
                  /\ \A kind \in FormKinds : Needs(kind, f) => Needs(kind, g)
  BY DEF Forms, Needs, FormKinds
<1>5. ASSUME NEW c \in ListCodes
      PROVE  LET g == [f EXCEPT !.code = c] IN
             g \in Forms /\ (Needs("capacity", f) => Needs("create", g))
                         /\ \A kind \in FormKinds : Needs(kind, f) => Needs(kind, g)
  BY NoneFacts DEF Forms, Needs, FormKinds
<1> QED
  BY <1>1, <1>2, <1>3, <1>4, <1>5

\* The next question is asked of the form, with one answer more.
LEMMA FillMoves ==
  ASSUME TypeInv, NEW h \in Slots, handler[h].stage \in {"working", "checking"},
         handler[h].update.bot = "owner", handler[h].held.asked \in Ids,
         NEW f \in Forms, NEW kind \in {"threshold", "name", "capacity", "create"},
         Fills(h, f, kind), UNCHANGED conv
  PROVE  /\ TypeInv'
         /\ Turn(h, Rest, Nothing, Waits(kind, handler[h].held.asked))
         /\ FormBecomes(handler[h].held.asked, f) /\ UNCHANGED done
<1> DEFINE n == handler[h].held.asked
<1> DEFINE u == handler[h].update
<1>1. /\ form' = [form EXCEPT ![n] = f] /\ Pending(u, Waits(kind, n)) /\ Goes(h, Rest)
      /\ Silent /\ UNCHANGED done
  BY DEF Fills
<1>2. form \in [Ids -> Forms \cup {Nothing}]
  BY DEF TypeInv, TypeOK
<1>3. form' \in [Ids -> Forms \cup {Nothing}] /\ FormBecomes(n, f)
  BY <1>1, <1>2 DEF FormBecomes
<1>4. Waits(kind, n) \in Waiting \cup {Nothing} /\ Waits(kind, n).kind = kind
  BY DEF Waits, Waiting
<1>5. u.bot \in Staff /\ u.bot # "admin"
  BY DEF Staff
<1>6. TypeInv' /\ Turn(h, Rest, Nothing, Waits(kind, n))
  BY <1>1, <1>3, <1>4, <1>5, PendingFacts, StaffMoves
<1> QED
  BY <1>1, <1>3, <1>6

LEMMA FillTypes ==
  ASSUME TypeInv, FormsInv, NEW h \in Slots, UNCHANGED conv,
         ListType(h) \/ ListThreshold(h) \/ ListName(h)
  PROVE  TypeInv' /\ SFills(h)
<1> DEFINE n == handler[h].held.asked
<1> DEFINE kind == handler[h].held.kind
<1>1. handler[h].stage = "working" /\ kind \in {"type", "threshold", "name"}
  BY DEF ListType, ListThreshold, ListName, Working
<1>2. handler[h].update.bot = "owner" /\ n \in Ids /\ StaffIn(h, "working")
  BY <1>1, HandFacts DEF StageOK, Waiting, StaffIn, Staff
<1>3. form[n] \in Forms /\ Needs(kind, form[n])
  BY <1>1 DEF FormsInv, Ready
<1>4. ASSUME NEW f \in Forms, NEW next \in {"threshold", "name", "capacity"}, Fills(h, f, next),
             Needs(next, f), \A other \in FormKinds : Needs(other, form[n]) => Needs(other, f)
      PROVE  TypeInv' /\ SFills(h)
  <2>1. TypeInv' /\ Turn(h, Rest, Nothing, Waits(next, n)) /\ FormBecomes(n, f) /\ UNCHANGED done
    BY <1>1, <1>2, <1>4, FillMoves
  <2>2. Grows(next, n, f)
    BY <1>4 DEF Grows, Ready, FormKinds
  <2> QED
    BY <1>1, <1>2, <2>1, <2>2 DEF SFills
<1>5. CASE ListType(h)
  <2>1. Fills(h, [form[n] EXCEPT !.type = Text(h)], "threshold") /\ kind = "type" /\ Text(h) \in Families
    BY <1>5 DEF ListType, FormOf, Working
  <2>2. LET f == [form[n] EXCEPT !.type = Text(h)] IN
        f \in Forms /\ Needs("threshold", f) /\ \A other \in FormKinds : Needs(other, form[n]) => Needs(other, f)
    BY <1>3, <2>1, Grown
  <2> QED
    BY <1>4, <2>1, <2>2
<1>6. CASE ListThreshold(h)
  <2>1. Fills(h, [form[n] EXCEPT !.threshold = Text(h)], "name") /\ kind = "threshold" /\ Text(h) \in Thresholds
    BY <1>6 DEF ListThreshold, FormOf, Working
  <2>2. LET f == [form[n] EXCEPT !.threshold = Text(h)] IN
        f \in Forms /\ Needs("name", f) /\ \A other \in FormKinds : Needs(other, form[n]) => Needs(other, f)
    BY <1>3, <2>1, Grown
  <2> QED
    BY <1>4, <2>1, <2>2
<1>7. CASE ListName(h)
  <2>1. Fills(h, [form[n] EXCEPT !.named = TRUE], "capacity") /\ kind = "name"
    BY <1>7 DEF ListName, FormOf, Working
  <2>2. LET f == [form[n] EXCEPT !.named = TRUE] IN
        f \in Forms /\ Needs("capacity", f) /\ \A other \in FormKinds : Needs(other, form[n]) => Needs(other, f)
    BY <1>3, <2>1, Grown
  <2> QED
    BY <1>4, <2>1, <2>2
<1> QED
  BY <1>5, <1>6, <1>7

LEMMA LookTypes ==
  ASSUME TypeInv, FormsInv, NEW h \in Slots, UNCHANGED conv, ListCapacity(h)
  PROVE  TypeInv' /\ SLooks(h)
<1> DEFINE n == handler[h].held.asked
<1> DEFINE u == handler[h].update
<1> DEFINE k == Handling("checking", u, [asked |-> n, code |-> CodeOf(form[n])])
<1>1. /\ handler[h].stage = "working" /\ handler[h].held.kind = "capacity"
      /\ Goes(h, k) /\ UNCHANGED <<pend, form, done>> /\ Silent
  BY DEF ListCapacity, Working, AsksLater, FormOf, CodeOf
<1>2. u \in Updates /\ u.bot = "owner" /\ n \in Ids /\ u.bot \in Staff
  BY <1>1, HandFacts DEF StageOK, Waiting, Staff
<1>3. form[n] \in Forms /\ Needs("capacity", form[n])
  BY <1>1 DEF FormsInv, Ready
<1>4. form[n].type \in Families /\ form[n].threshold \in Thresholds
  BY <1>3 DEF Needs, Forms
<1>5. [asked |-> n, code |-> CodeOf(form[n])] \in Checking
  BY <1>2, <1>4, NoneFacts DEF Checking, CodeOf
<1>6. k \in Hands /\ StageOK(k)
  BY <1>2, <1>5 DEF Handling, Hands, StageOK
<1>7. TypeInv' /\ Turn(h, k, Nothing, PendingOf(h))
  BY <1>1, <1>2, <1>6, PendingFacts, StaffMoves
<1> QED
  BY <1>1, <1>2, <1>7 DEF SLooks, StaffIn

LEMMA CodeTypes ==
  ASSUME TypeInv, FormsInv, NEW h \in Slots, UNCHANGED conv, CapacityChecked(h),
         handler[h].held.code \notin Codes
  PROVE  TypeInv' /\ SCodes(h)
<1> DEFINE n == handler[h].held.asked
<1> DEFINE f == [form[n] EXCEPT !.code = handler[h].held.code]
<1>1. handler[h].stage = "checking" /\ Fills(h, f, "create")
  BY DEF CapacityChecked, FormOf
<1>2. /\ handler[h].update.bot = "owner" /\ n \in Ids /\ StaffIn(h, "checking")
      /\ handler[h].held.code \in ListCodes
  BY <1>1, HandFacts DEF StageOK, Checking, StaffIn, Staff
<1>3. form[n] \in Forms /\ Needs("capacity", form[n])
  BY <1>1 DEF FormsInv, Ready
<1>4. f \in Forms /\ Needs("create", f) /\ \A kind \in FormKinds : Needs(kind, form[n]) => Needs(kind, f)
  BY <1>2, <1>3, Grown
<1>5. TypeInv' /\ Turn(h, Rest, Nothing, Waits("create", n)) /\ FormBecomes(n, f) /\ UNCHANGED done
  BY <1>1, <1>2, <1>4, FillMoves
<1>6. Grows("create", n, f)
  BY <1>4 DEF Grows, Ready, FormKinds
<1> QED
  BY <1>2, <1>4, <1>5, <1>6 DEF SCodes

LEMMA CommitTypes ==
  ASSUME TypeInv, FormsInv, NEW h \in Slots, UNCHANGED conv,
         CreateList(h) \/ CarryOut(h) \/ Recruit(h)
  PROVE  TypeInv' /\ SCommits(h)
<1> DEFINE n == handler[h].held.asked
<1> DEFINE u == handler[h].update
<1> DEFINE k == Handling("popping", u, Nothing)
<1>1. /\ handler[h].stage = "working" /\ u.text \notin Labels
      /\ Goes(h, k) /\ UNCHANGED <<pend, form>> /\ Silent
  BY DEF CreateList, CarryOut, Recruit, Commits, Working, Text, Labels, staffVars
<1>2. u \in Updates /\ u.bot \in Staff /\ n \in Ids /\ handler[h].held \in Waiting
  BY <1>1, HandFacts DEF StageOK, Waiting
<1>3. PICK what \in {Nothing, form[n]} :
        /\ done' = Append(done, EntryOf(h, what))
        /\ what # Nothing => /\ handler[h].held.kind = "create" /\ u.bot = "owner"
                             /\ what \in Forms /\ what.code \notin Codes
  <2>1. CASE CreateList(h)
    <3>1. handler[h].held.kind = "create" /\ form[n].code \notin Codes /\ done' = Append(done, EntryOf(h, form[n]))
      BY <2>1 DEF CreateList, Commits, Records, EntryOf, FormOf, NewCode, Working
    <3>2. u.bot = "owner" /\ form[n] \in Forms
      BY <3>1, <1>1, HandFacts DEF FormsInv, Ready, StageOK
    <3> QED
      BY <3>1, <3>2
  <2>2. CASE CarryOut(h) \/ Recruit(h)
    BY <2>2 DEF CarryOut, Recruit, Commits, Records, EntryOf
  <2> QED
    BY <2>1, <2>2
<1>4. EntryOf(h, what) \in Entries /\ EntryOK(EntryOf(h, what))
  <2>1. what \in {Nothing} \cup Forms /\ (what # Nothing => u.bot = "owner")
    BY <1>3
  <2>2. u.id \in Nat /\ n \in Nat /\ u.who \in Person
    BY <1>2 DEF Updates, Ids
  <2> QED
    BY <2>1, <2>2, <1>2 DEF EntryOf, Entries, EntryOK, Staff
<1>5. done' \in Seq(Entries) /\ \A i \in DOMAIN done' : EntryOK(done'[i])
  BY <1>3, <1>4, RecordTypes
<1>6. k \in Hands \cup {Rest} /\ StageOK(k)
  BY <1>1, <1>2, PendingFacts
<1>7. TypeInv' /\ Turn(h, k, Nothing, PendingOf(h))
  BY <1>1, <1>2, <1>5, <1>6, PendingFacts, StaffMoves
<1> QED
  BY <1>1, <1>2, <1>3, <1>7 DEF SCommits, StaffIn

LEMMA StaffTypes ==
  ASSUME TypeInv, FormsInv, NEW h \in Slots, StaffStep(h)
  PROVE  TypeInv' /\ StaffTurn(h)
<1>0. UNCHANGED conv
  BY DEF StaffStep
<1>1. CASE Denied(h) \/ Refused(h) \/ Menu(h) \/ Popping(h)
  BY <1>0, <1>1, ForgetTypes DEF StaffTurn
<1>2. CASE OwnerPress(h) \/ AdminPress(h)
  BY <1>0, <1>2, PressTypes DEF StaffTurn
<1>3. CASE Message(h)
  BY <1>0, <1>3, MessageTypes DEF StaffTurn
<1>4. CASE ListType(h) \/ ListThreshold(h) \/ ListName(h)
  BY <1>0, <1>4, FillTypes DEF StaffTurn
<1>5. CASE ListCapacity(h)
  BY <1>0, <1>5, LookTypes DEF StaffTurn
<1>6. CASE CapacityChecked(h)
  BY <1>0, <1>6, ForgetTypes, CodeTypes DEF StaffTurn
<1>7. CASE CreateList(h) \/ CarryOut(h) \/ Recruit(h)
  BY <1>0, <1>7, CommitTypes DEF StaffTurn
<1> QED
  BY <1>1, <1>2, <1>3, <1>4, <1>5, <1>6, <1>7 DEF StaffStep

-----------------------------------------------------------------------------
(* The other steps: an update arrives, the first time or again, a copy is    *)
(* recognised, an entry of the table lapses, the process is restarted,       *)
(* another owner creates a list.                                             *)

Busy(h) == handler[h].stage # "rest"
Arrives(h, u) ==
  /\ u \in Updates /\ ~Busy(h)
  /\ \A g \in Slots : handler'[g] = IF g = h THEN Handling("resolving", u, Nothing) ELSE handler[g]
  /\ mixed \subseteq mixed'
  /\ \A g \in Slots : g # h /\ Busy(g) /\ handler[g].update.who = u.who => u.who \in mixed'
  /\ UNCHANGED <<renewed, done, conv, pend, form>>
First(h, u) ==
  /\ Arrives(h, u)
  /\ u.id = sent + 1 /\ sent' = sent + 1
  /\ seen \subseteq seen' /\ (Keyed(u) => u.id \in seen')
  /\ again' = again \/ (again' = u /\ Keyed(u))
Second(h) ==
  /\ Arrives(h, again)
  /\ again # Nothing /\ ~Duplicate(again) /\ again' = Nothing /\ sent' = sent
Recognised ==
  /\ again' = Nothing
  /\ UNCHANGED <<handler, seen, sent, mixed, renewed, done, conv, pend, form>>
Lapses ==
  /\ again # Nothing /\ renewed' = renewed \cup {again.id}
  /\ UNCHANGED <<handler, again, sent, mixed, done, conv, pend, form>>
Restarts ==
  /\ \A h \in Slots : handler'[h] = Rest
  /\ \A p \in Person : conv'[p] = Nothing
  /\ \A b \in Staff, p \in Person : pend'[b][p] = Nothing
  /\ renewed' = IF again = Nothing THEN renewed ELSE renewed \cup {again.id}
  /\ UNCHANGED <<again, sent, mixed, done>>
OthersEntry(f, t) ==
  [bot |-> "owner", who |-> AnotherOwner, asked |-> 0, by |-> 0,
   what |-> [type |-> f, threshold |-> t, named |-> TRUE, code |-> ListCode(f, t)]]
OtherLists ==
  /\ UNCHANGED <<handler, seen, again, sent, mixed, renewed, conv, pend, form>>
  /\ \A i \in DOMAIN done : done[i].who # AnotherOwner
  /\ \E f \in Families, t \in Thresholds :
       ListCode(f, t) \notin Codes /\ done' = Append(done, OthersEntry(f, t))

WorldTurn ==
  \/ \E h \in Slots, u \in Updates : First(h, u)
  \/ \E h \in Slots : Second(h)
  \/ Recognised \/ Lapses \/ Restarts \/ OtherLists

LEMMA BusyFacts == TypeInv => \A h \in Slots : Busy(h) <=> handler[h] # Rest
BY DEF TypeInv, TypeOK, Hands, Busy, Rest

LEMMA ArriveStep ==
  ASSUME TypeInv, NEW h \in Slots, NEW u \in Updates, TakesUp(h, u),
         UNCHANGED <<renewed, done, conv, staffVars>>
  PROVE  Arrives(h, u) /\ seen \subseteq seen' /\ (Keyed(u) => u.id \in seen')
<1>1. handler[h] = Rest /\ Goes(h, Handling("resolving", u, Nothing)) /\ handler \in [Slots -> Hands \cup {Rest}]
  BY DEF TakesUp, TypeInv, TypeOK
<1>2. \A g \in Slots : handler'[g] = IF g = h THEN Handling("resolving", u, Nothing) ELSE handler[g]
  BY <1>1 DEF Goes
<1>3. ~Busy(h)
  BY <1>1, BusyFacts
<1>4. /\ mixed \subseteq mixed'
      /\ \A g \in Slots : g # h /\ Busy(g) /\ handler[g].update.who = u.who => u.who \in mixed'
  BY BusyFacts DEF TakesUp, Overlapping
<1>5. seen \subseteq seen' /\ (Keyed(u) => u.id \in seen')
  BY DEF TakesUp
<1> QED
  BY <1>2, <1>3, <1>4, <1>5 DEF Arrives, staffVars

LEMMA SendsStep == ASSUME TypeInv, NEW b \in {"user"} \cup Staff, Sends(b) PROVE WorldTurn
<1>1. PICK h \in Slots, p \in Person, text \in IF b = "user" THEN UserTexts \cup {"home"} ELSE StaffTexts[b] :
        Receives(h, b, p, text)
  BY DEF Sends
<1> DEFINE u == [id |-> sent + 1, bot |-> b, who |-> p, text |-> text]
<1>2. sent < MaxSent /\ sent \in 0 .. MaxSent /\ sent + 1 \in Ids /\ sent' = sent + 1 /\ TakesUp(h, u)
      /\ (again' = again \/ (again' = u /\ Keyed(u))) /\ UNCHANGED <<restarts, renewed, done>>
  BY <1>1, NoneFacts DEF Receives, TypeInv, TypeOK, Ids
<1>3. text \in UserTexts \cup UNION {StaffTexts[c] : c \in Staff}
  BY DEF StaffTexts, Staff
<1>4. u \in Updates /\ u.id = sent + 1
  BY <1>2, <1>3 DEF Updates
<1> HIDE DEF u
<1>5. UNCHANGED <<conv, staffVars>>
  BY DEF Sends
<1>6. Arrives(h, u) /\ seen \subseteq seen' /\ (Keyed(u) => u.id \in seen')
  BY <1>2, <1>4, <1>5, ArriveStep
<1>7. First(h, u)
  BY <1>2, <1>4, <1>6 DEF First
<1> QED
  BY <1>4, <1>7 DEF WorldTurn

LEMMA SharedStep == ASSUME TypeInv, Shared PROVE WorldTurn
<1>0. UNCHANGED <<conv, pend, form>>
  BY DEF Shared, staffVars
<1>1. CASE Lapse
  BY <1>0, <1>1 DEF Lapse, Lapses, WorldTurn
<1>2. ASSUME NEW h \in Slots, ReceivesAgain(h) PROVE WorldTurn
  <2>1. /\ again \in Updates /\ again # Nothing /\ again' = Nothing /\ UNCHANGED <<sent, restarts, renewed, done>>
    BY <1>2 DEF ReceivesAgain, TypeInv, TypeOK
  <2>2. CASE UNCHANGED <<handler, seen, mixed>>
    BY <1>0, <2>1, <2>2 DEF Recognised, WorldTurn
  <2>3. CASE ~Duplicate(again) /\ TakesUp(h, again)
    <3>1. TakesUp(h, again)
      BY <2>3
    <3>2. Arrives(h, again)
      BY <3>1, <2>1, <1>0, ArriveStep DEF staffVars
    <3> QED
      BY <3>2, <2>1, <2>3 DEF Second, WorldTurn
  <2> QED
    BY <1>2, <2>2, <2>3 DEF ReceivesAgain
<1> QED
  BY <1>1, <1>2 DEF Shared

LEMMA RestartStep == ASSUME TypeInv, ProcessRestart PROVE WorldTurn
<1>1. /\ \A h \in Slots : handler'[h] = Rest
      /\ \A p \in Person : conv'[p] = Nothing
      /\ \A b \in Staff, p \in Person : pend'[b][p] = Nothing
  BY DEF ProcessRestart, Restart
<1> QED
  BY <1>1 DEF ProcessRestart, Restart, Restarts, WorldTurn

LEMMA OthersStep == ASSUME TypeInv, Others PROVE WorldTurn
<1>1. PICK f \in Families, t \in Thresholds : OthersList(f, t)
  BY DEF Others
<1>2. done' = Append(done, OthersEntry(f, t)) /\ ListCode(f, t) \notin Codes
      /\ \A i \in DOMAIN done : done[i].who # AnotherOwner
  BY <1>1 DEF OthersList, Records, OthersEntry
<1>3. UNCHANGED <<handler, seen, again, sent, restarts, mixed, renewed, conv, pend, form>>
  BY <1>1 DEF Others, OthersList, Silent, staffVars
<1> QED
  BY <1>2, <1>3 DEF OtherLists, WorldTurn

\* Every step of the bots is one of these.
LEMMA EveryStep ==
  ASSUME TypeInv, FormsInv, Next
  PROVE  TypeInv' /\ (WorldTurn \/ \E h \in Slots : UserTurn(h) \/ StaffTurn(h))
<1>1. CASE \E b \in {"user"} \cup Staff : Sends(b)
  BY <1>1, SendsTypes, SendsStep
<1>2. CASE Shared
  BY <1>2, SharedTypes, SharedStep
<1>3. CASE Others
  BY <1>3, OthersTypes, OthersStep
<1>4. CASE ProcessRestart
  BY <1>4, RestartTypes, RestartStep
<1>5. CASE \E h \in Slots : UserStep(h) \/ StaffStep(h)
  BY <1>5, UserTypes, StaffTypes
<1> QED
  BY <1>1, <1>2, <1>3, <1>4, <1>5 DEF Next

-----------------------------------------------------------------------------
(* Every update is handled once, unless its entry in the table is gone, and  *)
(* nothing carries its id before it is.                                      *)

InConv(n, p) ==
  conv[p] # Nothing /\ (conv[p].asked = n \/ \E i \in DOMAIN conv[p].given : conv[p].given[i] = n)
InPend(n, b, p) == pend[b][p] # Nothing /\ pend[b][p].asked = n
InSlot(n, h) == handler[h].stage \in {"finishing", "working", "checking"} /\ handler[h].held.asked = n
Used(n) ==
  \/ \E p \in Person : InConv(n, p)
  \/ \E b \in Staff, p \in Person : InPend(n, b, p)
  \/ \E h \in Slots : InSlot(n, h)
  \/ \E i \in DOMAIN done : done[i].asked = n

\* The copy that is under way is of a message, not of a press.
AgainOK ==
  again # Nothing =>
    /\ Keyed(again) /\ again.id <= sent /\ again.id \in seen \cup renewed
    /\ \A h \in Slots : Busy(h) /\ handler[h].update.id = again.id => Keyed(handler[h].update)
SlotOK(h) ==
  Busy(h) => LET u == handler[h].update IN
    /\ u.id <= sent
    /\ u.id \in renewed => Keyed(u)
    /\ handler[h].stage = "resolving" /\ u.id \notin renewed => ~Used(u.id)
OnceInv ==
  /\ AgainOK
  /\ \A h \in Slots : SlotOK(h)
  /\ \A g, h \in Slots : g # h /\ Busy(g) /\ Busy(h) /\ handler[g].update.id = handler[h].update.id
                           => handler[h].update.id \in renewed
  /\ \A n \in Nat : Used(n) => n <= sent
  /\ \A n \in renewed : n <= sent

\* What was committed, with one entry more.
LEMMA AppendFacts ==
  ASSUME TypeInv, NEW e, done' = Append(done, e)
  PROVE  /\ Len(done) \in Nat /\ DOMAIN done = 1 .. Len(done) /\ DOMAIN done' = 1 .. (Len(done) + 1)
         /\ \A i \in DOMAIN done : i \in DOMAIN done' /\ done'[i] = done[i] /\ i # Len(done) + 1
         /\ \A i \in DOMAIN done' : i = Len(done) + 1 \/ i \in DOMAIN done
         /\ done'[Len(done) + 1] = e
<1>1. done \in Seq(Entries \cup {e}) /\ e \in Entries \cup {e}
  BY DEF TypeInv, TypeOK
<1> QED
  BY <1>1

\* The step of a handler as its slot sees it.
LEMMA TurnSlot ==
  ASSUME TypeInv, NEW h \in Slots, UserTurn(h) \/ StaffTurn(h)
  PROVE  /\ Busy(h) /\ Silent
         /\ \A g \in Slots : g # h => handler'[g] = handler[g]
         /\ handler'[h].stage # "resolving"
         /\ handler'[h].stage # "rest" => handler'[h].update = handler[h].update
         /\ done' = done \/ \E e : done' = Append(done, e) /\ e.asked = handler[h].held.asked
                                     /\ InSlot(handler[h].held.asked, h)
<1>1. CASE UForgets(h)
  BY <1>1 DEF UForgets, UserIn, Busy, Turn, Rest
<1>2. CASE UBegins(h)
  BY <1>2 DEF UBegins, UserIn, Busy, Turn, Rest
<1>3. CASE UAnswers(h)
  BY <1>3 DEF UAnswers, UserIn, Busy, Turn, Rest
<1>4. CASE ULast(h)
  BY <1>4 DEF ULast, UserIn, Busy, Turn, Handling
<1>5. CASE USubmits(h)
  BY <1>5 DEF USubmits, UserIn, Busy, Turn, Rest, EntryOf, InSlot
<1>6. CASE SForgets(h)
  BY <1>6 DEF SForgets, StaffIn, Busy, Turn, Rest, Handling
<1>7. CASE SAsks(h)
  BY <1>7 DEF SAsks, StaffIn, Busy, Turn, Rest
<1>8. CASE SReads(h)
  BY <1>8 DEF SReads, StaffIn, Busy, Turn, Handling
<1>9. CASE SFills(h)
  BY <1>9 DEF SFills, StaffIn, Busy, Turn, Rest
<1>10. CASE SLooks(h)
  BY <1>10 DEF SLooks, StaffIn, Busy, Turn, Handling
<1>11. CASE SCodes(h)
  BY <1>11 DEF SCodes, StaffIn, Busy, Turn, Rest
<1>12. CASE SCommits(h)
  BY <1>12 DEF SCommits, StaffIn, Busy, Turn, Handling, EntryOf, InSlot
<1> QED
  BY <1>1, <1>2, <1>3, <1>4, <1>5, <1>6, <1>7, <1>8, <1>9, <1>10, <1>11, <1>12 DEF UserTurn, StaffTurn

\* The answers of a conversation, with one more.
LEMMA AppendIds ==
  ASSUME NEW s \in Seq(Ids), NEW e \in Ids
  PROVE  /\ Len(s) \in Nat /\ DOMAIN s = 1 .. Len(s) /\ DOMAIN Append(s, e) = 1 .. (Len(s) + 1)
         /\ \A i \in DOMAIN s : Append(s, e)[i] = s[i]
         /\ \A i \in DOMAIN Append(s, e) : i = Len(s) + 1 \/ i \in DOMAIN s
         /\ Append(s, e)[Len(s) + 1] = e
OBVIOUS

\* Only the handler that resolves an update brings its id into anything else.
Brought(n, h) == Used(n) \/ (handler[h].stage = "resolving" /\ n = handler[h].update.id)

LEMMA UsedMoves ==
  ASSUME TypeInv, NEW h \in Slots, NEW n, Used(n)', NEW k, NEW c, NEW w, Turn(h, k, c, w),
         done' = done \/ \E e : done' = Append(done, e) /\ e.asked = handler[h].held.asked
                                  /\ InSlot(handler[h].held.asked, h),
         handler[h].update.bot = "user" /\ c # Nothing
            /\ (c.asked = n \/ \E i \in DOMAIN c.given : c.given[i] = n) => Brought(n, h),
         handler[h].update.bot \in Staff /\ w # Nothing /\ w.asked = n => Brought(n, h),
         k.stage \in {"finishing", "working", "checking"} /\ k.held.asked = n => Brought(n, h)
  PROVE  Brought(n, h)
<1>1. CASE \E p \in Person : InConv(n, p)'
  <2>1. PICK p \in Person : InConv(n, p)'
    BY <1>1
  <2>2. conv'[p] = conv[p] \/ (handler[h].update.bot = "user" /\ conv'[p] = c)
    BY DEF Turn
  <2> QED
    BY <2>1, <2>2 DEF InConv, Used, Brought
<1>2. CASE \E b \in Staff, p \in Person : InPend(n, b, p)'
  <2>1. PICK b \in Staff, p \in Person : InPend(n, b, p)'
    BY <1>2
  <2>2. pend'[b][p] = pend[b][p] \/ (handler[h].update.bot \in Staff /\ pend'[b][p] = w)
    BY DEF Turn
  <2> QED
    BY <2>1, <2>2 DEF InPend, Used, Brought
<1>3. CASE \E g \in Slots : InSlot(n, g)'
  <2>1. PICK g \in Slots : InSlot(n, g)'
    BY <1>3
  <2>2. handler'[g] = handler[g] \/ handler'[g] = k
    BY DEF Turn
  <2> QED
    BY <2>1, <2>2 DEF InSlot, Used, Brought
<1>4. CASE \E i \in DOMAIN done' : done'[i].asked = n
  <2>1. CASE done' = done
    BY <1>4, <2>1 DEF Used, Brought
  <2>2. CASE \E e : done' = Append(done, e) /\ e.asked = handler[h].held.asked
                                  /\ InSlot(handler[h].held.asked, h)
    <3>1. PICK e : done' = Append(done, e) /\ e.asked = handler[h].held.asked
                                  /\ InSlot(handler[h].held.asked, h)
      BY <2>2
    <3>2. PICK i \in DOMAIN done' : done'[i].asked = n
      BY <1>4
    <3>3. CASE i \in DOMAIN done
      BY <3>1, <3>2, <3>3, AppendFacts DEF Used, Brought
    <3>4. CASE i = Len(done) + 1
      BY <3>1, <3>2, <3>4, AppendFacts DEF Used, Brought
    <3> QED
      BY <3>1, <3>3, <3>4, AppendFacts
  <2> QED
    BY <2>1, <2>2
<1> QED
  BY <1>1, <1>2, <1>3, <1>4 DEF Used

LEMMA UsedTurn ==
  ASSUME TypeInv, NEW h \in Slots, UserTurn(h) \/ StaffTurn(h), NEW n, Used(n)'
  PROVE  Brought(n, h)
<1> DEFINE u == handler[h].update
<1>0. /\ u \in Updates /\ u.who \in Person /\ u.id \in Ids
      /\ done' = done \/ \E e : done' = Append(done, e) /\ e.asked = handler[h].held.asked
                                     /\ InSlot(handler[h].held.asked, h)
  BY TurnSlot, HandFacts DEF Busy
<1>1. CASE UForgets(h)
  <2>1. PICK c \in {conv[u.who], Nothing} : Turn(h, Rest, c, Nothing)
    BY <1>1 DEF UForgets
  <2>2. c # Nothing /\ (c.asked = n \/ \E i \in DOMAIN c.given : c.given[i] = n) => Used(n)
    BY <1>0, <2>1 DEF Used, InConv
  <2> QED
    BY <1>0, <2>1, <2>2, UsedMoves DEF Rest, Brought
<1>2. CASE UBegins(h)
  BY <1>0, <1>2, UsedMoves DEF UBegins, UserIn, Begins, Rest, Brought
<1>3. ASSUME conv[u.who] # Nothing, handler[h].stage = "resolving"
      PROVE  /\ WithAnswer(conv[u.who], u).asked = n => Brought(n, h)
             /\ (\E i \in DOMAIN WithAnswer(conv[u.who], u).given : WithAnswer(conv[u.who], u).given[i] = n)
                   => Brought(n, h)
  <2> DEFINE c == conv[u.who]
  <2>1. c \in Conversations
    BY <1>0, <1>3 DEF TypeInv, TypeOK
  <2>2. WithAnswer(c, u).asked = c.asked /\ WithAnswer(c, u).given = Append(c.given, u.id) /\ c.given \in Seq(Ids)
    BY <1>0, <2>1, Answered DEF Conversations
  <2>3. \A i \in DOMAIN Append(c.given, u.id) :
          Append(c.given, u.id)[i] = u.id \/ (i \in DOMAIN c.given /\ Append(c.given, u.id)[i] = c.given[i])
    BY <1>0, <2>2, AppendIds
  <2>4. WithAnswer(c, u).asked = n => Brought(n, h)
    BY <1>0, <1>3, <2>2 DEF Brought, Used, InConv
  <2>5. ASSUME NEW i \in DOMAIN WithAnswer(c, u).given, WithAnswer(c, u).given[i] = n PROVE Brought(n, h)
    BY <1>0, <1>3, <2>2, <2>3, <2>5 DEF Brought, Used, InConv
  <2> QED
    BY <2>4, <2>5
<1>4. CASE UAnswers(h)
  BY <1>0, <1>3, <1>4, UsedMoves DEF UAnswers, UserIn, Rest
<1>5. CASE ULast(h)
  BY <1>0, <1>3, <1>5, UsedMoves DEF ULast, UserIn, Handling
<1>6. CASE USubmits(h)
  <2>1. conv[u.who] # Nothing /\ (conv[u.who].asked = n \/ \E i \in DOMAIN conv[u.who].given : conv[u.who].given[i] = n)
          => Used(n)
    BY <1>0 DEF Used, InConv
  <2> QED
    BY <1>0, <1>6, <2>1, UsedMoves DEF USubmits, Rest, Brought
<1>7. /\ u.bot \in Staff /\ PendingOf(h) # Nothing /\ PendingOf(h).asked = n => Brought(n, h)
      /\ InSlot(n, h) => Brought(n, h)
  BY <1>0 DEF PendingOf, Brought, Used, InPend
<1>8. CASE SForgets(h)
  BY <1>0, <1>7, <1>8, UsedMoves DEF SForgets, Rest, Handling
<1>9. CASE SAsks(h)
  BY <1>0, <1>9, UsedMoves DEF SAsks, StaffIn, Rest, Waits, Brought
<1>10. CASE SReads(h)
  BY <1>0, <1>7, <1>10, UsedMoves DEF SReads, StaffIn, Handling
<1>11. CASE SFills(h)
  BY <1>0, <1>7, <1>11, UsedMoves DEF SFills, StaffIn, Rest, Waits, InSlot
<1>12. CASE SLooks(h)
  BY <1>0, <1>7, <1>12, UsedMoves DEF SLooks, StaffIn, Handling, InSlot
<1>13. CASE SCodes(h)
  BY <1>0, <1>7, <1>13, UsedMoves DEF SCodes, StaffIn, Rest, Waits, InSlot
<1>14. CASE SCommits(h)
  BY <1>0, <1>7, <1>14, UsedMoves DEF SCommits, StaffIn, Handling
<1> QED
  BY <1>1, <1>2, <1>4, <1>5, <1>6, <1>8, <1>9, <1>10, <1>11, <1>12, <1>13, <1>14 DEF UserTurn, StaffTurn

LEMMA InitOnce == Init => OnceInv
<1> SUFFICES ASSUME Init PROVE OnceInv
  OBVIOUS
<1>1. \A h \in Slots : handler[h].stage = "rest" /\ ~Busy(h)
  BY DEF Init, UpdatesInit, Rest, Busy
<1>2. \A n : ~Used(n)
  BY <1>1 DEF Init, UpdatesInit, Used, InConv, InPend, InSlot
<1> QED
  BY <1>1, <1>2 DEF Init, UpdatesInit, OnceInv, AgainOK, SlotOK

LEMMA OnceTurn ==
  ASSUME TypeInv, OnceInv, NEW h \in Slots, UserTurn(h) \/ StaffTurn(h)
  PROVE  OnceInv'
<1>1. /\ Busy(h) /\ Silent
      /\ \A g \in Slots : g # h => handler'[g] = handler[g]
      /\ handler'[h].stage # "resolving"
      /\ handler'[h].stage # "rest" => handler'[h].update = handler[h].update
  BY TurnSlot
<1>2. \A g \in Slots : Busy(g)' => Busy(g) /\ handler'[g].update = handler[g].update
  BY <1>1 DEF Busy
<1>3. again' = again /\ sent' = sent /\ renewed' = renewed /\ seen' = seen
  BY <1>1 DEF Silent
<1>4. \A n : Used(n)' => Brought(n, h)
  BY UsedTurn
<1>5. AgainOK'
  BY <1>2, <1>3 DEF OnceInv, AgainOK
<1>6. ASSUME NEW g \in Slots PROVE SlotOK(g)'
  <2>1. CASE g = h
    BY <2>1, <1>1, <1>2, <1>3 DEF SlotOK, OnceInv
  <2>2. CASE g # h
    <3> SUFFICES ASSUME Busy(g), handler[g].stage = "resolving", handler[g].update.id \notin renewed,
                        Used(handler[g].update.id)'
                 PROVE  FALSE
      BY <2>2, <1>1, <1>2, <1>3 DEF SlotOK, OnceInv
    <3>1. Brought(handler[g].update.id, h)
      BY <1>1, <1>4, <2>2
    <3>2. ~Used(handler[g].update.id)
      BY DEF OnceInv, SlotOK
    <3>3. handler[g].update.id = handler[h].update.id
      BY <3>1, <3>2 DEF Brought
    <3> QED
      BY <3>3, <2>2, <1>1 DEF OnceInv
  <2> QED
    BY <2>1, <2>2
<1>7. \A f, g \in Slots : f # g /\ Busy(f)' /\ Busy(g)' /\ handler'[f].update.id = handler'[g].update.id
                           => handler'[g].update.id \in renewed'
  BY <1>2, <1>3 DEF OnceInv
<1>8. \A n \in Nat : Used(n)' => n <= sent'
  BY <1>1, <1>3, <1>4 DEF OnceInv, SlotOK, Brought
<1>9. \A n \in renewed' : n <= sent'
  BY <1>3 DEF OnceInv
<1> QED
  BY <1>5, <1>6, <1>7, <1>8, <1>9 DEF OnceInv

\* An update that arrives brings its id into its slot only.
LEMMA UsedArrives ==
  ASSUME NEW h \in Slots, NEW u, Arrives(h, u), NEW n, Used(n)' PROVE Used(n)
<1>1. UNCHANGED <<conv, pend, done>>
  BY DEF Arrives
<1>2. \A g \in Slots : InSlot(n, g)' => InSlot(n, g)
  BY DEF Arrives, InSlot, Handling
<1>3. \A p \in Person : InConv(n, p)' => InConv(n, p)
  BY <1>1 DEF InConv
<1>4. \A b \in Staff, p \in Person : InPend(n, b, p)' => InPend(n, b, p)
  BY <1>1 DEF InPend
<1> QED
  BY <1>1, <1>2, <1>3, <1>4 DEF Used

LEMMA OnceArrives ==
  ASSUME TypeInv, OnceInv, NEW h \in Slots, NEW u, Arrives(h, u),
         u.id <= sent', sent <= sent', sent' \in Nat, AgainOK',
         u.id \in renewed => Keyed(u),
         u.id \notin renewed => ~Used(u.id) /\ \A g \in Slots : Busy(g) => handler[g].update.id # u.id
  PROVE  OnceInv'
<1>1. /\ renewed' = renewed /\ ~Busy(h)
      /\ \A g \in Slots : g # h => handler'[g] = handler[g]
      /\ handler'[h].stage = "resolving" /\ handler'[h].update = u
  BY DEF Arrives, Handling
<1>2. \A n : Used(n)' => Used(n)
  BY UsedArrives
<1>0. \A g \in Slots : Busy(g) => handler[g].update.id \in Nat
  BY HandFacts DEF Busy, Ids
<1>6. sent \in Nat
  BY DEF TypeInv, TypeOK
<1>3. ASSUME NEW g \in Slots PROVE SlotOK(g)'
  <2>1. CASE g = h
    BY <2>1, <1>1, <1>2 DEF SlotOK
  <2>2. CASE g # h
    BY <2>2, <1>0, <1>1, <1>2, <1>6 DEF SlotOK, OnceInv, Busy
  <2> QED
    BY <2>1, <2>2
<1>4. \A f, g \in Slots : f # g /\ Busy(f)' /\ Busy(g)' /\ handler'[f].update.id = handler'[g].update.id
                           => handler'[g].update.id \in renewed'
  BY <1>1 DEF OnceInv, Busy
<1>5. (\A n \in Nat : Used(n)' => n <= sent') /\ \A n \in renewed' : n <= sent'
  BY <1>1, <1>2, <1>6 DEF OnceInv, TypeInv, TypeOK, Ids
<1> QED
  BY <1>3, <1>4, <1>5 DEF OnceInv

LEMMA OnceWorld == ASSUME TypeInv, OnceInv, TypeInv', WorldTurn PROVE OnceInv'
<1>0. sent \in Nat /\ sent' \in Nat
  BY DEF TypeInv, TypeOK
<1>1. ASSUME NEW h \in Slots, NEW u \in Updates, First(h, u) PROVE OnceInv'
  <2>1. /\ Arrives(h, u) /\ u.id = sent + 1 /\ sent' = sent + 1 /\ renewed' = renewed
        /\ seen \subseteq seen' /\ (Keyed(u) => u.id \in seen')
        /\ again' = again \/ (again' = u /\ Keyed(u))
        /\ \A g \in Slots : g # h => handler'[g] = handler[g]
        /\ handler'[h].update = u
    BY <1>1 DEF First, Arrives, Handling
  <2>2. \A g \in Slots : Busy(g) => handler[g].update.id # u.id /\ handler[g].update.id \in Nat
                                    /\ handler[g].update.id <= sent
    BY <1>0, <2>1, HandFacts DEF OnceInv, SlotOK, Busy, Ids
  <2>3. u.id \notin renewed /\ ~Used(u.id)
    BY <1>0, <2>1 DEF OnceInv
  <2>4. AgainOK'
    <3>1. CASE again' = again
      <4>1. again # Nothing => again.id # u.id /\ again.id <= sent'
        BY <1>0, <2>1 DEF OnceInv, AgainOK, TypeInv, TypeOK, Updates, Ids
      <4> QED
        BY <3>1, <4>1, <2>1 DEF OnceInv, AgainOK, Busy
    <3>2. CASE again' = u /\ Keyed(u)
      <4>1. \A g \in Slots : Busy(g)' /\ handler'[g].update.id = u.id => Keyed(handler'[g].update)
        BY <3>2, <2>1, <2>2 DEF Busy
      <4> QED
        BY <3>2, <4>1, <2>1, <1>0 DEF AgainOK
    <3> QED
      BY <2>1, <3>1, <3>2
  <2> QED
    BY <1>0, <2>1, <2>2, <2>3, <2>4, OnceArrives
<1>2. ASSUME NEW h \in Slots, Second(h) PROVE OnceInv'
  <2>1. /\ Arrives(h, again) /\ again # Nothing /\ ~Duplicate(again) /\ again' = Nothing /\ sent' = sent
    BY <1>2 DEF Second
  <2>2. Keyed(again) /\ again.id <= sent /\ again.id \in renewed
    BY <2>1 DEF OnceInv, AgainOK, Duplicate
  <2>3. AgainOK'
    BY <2>1 DEF AgainOK
  <2> QED
    BY <1>0, <2>1, <2>2, <2>3, OnceArrives
<1>3. CASE Recognised
  BY <1>3 DEF Recognised, OnceInv, AgainOK, SlotOK, Used, InConv, InPend, InSlot, Busy
<1>4. ASSUME UNCHANGED <<handler, again, sent, conv, pend>>, again # Nothing => renewed \subseteq renewed' /\ renewed' \subseteq renewed \cup {again.id},
             again # Nothing => again.id \in seen' \cup renewed',
             again = Nothing => renewed' = renewed, \A n \in Nat : Used(n)' => n = 0 \/ Used(n)
      PROVE  OnceInv'
  <2>1. \A h \in Slots : Busy(h)' = Busy(h) /\ (Busy(h) => handler[h].update.id \in Nat \ {0})
    BY <1>4, HandFacts DEF Busy, Ids
  <2>2. AgainOK'
    BY <1>4 DEF OnceInv, AgainOK, Busy
  <2>3. \A n \in renewed' : n <= sent' /\ (n \in renewed \/ (again # Nothing /\ n = again.id))
    BY <1>4 DEF OnceInv, AgainOK
  <2>4. ASSUME NEW h \in Slots PROVE SlotOK(h)'
    BY <1>4, <2>1, <2>3 DEF OnceInv, AgainOK, SlotOK, Busy
  <2>5. \A g, h \in Slots : g # h /\ Busy(g)' /\ Busy(h)' /\ handler'[g].update.id = handler'[h].update.id
                             => handler'[h].update.id \in renewed'
    BY <1>4, <2>1 DEF OnceInv
  <2>6. \A n \in Nat : Used(n)' => n <= sent'
    BY <1>0, <1>4 DEF OnceInv
  <2> QED
    BY <2>2, <2>3, <2>4, <2>5, <2>6 DEF OnceInv
<1>5. CASE Lapses
  <2>1. \A n : Used(n)' => Used(n)
    BY <1>5 DEF Lapses, Used, InConv, InPend, InSlot
  <2> QED
    BY <1>4, <1>5, <2>1 DEF Lapses
<1>6. CASE OtherLists
  <2>1. PICK e : e.asked = 0 /\ done' = Append(done, e)
    BY <1>6 DEF OtherLists, OthersEntry
  <2>2. UNCHANGED <<handler, seen, again, sent, renewed, conv, pend>>
    BY <1>6 DEF OtherLists
  <2>3. ASSUME NEW n \in Nat, Used(n)' PROVE n = 0 \/ Used(n)
    <3>1. (\E i \in DOMAIN done' : done'[i].asked = n) => n = 0 \/ \E i \in DOMAIN done : done[i].asked = n
      BY <2>1, AppendFacts
    <3> QED
      BY <2>2, <2>3, <3>1 DEF Used, InConv, InPend, InSlot
  <2>4. again # Nothing => again.id \in seen' \cup renewed'
    BY <2>2 DEF OnceInv, AgainOK
  <2> QED
    BY <1>4, <2>2, <2>3, <2>4
<1>7. CASE Restarts
  <2>1. /\ \A h \in Slots : handler'[h].stage = "rest" /\ ~Busy(h)'
        /\ UNCHANGED <<again, sent, mixed, done>>
        /\ renewed' = IF again = Nothing THEN renewed ELSE renewed \cup {again.id}
    BY <1>7 DEF Restarts, Rest, Busy
  <2>2. ASSUME NEW n, Used(n)' PROVE Used(n)
    BY <1>7, <2>1, <2>2 DEF Used, InConv, InPend, InSlot, Restarts
  <2>3. AgainOK'
    BY <2>1 DEF OnceInv, AgainOK
  <2>4. (\A n \in renewed' : n <= sent') /\ \A n \in Nat : Used(n)' => n <= sent'
    BY <2>1, <2>2 DEF OnceInv, AgainOK
  <2> QED
    BY <2>1, <2>3, <2>4 DEF OnceInv, SlotOK
<1> QED
  BY <1>1, <1>2, <1>3, <1>5, <1>6, <1>7 DEF WorldTurn

-----------------------------------------------------------------------------
(* No question is pending without the answers before it.                     *)

\* A form that somebody uses loses nothing: only a press clears one, and that of
\* its own id.
LEMMA FormsKept ==
  ASSUME TypeInv, OnceInv, NEW h \in Slots, UserTurn(h) \/ StaffTurn(h),
         NEW n \in Ids, NEW kind \in FormKinds, Used(n), Ready(kind, form[n])
  PROVE  Ready(kind, form'[n])
<1>1. CASE form' = form
  BY <1>1
<1>2. CASE SAsks(h) /\ FormBecomes(handler[h].update.id, Blank)
  <2>1. handler[h].stage = "resolving" /\ ~Keyed(handler[h].update)
    BY <1>2 DEF SAsks, StaffIn
  <2>2. n # handler[h].update.id
    BY <2>1 DEF OnceInv, SlotOK, Busy
  <2> QED
    BY <1>2, <2>2 DEF FormBecomes
<1>3. ASSUME NEW m \in Ids, NEW f, FormBecomes(m, f), NEW k, Grows(k, m, f) PROVE Ready(kind, form'[n])
  <2>1. CASE n = m
    BY <2>1, <1>3 DEF FormBecomes, Grows, Ready, FormKinds
  <2>2. CASE n # m
    BY <2>2, <1>3 DEF FormBecomes
  <2> QED
    BY <2>1, <2>2
<1>4. StaffIn(h, "working") \/ StaffIn(h, "checking") => handler[h].held.asked \in Ids
  BY HandFacts DEF StaffIn, StageOK, Waiting, Checking
<1>5. CASE SFills(h)
  BY <1>3, <1>4, <1>5 DEF SFills
<1>6. CASE SCodes(h)
  BY <1>3, <1>4, <1>6 DEF SCodes
<1>7. CASE UserTurn(h)
  BY <1>1, <1>7 DEF UserTurn, UForgets, UBegins, UAnswers, ULast, USubmits
<1>8. CASE SForgets(h) \/ SReads(h) \/ SLooks(h) \/ SCommits(h)
  BY <1>1, <1>8 DEF SForgets, SReads, SLooks, SCommits
<1>9. CASE SAsks(h)
  BY <1>1, <1>2, <1>9 DEF SAsks
<1> QED
  BY <1>5, <1>6, <1>7, <1>8, <1>9 DEF StaffTurn

\* FormsInv of the next state, from what a step puts into a slot and makes pending.
AskedOK(w) == w # Nothing /\ w.kind # "phrase" => Ready(w.kind, form[w.asked])
HeldOK(k) ==
  /\ k.stage = "working" /\ k.held.kind \notin {"phrase", "lead"} => Ready(k.held.kind, form[k.held.asked])
  /\ k.stage = "checking" => Ready("capacity", form[k.held.asked])

LEMMA FormsMoves ==
  ASSUME TypeInv, OnceInv, FormsInv, NEW h \in Slots, UserTurn(h) \/ StaffTurn(h),
         NEW k, NEW c, NEW w, Turn(h, k, c, w),
         handler[h].update.bot = "owner" => AskedOK(w)' \/ w = PendingOf(h),
         HeldOK(k)'
  PROVE  FormsInv'
<1>1. ASSUME NEW p \in Person, NEW v, v = pend["owner"][p] PROVE AskedOK(v)'
  <2> SUFFICES ASSUME v # Nothing, v.kind # "phrase" PROVE Ready(v.kind, form'[v.asked])
    BY DEF AskedOK
  <2>1. v \in Waiting /\ v.kind # "lead" /\ Ready(v.kind, form[v.asked])
    BY <1>1 DEF FormsInv, TypeInv, TypeOK, Staff
  <2>2. v.kind \in FormKinds /\ v.asked \in Ids /\ Used(v.asked)
    BY <1>1, <2>1 DEF Waiting, FormKinds, Used, InPend, Staff
  <2> QED
    BY <2>1, <2>2, FormsKept
<1>2. ASSUME NEW p \in Person, NEW v, v = pend'["owner"][p] PROVE AskedOK(v)'
  <2>1. v = pend["owner"][p] \/ (v = w /\ handler[h].update.bot = "owner" /\ p = handler[h].update.who)
    BY <1>2 DEF Turn, Staff
  <2> QED
    BY <1>1, <2>1 DEF PendingOf
<1>3. ASSUME NEW g \in Slots, NEW j, j = handler[g] PROVE HeldOK(j)'
  <2>1. CASE j.stage = "working" /\ j.held.kind \notin {"phrase", "lead"}
    <3>1. j.held \in Waiting /\ Ready(j.held.kind, form[j.held.asked])
      BY <1>3, <2>1, HandFacts DEF FormsInv, StageOK
    <3>2. j.held.kind \in FormKinds /\ j.held.asked \in Ids /\ Used(j.held.asked)
      BY <1>3, <2>1, <3>1 DEF Waiting, FormKinds, Used, InSlot
    <3> QED
      BY <2>1, <3>1, <3>2, FormsKept DEF HeldOK
  <2>2. CASE j.stage = "checking"
    <3>1. j.held \in Checking /\ Ready("capacity", form[j.held.asked])
      BY <1>3, <2>2, HandFacts DEF FormsInv, StageOK
    <3>2. j.held.asked \in Ids /\ Used(j.held.asked) /\ "capacity" \in FormKinds
      BY <1>3, <2>2, <3>1 DEF Checking, FormKinds, Used, InSlot
    <3> QED
      BY <2>2, <3>1, <3>2, FormsKept DEF HeldOK
  <2> QED
    BY <2>1, <2>2 DEF HeldOK
<1>4. ASSUME NEW g \in Slots, NEW j, j = handler'[g] PROVE HeldOK(j)'
  <2>1. j = handler[g] \/ j = k
    BY <1>4 DEF Turn
  <2> QED
    BY <1>3, <2>1
<1> QED
  BY <1>2, <1>4 DEF FormsInv, AskedOK, HeldOK

LEMMA FormsTurn ==
  ASSUME TypeInv, OnceInv, FormsInv, NEW h \in Slots, UserTurn(h) \/ StaffTurn(h)
  PROVE  FormsInv'
<1> DEFINE u == handler[h].update
<1>0. /\ u \in Updates /\ u.who \in Person /\ u.id \in Ids /\ StageOK(handler[h])
  BY TurnSlot, HandFacts DEF Busy
<1>1. HeldOK(Rest)' /\ \A j : j.stage \in {"popping", "finishing"} => HeldOK(j)'
  BY DEF HeldOK, Rest
<1>2. CASE UserTurn(h)
  <2>1. u.bot # "owner"
    BY <1>2 DEF UserTurn, UForgets, UBegins, UAnswers, ULast, USubmits, UserIn
  <2>2. PICK k, c : Turn(h, k, c, Nothing) /\ (k = Rest \/ k.stage = "finishing")
    BY <1>2 DEF UserTurn, UForgets, UBegins, UAnswers, ULast, USubmits, Handling
  <2> QED
    BY <1>1, <1>2, <2>1, <2>2, FormsMoves
<1>3. CASE SForgets(h)
  <2>1. PICK k, w : Turn(h, k, Nothing, w) /\ (k = Rest \/ k.stage = "popping") /\ w \in {PendingOf(h), Nothing}
    BY <1>3 DEF SForgets, Handling
  <2>2. AskedOK(Nothing)'
    BY DEF AskedOK
  <2> QED
    BY <1>1, <1>3, <2>1, <2>2, FormsMoves DEF StaffTurn
<1>4. CASE SAsks(h)
  <2>1. PICK kind \in {"type", "phrase", "lead"} :
          /\ (kind = "lead" <=> u.bot = "admin")
          /\ Turn(h, Rest, Nothing, Waits(kind, u.id))
          /\ IF kind = "type" THEN FormBecomes(u.id, Blank) ELSE form' = form
    BY <1>4 DEF SAsks
  <2>2. PICK w : w = Waits(kind, u.id)
    OBVIOUS
  <2>3. u.bot = "owner" => AskedOK(w)'
    <3>1. CASE kind = "type"
      <4>1. form'[w.asked] = Blank /\ w.kind = "type"
        BY <1>0, <2>1, <2>2, <3>1 DEF FormBecomes, Waits
      <4>2. Ready("type", Blank)
        BY DEF Ready, Needs, Blank, Forms
      <4> QED
        BY <4>1, <4>2 DEF AskedOK
    <3>2. CASE kind = "phrase"
      BY <2>2, <3>2 DEF AskedOK, Waits
    <3>3. CASE kind = "lead"
      BY <2>1, <3>3
    <3> QED
      BY <3>1, <3>2, <3>3
  <2> QED
    BY <1>1, <1>4, <2>1, <2>2, <2>3, FormsMoves DEF StaffTurn
<1>5. CASE SReads(h)
  <2>1. PICK w, k : w = PendingOf(h) /\ k = Handling("working", u, w) /\ Turn(h, k, Nothing, w)
    BY <1>5 DEF SReads
  <2>2. u.bot \in Staff /\ w # Nothing /\ form' = form
    BY <1>5, <2>1 DEF SReads, StaffIn
  <2>3. HeldOK(k)'
    <3> SUFFICES ASSUME w.kind \notin {"phrase", "lead"} PROVE Ready(w.kind, form'[w.asked])
      BY <2>1 DEF HeldOK, Handling
    <3>1. w = pend[u.bot][u.who]
      BY <2>1 DEF PendingOf
    <3>2. u.bot = "owner"
      BY <1>0, <2>2, <3>1 DEF TypeInv, Staff
    <3> QED
      BY <1>0, <2>2, <3>1, <3>2 DEF FormsInv
  <2> QED
    BY <1>5, <2>1, <2>3, FormsMoves DEF StaffTurn
<1>6. ASSUME NEW n, n = handler[h].held.asked, NEW f, NEW kind, FormBecomes(n, f), Grows(kind, n, f),
             Turn(h, Rest, Nothing, Waits(kind, n)), StaffIn(h, "working") \/ StaffIn(h, "checking")
      PROVE  FormsInv'
  <2>1. PICK w : w = Waits(kind, n)
    OBVIOUS
  <2>2. n \in Ids
    BY <1>0, <1>6 DEF StaffIn, StageOK, Waiting, Checking
  <2>3. Ready(kind, form'[n])
    BY <1>6, <2>2 DEF FormBecomes, Grows, Ready
  <2>4. AskedOK(w)'
    BY <2>1, <2>3 DEF AskedOK, Waits
  <2> QED
    BY <1>1, <1>6, <2>1, <2>4, FormsMoves
<1>7. CASE SFills(h) \/ SCodes(h)
  BY <1>6, <1>7 DEF SFills, SCodes
<1>8. CASE SLooks(h)
  <2>1. PICK n, k, w : /\ n = handler[h].held.asked /\ w = PendingOf(h)
                       /\ k = Handling("checking", u, [asked |-> n, code |-> CodeOf(form[n])])
                       /\ Turn(h, k, Nothing, w)
    BY <1>8 DEF SLooks
  <2>2. Ready("capacity", form[n]) /\ form' = form
    BY <1>8, <2>1 DEF SLooks, StaffIn, FormsInv
  <2>3. HeldOK(k)'
    BY <2>1, <2>2 DEF HeldOK, Handling
  <2> QED
    BY <1>8, <2>1, <2>3, FormsMoves DEF StaffTurn
<1>9. CASE SCommits(h)
  <2>1. PICK k, w : Turn(h, k, Nothing, w) /\ k.stage = "popping" /\ w = PendingOf(h)
    BY <1>9 DEF SCommits, Handling
  <2> QED
    BY <1>1, <1>9, <2>1, FormsMoves DEF StaffTurn
<1> QED
  BY <1>2, <1>3, <1>4, <1>5, <1>7, <1>8, <1>9 DEF StaffTurn

LEMMA FormsWorld == ASSUME TypeInv, FormsInv, WorldTurn PROVE FormsInv'
<1>1. ASSUME NEW h \in Slots, NEW u, Arrives(h, u), form' = form PROVE FormsInv'
  <2>1. \A g \in Slots : handler'[g] = handler[g] \/ handler'[g].stage = "resolving"
    BY <1>1 DEF Arrives, Handling
  <2>2. pend' = pend
    BY <1>1 DEF Arrives
  <2> QED
    BY <1>1, <2>1, <2>2 DEF FormsInv
<1>2. CASE \E h \in Slots, u \in Updates : First(h, u)
  BY <1>1, <1>2 DEF First, Arrives
<1>3. CASE \E h \in Slots : Second(h)
  BY <1>1, <1>3 DEF Second, Arrives
<1>4. CASE Recognised \/ Lapses \/ OtherLists
  BY <1>4 DEF Recognised, Lapses, OtherLists, FormsInv
<1>5. CASE Restarts
  <2>1. \A h \in Slots : handler'[h].stage = "rest"
    BY <1>5 DEF Restarts, Rest
  <2>2. \A p \in Person : pend'["owner"][p] = Nothing
    BY <1>5 DEF Restarts, Staff
  <2> QED
    BY <2>1, <2>2 DEF FormsInv
<1> QED
  BY <1>2, <1>3, <1>4, <1>5 DEF WorldTurn

-----------------------------------------------------------------------------
(* The user bot: a conversation is in one place at a time, with its person,  *)
(* with the handler that submits it, or among what was committed.            *)

Open(p) == conv[p] # Nothing
Finishing(h) == handler[h].stage = "finishing"
UserEntry(i) == done[i].bot = "user"
UserOnceInv ==
  /\ \A p, q \in Person : p # q /\ Open(p) /\ Open(q) /\ conv[p].asked = conv[q].asked
                            => conv[p].asked \in renewed
  /\ \A p \in Person, h \in Slots : Open(p) /\ Finishing(h) /\ conv[p].asked = handler[h].held.asked
                            => conv[p].asked \in renewed
  /\ \A p \in Person, i \in DOMAIN done : Open(p) /\ UserEntry(i) /\ conv[p].asked = done[i].asked
                            => conv[p].asked \in renewed
  /\ \A g, h \in Slots : g # h /\ Finishing(g) /\ Finishing(h) /\ handler[g].held.asked = handler[h].held.asked
                            => handler[g].held.asked \in renewed
  /\ \A h \in Slots, i \in DOMAIN done : Finishing(h) /\ UserEntry(i) /\ handler[h].held.asked = done[i].asked
                            => done[i].asked \in renewed
  /\ \A i, j \in DOMAIN done : i # j /\ UserEntry(i) /\ UserEntry(j) /\ done[i].asked = done[j].asked
                            => done[i].asked \in renewed

\* The step of a handler of the owner or the admin bot.
LEMMA StaffSlot ==
  ASSUME NEW h \in Slots, StaffTurn(h)
  PROVE  /\ handler[h].update.bot \in Staff /\ handler[h].update.bot # "user"
         /\ \E k, w : Turn(h, k, Nothing, w) /\ k.stage # "finishing"
         /\ done' = done \/ \E e : /\ done' = Append(done, e) /\ handler[h].stage = "working"
                                   /\ e.bot = handler[h].update.bot /\ e.who = handler[h].update.who
                                   /\ e.by = handler[h].update.id /\ e.asked = handler[h].held.asked
<1>1. CASE SForgets(h)
  BY <1>1 DEF SForgets, StaffIn, Staff, Rest, Handling, EntryOf
<1>2. CASE SAsks(h)
  BY <1>2 DEF SAsks, StaffIn, Staff, Rest, Handling, EntryOf
<1>3. CASE SReads(h)
  BY <1>3 DEF SReads, StaffIn, Staff, Rest, Handling, EntryOf
<1>4. CASE SFills(h)
  BY <1>4 DEF SFills, StaffIn, Staff, Rest, Handling, EntryOf
<1>5. CASE SLooks(h)
  BY <1>5 DEF SLooks, StaffIn, Staff, Rest, Handling, EntryOf
<1>6. CASE SCodes(h)
  BY <1>6 DEF SCodes, StaffIn, Staff, Rest, Handling, EntryOf
<1>7. CASE SCommits(h)
  BY <1>7 DEF SCommits, StaffIn, Staff, Rest, Handling, EntryOf
<1> QED
  BY <1>1, <1>2, <1>3, <1>4, <1>5, <1>6, <1>7 DEF StaffTurn

LEMMA InitUserOnce == Init => UserOnceInv
BY DEF Init, UpdatesInit, UserOnceInv, Open, Finishing, Rest

LEMMA UserOnceTurn ==
  ASSUME TypeInv, OnceInv, UserOnceInv, NEW h \in Slots, UserTurn(h) \/ StaffTurn(h)
  PROVE  UserOnceInv'
<1> DEFINE u == handler[h].update
<1>0. /\ u \in Updates /\ u.who \in Person /\ u.id \in Ids /\ renewed' = renewed
      /\ \A g \in Slots : g # h => handler'[g] = handler[g]
  BY TurnSlot, HandFacts DEF Busy, Silent
<1>1. ASSUME done' = done, ~Finishing(h)',
             \A p \in Person : Open(p)' => \/ Open(p) /\ conv'[p].asked = conv[p].asked
                                           \/ p = u.who /\ conv'[p].asked = u.id /\ (u.id \in renewed \/ ~Used(u.id))
      PROVE  UserOnceInv'
  <2>1. \A g \in Slots : Finishing(g)' => Finishing(g) /\ handler'[g] = handler[g] /\ Used(handler[g].held.asked)
    BY <1>0, <1>1 DEF Finishing, Used, InSlot
  <2>2. \A p \in Person : Open(p) => Used(conv[p].asked)
    BY DEF Open, Used, InConv
  <2>3. \A i \in DOMAIN done : Used(done[i].asked)
    BY DEF Used
  <2>4. \A p, q \in Person : p # q /\ Open(p)' /\ Open(q)' /\ conv'[p].asked = conv'[q].asked
                            => conv'[p].asked \in renewed'
    BY <1>0, <1>1, <2>2 DEF UserOnceInv
  <2>5. \A p \in Person, g \in Slots : Open(p)' /\ Finishing(g)' /\ conv'[p].asked = handler'[g].held.asked
                            => conv'[p].asked \in renewed'
    BY <1>0, <1>1, <2>1 DEF UserOnceInv
  <2>6. \A p \in Person, i \in DOMAIN done' : Open(p)' /\ UserEntry(i)' /\ conv'[p].asked = done'[i].asked
                            => conv'[p].asked \in renewed'
    BY <1>0, <1>1, <2>3 DEF UserOnceInv, UserEntry
  <2> QED
    BY <1>0, <1>1, <2>1, <2>4, <2>5, <2>6 DEF UserOnceInv, UserEntry
<1>2. CASE UForgets(h)
  <2>1. PICK c \in {conv[u.who], Nothing} : Turn(h, Rest, c, Nothing)
    BY <1>2 DEF UForgets
  <2> QED
    BY <1>0, <1>1, <1>2, <2>1 DEF UForgets, Turn, Open, Finishing, Rest
<1>3. CASE UBegins(h)
  <2>1. handler[h].stage = "resolving" /\ (u.id \in renewed \/ ~Used(u.id))
    BY <1>3 DEF UBegins, UserIn, OnceInv, SlotOK, Busy
  <2> QED
    BY <1>0, <1>1, <1>3, <2>1 DEF UBegins, Turn, Open, Finishing, Rest, Begins
<1>4. CASE UAnswers(h)
  <2>1. conv[u.who] \in Conversations
    BY <1>0, <1>4 DEF UAnswers, TypeInv, TypeOK
  <2>2. WithAnswer(conv[u.who], u).asked = conv[u.who].asked
    BY <1>0, <2>1, Answered
  <2> QED
    BY <1>0, <1>1, <1>4, <2>2 DEF UAnswers, Turn, Open, Finishing, Rest
<1>5. CASE ULast(h)
  <2>1. conv[u.who] \in Conversations /\ Open(u.who)
    BY <1>0, <1>5 DEF ULast, TypeInv, TypeOK, Open
  <2>2. WithAnswer(conv[u.who], u).asked = conv[u.who].asked
    BY <1>0, <2>1, Answered
  <2>3. /\ handler'[h].held.asked = conv[u.who].asked /\ done' = done
        /\ \A p \in Person : Open(p)' => p # u.who /\ Open(p) /\ conv'[p] = conv[p]
    BY <1>0, <1>5, <2>2 DEF ULast, UserIn, Turn, Handling, Open
  <2>4. \A p, q \in Person : p # q /\ Open(p)' /\ Open(q)' /\ conv'[p].asked = conv'[q].asked
                            => conv'[p].asked \in renewed'
    BY <1>0, <2>3 DEF UserOnceInv
  <2>5. \A p \in Person, g \in Slots : Open(p)' /\ Finishing(g)' /\ conv'[p].asked = handler'[g].held.asked
                            => conv'[p].asked \in renewed'
    BY <1>0, <2>1, <2>3 DEF UserOnceInv, Finishing
  <2>6. \A p \in Person, i \in DOMAIN done' : Open(p)' /\ UserEntry(i)' /\ conv'[p].asked = done'[i].asked
                            => conv'[p].asked \in renewed'
    BY <1>0, <2>3 DEF UserOnceInv, UserEntry
  <2>7. \A f, g \in Slots : f # g /\ Finishing(f)' /\ Finishing(g)' /\ handler'[f].held.asked = handler'[g].held.asked
                            => handler'[f].held.asked \in renewed'
    BY <1>0, <2>1, <2>3 DEF UserOnceInv, Finishing
  <2>8. \A g \in Slots, i \in DOMAIN done' : Finishing(g)' /\ UserEntry(i)' /\ handler'[g].held.asked = done'[i].asked
                            => done'[i].asked \in renewed'
    BY <1>0, <2>1, <2>3 DEF UserOnceInv, Finishing, UserEntry
  <2> QED
    BY <1>0, <2>3, <2>4, <2>5, <2>6, <2>7, <2>8 DEF UserOnceInv, UserEntry
<1>6. ASSUME NEW e, done' = Append(done, e), e.bot = "user" => Finishing(h) /\ e.asked = handler[h].held.asked,
             ~Finishing(h)', \A p \in Person : conv'[p] = conv[p]
      PROVE  UserOnceInv'
  <2>1. \A g \in Slots : Finishing(g)' => Finishing(g) /\ handler'[g] = handler[g] /\ g # h
    BY <1>0, <1>6 DEF Finishing
  <2>2. \A p \in Person : Open(p)' = Open(p)
    BY <1>6 DEF Open
  <2>3. \A i \in DOMAIN done' : UserEntry(i)' =>
          \/ i \in DOMAIN done /\ UserEntry(i) /\ done'[i] = done[i] /\ i # Len(done) + 1
          \/ i = Len(done) + 1 /\ Finishing(h) /\ done'[i].asked = handler[h].held.asked
    BY <1>6, AppendFacts DEF UserEntry
  <2>4. \A p, q \in Person : p # q /\ Open(p)' /\ Open(q)' /\ conv'[p].asked = conv'[q].asked
                            => conv'[p].asked \in renewed'
    BY <1>0, <1>6, <2>2 DEF UserOnceInv
  <2>5. \A p \in Person, g \in Slots : Open(p)' /\ Finishing(g)' /\ conv'[p].asked = handler'[g].held.asked
                            => conv'[p].asked \in renewed'
    BY <1>0, <1>6, <2>1, <2>2 DEF UserOnceInv
  <2>6. \A p \in Person, i \in DOMAIN done' : Open(p)' /\ UserEntry(i)' /\ conv'[p].asked = done'[i].asked
                            => conv'[p].asked \in renewed'
    BY <1>0, <1>6, <2>2, <2>3 DEF UserOnceInv
  <2>7. \A f, g \in Slots : f # g /\ Finishing(f)' /\ Finishing(g)' /\ handler'[f].held.asked = handler'[g].held.asked
                            => handler'[f].held.asked \in renewed'
    BY <1>0, <2>1 DEF UserOnceInv
  <2>8. \A g \in Slots, i \in DOMAIN done' : Finishing(g)' /\ UserEntry(i)' /\ handler'[g].held.asked = done'[i].asked
                            => done'[i].asked \in renewed'
    BY <1>0, <2>1, <2>3 DEF UserOnceInv
  <2>9. \A i, j \in DOMAIN done' : i # j /\ UserEntry(i)' /\ UserEntry(j)' /\ done'[i].asked = done'[j].asked
                            => done'[i].asked \in renewed'
    BY <1>0, <2>3 DEF UserOnceInv
  <2> QED
    BY <2>4, <2>5, <2>6, <2>7, <2>8, <2>9 DEF UserOnceInv
<1>7. CASE USubmits(h)
  <2>1. ~Finishing(h)' /\ Finishing(h) /\ \A p \in Person : conv'[p] = conv[p]
    BY <1>7 DEF USubmits, UserIn, Turn, Finishing, Rest
  <2>2. CASE done' = done
    BY <1>1, <2>1, <2>2 DEF Open
  <2>3. CASE done' = Append(done, EntryOf(h, handler[h].held))
    <3>1. PICK e : e = EntryOf(h, handler[h].held)
      OBVIOUS
    <3> QED
      BY <1>6, <2>1, <2>3, <3>1 DEF EntryOf
  <2> QED
    BY <1>7, <2>2, <2>3 DEF USubmits
<1>8. CASE StaffTurn(h)
  <2>1. u.bot # "user" /\ \E k, w : Turn(h, k, Nothing, w) /\ k.stage # "finishing"
    BY <1>8, StaffSlot
  <2>2. ~Finishing(h)' /\ \A p \in Person : conv'[p] = conv[p]
    BY <2>1 DEF Turn, Finishing
  <2>3. done' = done \/ \E e : done' = Append(done, e) /\ e.bot = u.bot
    BY <1>8, StaffSlot
  <2>4. CASE done' = done
    BY <1>1, <2>2, <2>4 DEF Open
  <2> QED
    BY <1>6, <2>1, <2>2, <2>3, <2>4
<1> QED
  BY <1>2, <1>3, <1>4, <1>5, <1>7, <1>8 DEF UserTurn

LEMMA UserOnceWorld == ASSUME TypeInv, UserOnceInv, WorldTurn PROVE UserOnceInv'
<1>1. ASSUME \A p \in Person : conv'[p] = conv[p] \/ conv'[p] = Nothing,
             \A h \in Slots : Finishing(h)' => Finishing(h) /\ handler'[h] = handler[h],
             renewed \subseteq renewed',
             done' = done \/ \E e : done' = Append(done, e) /\ e.bot = "owner"
      PROVE  UserOnceInv'
  <2>1. \A p \in Person : Open(p)' => Open(p) /\ conv'[p] = conv[p]
    BY <1>1 DEF Open
  <2>2. \A i \in DOMAIN done' : UserEntry(i)' => i \in DOMAIN done /\ UserEntry(i) /\ done'[i] = done[i]
    <3>1. ASSUME NEW e, done' = Append(done, e), e.bot = "owner"
          PROVE  \A i \in DOMAIN done' : UserEntry(i)' => i \in DOMAIN done /\ UserEntry(i) /\ done'[i] = done[i]
      BY <3>1, AppendFacts DEF UserEntry
    <3> QED
      BY <1>1, <3>1 DEF UserEntry
  <2>3. \A p, q \in Person : p # q /\ Open(p)' /\ Open(q)' /\ conv'[p].asked = conv'[q].asked
                            => conv'[p].asked \in renewed'
    BY <1>1, <2>1 DEF UserOnceInv
  <2>4. \A p \in Person, g \in Slots : Open(p)' /\ Finishing(g)' /\ conv'[p].asked = handler'[g].held.asked
                            => conv'[p].asked \in renewed'
    BY <1>1, <2>1 DEF UserOnceInv
  <2>5. \A p \in Person, i \in DOMAIN done' : Open(p)' /\ UserEntry(i)' /\ conv'[p].asked = done'[i].asked
                            => conv'[p].asked \in renewed'
    BY <1>1, <2>1, <2>2 DEF UserOnceInv
  <2>6. \A f, g \in Slots : f # g /\ Finishing(f)' /\ Finishing(g)' /\ handler'[f].held.asked = handler'[g].held.asked
                            => handler'[f].held.asked \in renewed'
    BY <1>1 DEF UserOnceInv
  <2>7. \A g \in Slots, i \in DOMAIN done' : Finishing(g)' /\ UserEntry(i)' /\ handler'[g].held.asked = done'[i].asked
                            => done'[i].asked \in renewed'
    BY <1>1, <2>2 DEF UserOnceInv
  <2>8. \A i, j \in DOMAIN done' : i # j /\ UserEntry(i)' /\ UserEntry(j)' /\ done'[i].asked = done'[j].asked
                            => done'[i].asked \in renewed'
    BY <1>1, <2>2 DEF UserOnceInv
  <2> QED
    BY <2>3, <2>4, <2>5, <2>6, <2>7, <2>8 DEF UserOnceInv
<1>2. ASSUME NEW h \in Slots, NEW u, Arrives(h, u) PROVE UserOnceInv'
  BY <1>1, <1>2 DEF Arrives, Finishing, Handling
<1>3. CASE Recognised \/ Lapses
  BY <1>1, <1>3 DEF Recognised, Lapses, Finishing
<1>4. CASE OtherLists
  <2>1. \E e : done' = Append(done, e) /\ e.bot = "owner"
    BY <1>4 DEF OtherLists, OthersEntry
  <2> QED
    BY <1>1, <1>4, <2>1 DEF OtherLists, Finishing
<1>5. CASE Restarts
  BY <1>1, <1>5 DEF Restarts, Finishing, Rest
<1> QED
  BY <1>2, <1>3, <1>4, <1>5 DEF WorldTurn, First, Second

-----------------------------------------------------------------------------
(* One message answers one question, and the answers are in the order of the *)
(* messages.                                                                 *)

\* Two updates of one person are in handling at once: he is mixed.
Serial ==
  \A g, h \in Slots : g # h /\ Busy(g) /\ Busy(h) /\ handler[g].update.who = handler[h].update.who
                        => handler[h].update.who \in mixed

LEMMA SerialTurn ==
  ASSUME TypeInv, Serial, NEW h \in Slots, UserTurn(h) \/ StaffTurn(h) PROVE Serial'
<1>1. \A g \in Slots : Busy(g)' => Busy(g) /\ handler'[g].update = handler[g].update
  BY TurnSlot DEF Busy
<1>2. mixed' = mixed
  BY TurnSlot DEF Silent
<1> QED
  BY <1>1, <1>2 DEF Serial

LEMMA SerialWorld == ASSUME TypeInv, Serial, WorldTurn PROVE Serial'
<1>1. ASSUME NEW h \in Slots, NEW u, Arrives(h, u) PROVE Serial'
  <2>1. \A g \in Slots : g # h => handler'[g] = handler[g]
    BY <1>1 DEF Arrives
  <2>2. handler'[h].update = u
    BY <1>1 DEF Arrives, Handling
  <2>3. mixed \subseteq mixed' /\ \A g \in Slots : g # h /\ Busy(g) /\ handler[g].update.who = u.who => u.who \in mixed'
    BY <1>1 DEF Arrives
  <2> QED
    BY <2>1, <2>2, <2>3 DEF Serial, Busy
<1>2. CASE Recognised \/ Lapses \/ OtherLists
  BY <1>2 DEF Recognised, Lapses, OtherLists, Serial, Busy
<1>3. CASE Restarts
  BY <1>3 DEF Restarts, Serial, Busy, Rest
<1> QED
  BY <1>1, <1>2, <1>3 DEF WorldTurn, First, Second

\* Update n comes after update m, for a person whose messages were handled one at
\* a time; in any case it is another one.
Follows(m, n, p) ==
  \/ m # n /\ (m < n \/ p \in mixed)
  \/ m \in renewed \/ n \in renewed
InOrder(c, p) ==
  /\ \A i \in DOMAIN c.given : Follows(c.asked, c.given[i], p)
  /\ \A i, j \in DOMAIN c.given : i < j => Follows(c.given[i], c.given[j], p)
Waited(h) ==
  LET u == handler[h].update IN
  handler[h].stage = "resolving" /\ u.bot = "user" /\ u.who \notin mixed /\ u.id \notin renewed
    => \A m \in Nat : InConv(m, u.who) => m < u.id
AnswersInv ==
  /\ \A p \in Person : Open(p) => InOrder(conv[p], p)
  /\ \A h \in Slots : Finishing(h) => InOrder(handler[h].held, handler[h].update.who)
  /\ \A i \in DOMAIN done : UserEntry(i) =>
       InOrder(done[i].what, done[i].who) /\ done[i].what.asked = done[i].asked
  /\ \A h \in Slots : Waited(h)

LEMMA InitAnswers == Init => AnswersInv /\ Serial
BY DEF Init, UpdatesInit, AnswersInv, Serial, Open, Finishing, Busy, Waited, Rest

LEMMA OrderKept ==
  ASSUME NEW c, NEW p, InOrder(c, p), mixed \subseteq mixed', renewed \subseteq renewed'
  PROVE  InOrder(c, p)'
BY DEF InOrder, Follows

LEMMA ConversationIds ==
  ASSUME NEW c \in Conversations
  PROVE  c.asked \in Nat /\ c.given \in Seq(Ids) /\ \A i \in DOMAIN c.given : c.given[i] \in Nat
<1>1. c.asked \in Ids /\ c.given \in Seq(Ids)
  BY DEF Conversations
<1>2. Ids \subseteq Nat
  BY DEF Ids
<1>3. \A s \in Seq(Ids) : \A i \in DOMAIN s : s[i] \in Ids
  OBVIOUS
<1> QED
  BY <1>1, <1>2, <1>3

\* A message that follows all of a conversation continues it in order.
LEMMA OrderGrows ==
  ASSUME NEW c \in Conversations, NEW u \in Updates, NEW p, InOrder(c, p),
         Follows(c.asked, u.id, p), \A i \in DOMAIN c.given : Follows(c.given[i], u.id, p)
  PROVE  InOrder(WithAnswer(c, u), p)
<1> DEFINE d == WithAnswer(c, u)
<1>1. d.asked = c.asked /\ d.given = Append(c.given, u.id) /\ c.given \in Seq(Ids) /\ u.id \in Ids
  BY Answered DEF Conversations, Updates
<1>2. /\ Len(c.given) \in Nat /\ DOMAIN c.given = 1 .. Len(c.given) /\ DOMAIN d.given = 1 .. (Len(c.given) + 1)
      /\ \A i \in DOMAIN c.given : d.given[i] = c.given[i]
      /\ \A i \in DOMAIN d.given : i = Len(c.given) + 1 \/ i \in DOMAIN c.given
      /\ d.given[Len(c.given) + 1] = u.id
  BY <1>1, AppendIds
<1> HIDE DEF d
<1>3. \A i \in DOMAIN d.given : Follows(d.asked, d.given[i], p)
  BY <1>1, <1>2 DEF InOrder
<1>4. ASSUME NEW i \in DOMAIN d.given, NEW j \in DOMAIN d.given, i < j
      PROVE  Follows(d.given[i], d.given[j], p)
  <2>1. i \in DOMAIN c.given
    BY <1>2, <1>4
  <2>2. CASE j \in DOMAIN c.given
    BY <1>2, <1>4, <2>1, <2>2 DEF InOrder
  <2>3. CASE j = Len(c.given) + 1
    BY <1>2, <2>1, <2>3
  <2> QED
    BY <1>2, <2>2, <2>3
<1> QED
  BY <1>3, <1>4 DEF InOrder, d

LEMMA AnswerFollows ==
  ASSUME TypeInv, OnceInv, AnswersInv, NEW h \in Slots, UserIn(h, "resolving"),
         Open(handler[h].update.who)
  PROVE  LET u == handler[h].update IN
         InOrder(WithAnswer(conv[u.who], u), u.who)
<1> DEFINE u == handler[h].update
<1> DEFINE c == conv[u.who]
<1>1. u \in Updates /\ u.who \in Person /\ u.id \in Ids /\ c \in Conversations
  BY HandFacts DEF UserIn, Open, TypeInv, TypeOK
<1>2. ASSUME NEW m \in Nat, InConv(m, u.who) PROVE Follows(m, u.id, u.who)
  <2>1. CASE u.id \in renewed
    BY <2>1 DEF Follows
  <2>2. CASE u.id \notin renewed
    <3>1. m # u.id
      BY <1>1, <1>2, <2>2 DEF Used, OnceInv, SlotOK, Busy, UserIn
    <3>2. u.who \notin mixed => m < u.id
      BY <1>2, <2>2 DEF AnswersInv, Waited, UserIn
    <3> QED
      BY <3>1, <3>2 DEF Follows
  <2> QED
    BY <2>1, <2>2
<1>3. c.asked \in Nat /\ c.given \in Seq(Ids) /\ \A i \in DOMAIN c.given : c.given[i] \in Nat
  BY <1>1, ConversationIds
<1>4. Follows(c.asked, u.id, u.who) /\ \A i \in DOMAIN c.given : Follows(c.given[i], u.id, u.who)
  BY <1>2, <1>3 DEF InConv, Open
<1>5. InOrder(c, u.who)
  BY <1>1 DEF AnswersInv, Open
<1> HIDE DEF u, c
<1>6. InOrder(WithAnswer(c, u), u.who)
  BY <1>1, <1>4, <1>5, OrderGrows
<1> QED
  BY <1>6 DEF u, c

LEMMA AnswersMoves ==
  ASSUME TypeInv, AnswersInv, Serial, NEW h \in Slots, UserTurn(h) \/ StaffTurn(h),
         NEW k, NEW c, NEW w, Turn(h, k, c, w),
         handler[h].update.bot = "user" /\ c # Nothing => InOrder(c, handler[h].update.who),
         k.stage = "finishing" => InOrder(k.held, handler[h].update.who),
         \/ done' = done
         \/ \E e : /\ done' = Append(done, e)
                   /\ e.bot = "user" => InOrder(e.what, e.who) /\ e.what.asked = e.asked
  PROVE  AnswersInv'
<1> DEFINE u == handler[h].update
<1>0. /\ Busy(h) /\ mixed' = mixed /\ renewed' = renewed /\ u.who \in Person
      /\ \A g \in Slots : g # h => handler'[g] = handler[g]
      /\ handler'[h].stage # "resolving"
      /\ handler'[h].stage # "rest" => handler'[h].update = u
  BY TurnSlot, HandFacts DEF Busy, Silent
<1>1. \A d, p : InOrder(d, p) => InOrder(d, p)'
  BY <1>0 DEF InOrder, Follows
<1>2. ASSUME NEW p \in Person, NEW v, v = conv'[p], v # Nothing PROVE InOrder(v, p)'
  <2>1. InOrder(v, p)
    BY <1>2 DEF Turn, AnswersInv, Open
  <2> QED
    BY <1>1, <2>1
<1>3. ASSUME NEW g \in Slots, NEW d, NEW p, d = handler'[g].held, p = handler'[g].update.who, Finishing(g)'
      PROVE  InOrder(d, p)'
  <2>1. InOrder(d, p)
    <3>1. CASE g = h
      <4>1. handler'[h] = k /\ k.stage = "finishing" /\ p = u.who
        BY <1>0, <1>3, <3>1 DEF Turn, Finishing
      <4> QED
        BY <1>3, <3>1, <4>1
    <3>2. CASE g # h
      BY <1>0, <1>3, <3>2 DEF Finishing, AnswersInv
    <3> QED
      BY <3>1, <3>2
  <2> QED
    BY <1>1, <2>1
<1>4. ASSUME NEW i \in DOMAIN done', NEW e, e = done'[i], e.bot = "user"
      PROVE  InOrder(e.what, e.who)' /\ e.what.asked = e.asked
  <2>1. InOrder(e.what, e.who) /\ e.what.asked = e.asked
    <3>1. CASE done' = done
      BY <1>4, <3>1 DEF AnswersInv, UserEntry
    <3>2. ASSUME NEW f, done' = Append(done, f), f.bot = "user" => InOrder(f.what, f.who) /\ f.what.asked = f.asked
          PROVE  InOrder(e.what, e.who) /\ e.what.asked = e.asked
      BY <1>4, <3>2, AppendFacts DEF AnswersInv, UserEntry
    <3> QED
      BY <3>1, <3>2
  <2> QED
    BY <1>1, <2>1
<1>5. ASSUME NEW g \in Slots PROVE Waited(g)'
  <2> SUFFICES ASSUME NEW p, p = handler'[g].update.who, p \notin mixed',
                      handler'[g].stage = "resolving", handler'[g].update.bot = "user",
                      handler'[g].update.id \notin renewed', NEW m \in Nat, InConv(m, p)'
               PROVE  m < handler'[g].update.id
    BY DEF Waited, InConv
  <2>1. g # h /\ handler'[g] = handler[g] /\ Busy(g)
    BY <1>0 DEF Busy
  <2>2. p = handler[g].update.who
    BY <2>1
  <2>3. p \in Person /\ p # u.who
    BY <1>0, <2>1, <2>2, HandFacts DEF Serial, Busy
  <2>4. conv'[p] = conv[p]
    BY <2>3 DEF Turn
  <2>5. InConv(m, p)
    BY <2>1, <2>2, <2>4 DEF InConv
  <2> QED
    BY <1>0, <2>1, <2>2, <2>5 DEF AnswersInv, Waited
<1> QED
  BY <1>2, <1>3, <1>4, <1>5 DEF AnswersInv, Open, UserEntry

LEMMA AnswersTurn ==
  ASSUME TypeInv, OnceInv, AnswersInv, Serial, NEW h \in Slots, UserTurn(h) \/ StaffTurn(h)
  PROVE  AnswersInv'
<1> DEFINE u == handler[h].update
<1>0. u \in Updates /\ u.who \in Person /\ Rest.stage = "rest"
  BY TurnSlot, HandFacts DEF Busy, Rest
<1>1. conv[u.who] # Nothing => InOrder(conv[u.who], u.who)
  BY <1>0 DEF AnswersInv, Open
<1>2. CASE UForgets(h)
  <2>1. PICK c : c \in {conv[u.who], Nothing} /\ Turn(h, Rest, c, Nothing)
    BY <1>2 DEF UForgets
  <2> QED
    BY <1>0, <1>1, <1>2, <2>1, AnswersMoves DEF UForgets, UserTurn
<1>3. CASE UBegins(h)
  <2>1. PICK c : c = Begins(u) /\ Turn(h, Rest, c, Nothing)
    BY <1>3 DEF UBegins
  <2>2. InOrder(c, u.who)
    BY <2>1 DEF InOrder, Begins
  <2> QED
    BY <1>0, <1>3, <2>1, <2>2, AnswersMoves DEF UBegins, UserTurn
<1>4. CASE UAnswers(h)
  <2>1. PICK c : c = WithAnswer(conv[u.who], u) /\ Turn(h, Rest, c, Nothing)
    BY <1>4 DEF UAnswers
  <2>2. InOrder(c, u.who)
    BY <1>4, <2>1, AnswerFollows DEF UAnswers, Open
  <2> QED
    BY <1>0, <1>4, <2>1, <2>2, AnswersMoves DEF UAnswers, UserTurn
<1>5. CASE ULast(h)
  <2>1. PICK c, k : /\ c = WithAnswer(conv[u.who], u) /\ k = Handling("finishing", u, c)
                    /\ Turn(h, k, Nothing, Nothing)
    BY <1>5 DEF ULast
  <2>2. InOrder(c, u.who)
    BY <1>5, <2>1, AnswerFollows DEF ULast, Open
  <2>3. k.held = c
    BY <2>1 DEF Handling
  <2> QED
    BY <1>0, <1>5, <2>1, <2>2, <2>3, AnswersMoves DEF ULast, UserTurn
<1>6. CASE USubmits(h)
  <2>1. PICK c, e : c = conv[u.who] /\ Turn(h, Rest, c, Nothing) /\ e = EntryOf(h, handler[h].held)
                    /\ (done' = done \/ done' = Append(done, e))
    BY <1>6 DEF USubmits
  <2>2. InOrder(e.what, e.who) /\ e.what.asked = e.asked
    BY <1>6, <2>1 DEF USubmits, UserIn, Finishing, AnswersInv, EntryOf
  <2> QED
    BY <1>0, <1>1, <1>6, <2>1, <2>2, AnswersMoves DEF UserTurn
<1>7. CASE StaffTurn(h)
  <2>1. /\ u.bot # "user" /\ \E k, w : Turn(h, k, Nothing, w) /\ k.stage # "finishing"
        /\ done' = done \/ \E e : done' = Append(done, e) /\ e.bot = u.bot
    BY <1>7, StaffSlot
  <2> QED
    BY <1>7, <2>1, AnswersMoves
<1> QED
  BY <1>2, <1>3, <1>4, <1>5, <1>6, <1>7 DEF UserTurn

LEMMA AnswersWorld ==
  ASSUME TypeInv, OnceInv, AnswersInv, WorldTurn PROVE AnswersInv'
<1>1. ASSUME mixed \subseteq mixed', renewed \subseteq renewed',
             \A p \in Person : conv'[p] = conv[p] \/ conv'[p] = Nothing,
             \A g \in Slots : Finishing(g)' => handler'[g] = handler[g],
             done' = done \/ \E e : done' = Append(done, e) /\ e.bot = "owner",
             \A g \in Slots : Waited(g)'
      PROVE  AnswersInv'
  <2>1. \A d, p : InOrder(d, p) => InOrder(d, p)'
    BY <1>1, OrderKept
  <2>2. ASSUME NEW p \in Person, NEW v, v = conv'[p], v # Nothing PROVE InOrder(v, p)'
    BY <1>1, <2>1, <2>2 DEF AnswersInv, Open
  <2>3. ASSUME NEW g \in Slots, NEW d, NEW p, d = handler'[g].held, p = handler'[g].update.who, Finishing(g)'
        PROVE  InOrder(d, p)'
    BY <1>1, <2>1, <2>3 DEF AnswersInv, Finishing
  <2>4. ASSUME NEW i \in DOMAIN done', NEW e, e = done'[i], e.bot = "user"
        PROVE  InOrder(e.what, e.who)' /\ e.what.asked = e.asked
    <3>1. InOrder(e.what, e.who) /\ e.what.asked = e.asked
      <4>1. CASE done' = done
        BY <2>4, <4>1 DEF AnswersInv, UserEntry
      <4>2. ASSUME NEW f, done' = Append(done, f), f.bot = "owner"
            PROVE  InOrder(e.what, e.who) /\ e.what.asked = e.asked
        BY <2>4, <4>2, AppendFacts DEF AnswersInv, UserEntry
      <4> QED
        BY <1>1, <4>1, <4>2
    <3> QED
      BY <2>1, <3>1
  <2> QED
    BY <1>1, <2>2, <2>3, <2>4 DEF AnswersInv, Open, UserEntry
<1>2. ASSUME NEW h \in Slots, NEW u, Arrives(h, u), u.id = sent + 1 \/ u.id \in renewed PROVE AnswersInv'
  <2>1. /\ mixed \subseteq mixed' /\ renewed' = renewed /\ conv' = conv /\ done' = done
        /\ \A g \in Slots : handler'[g] = IF g = h THEN Handling("resolving", u, Nothing) ELSE handler[g]
    BY <1>2 DEF Arrives
  <2>2. ASSUME NEW g \in Slots PROVE Waited(g)'
    <3> SUFFICES ASSUME NEW p, p = handler'[g].update.who, p \notin mixed',
                        handler'[g].stage = "resolving", handler'[g].update.bot = "user",
                        handler'[g].update.id \notin renewed', NEW m \in Nat, InConv(m, p)'
                 PROVE  m < handler'[g].update.id
      BY DEF Waited, InConv
    <3>1. InConv(m, p)
      BY <2>1 DEF InConv
    <3>2. CASE g # h
      BY <2>1, <3>1, <3>2 DEF AnswersInv, Waited
    <3>3. CASE g = h
      <4>1. handler'[g].update = u /\ u.who \in Person
        BY <1>2, <2>1, <3>3 DEF Handling, Arrives, Updates
      <4>2. Used(m) /\ u.id = sent + 1
        BY <1>2, <2>1, <3>1, <4>1 DEF Used
      <4>3. m <= sent /\ sent \in Nat
        BY <4>2 DEF OnceInv, TypeInv, TypeOK
      <4> QED
        BY <4>1, <4>2, <4>3
    <3> QED
      BY <3>2, <3>3
  <2>3. \A g \in Slots : Finishing(g)' => handler'[g] = handler[g]
    BY <2>1 DEF Finishing, Handling
  <2> QED
    BY <1>1, <2>1, <2>2, <2>3
<1>3. ASSUME NEW h \in Slots, Second(h) PROVE AnswersInv'
  <2>1. Arrives(h, again) /\ again # Nothing /\ ~Duplicate(again)
    BY <1>3 DEF Second
  <2>2. again.id \in renewed
    BY <2>1 DEF OnceInv, AgainOK, Duplicate
  <2> QED
    BY <1>2, <2>1, <2>2
<1>4. CASE Recognised \/ Lapses
  <2>1. /\ mixed' = mixed /\ renewed \subseteq renewed' /\ UNCHANGED <<conv, done, handler>>
    BY <1>4 DEF Recognised, Lapses
  <2>2. \A g \in Slots : Waited(g)'
    BY <2>1 DEF AnswersInv, Waited, InConv
  <2> QED
    BY <1>1, <2>1, <2>2
<1>5. CASE OtherLists
  <2>1. \E e : done' = Append(done, e) /\ e.bot = "owner"
    BY <1>5 DEF OtherLists, OthersEntry
  <2>2. UNCHANGED <<mixed, renewed, conv, handler>>
    BY <1>5 DEF OtherLists
  <2>3. \A g \in Slots : Waited(g)'
    BY <2>2 DEF AnswersInv, Waited, InConv
  <2> QED
    BY <1>1, <2>1, <2>2, <2>3
<1>6. CASE Restarts
  <2>1. /\ mixed' = mixed /\ renewed \subseteq renewed' /\ done' = done
        /\ \A p \in Person : conv'[p] = Nothing
        /\ \A g \in Slots : ~Finishing(g)' /\ Waited(g)'
    BY <1>6 DEF Restarts, Finishing, Waited, Rest
  <2> QED
    BY <1>1, <2>1
<1> QED
  BY <1>2, <1>3, <1>4, <1>5, <1>6 DEF WorldTurn, First

-----------------------------------------------------------------------------
(* The owner and the admin bot: what was asked for with one press is asked   *)
(* for one person.                                                           *)

StaffSlotAsked(n, b, p, h) ==
  /\ handler[h].stage \in {"working", "checking"}
  /\ handler[h].update.bot = b /\ handler[h].update.who = p /\ handler[h].held.asked = n
EntryAsked(n, b, p, i) == done[i].bot = b /\ done[i].who = p /\ done[i].asked = n
StaffAsked(n, b, p) ==
  \/ InPend(n, b, p)
  \/ \E h \in Slots : StaffSlotAsked(n, b, p, h)
  \/ \E i \in DOMAIN done : EntryAsked(n, b, p, i)
OwnersInv ==
  \A n \in Ids, b \in Staff, p, q \in Person : StaffAsked(n, b, p) /\ StaffAsked(n, b, q) => p = q

LEMMA StaffAskedIsUsed ==
  ASSUME NEW n, NEW b \in Staff, NEW p \in Person, StaffAsked(n, b, p) PROVE Used(n)
BY DEF StaffAsked, StaffSlotAsked, EntryAsked, Used, InSlot

\* It comes from what was asked before, or from a press of this person.
Presses(n, b, p, h) ==
  SAsks(h) /\ n = handler[h].update.id /\ b = handler[h].update.bot /\ p = handler[h].update.who

LEMMA AskedMoves ==
  ASSUME TypeInv, NEW h \in Slots, NEW k, NEW c, NEW w, Turn(h, k, c, w),
         NEW n, NEW b \in Staff, NEW p \in Person, StaffAsked(n, b, p)',
         b = handler[h].update.bot /\ p = handler[h].update.who =>
           /\ w # Nothing /\ w.asked = n => StaffAsked(n, b, p) \/ Presses(n, b, p, h)
           /\ k.stage \in {"working", "checking"} /\ k.held.asked = n => StaffAsked(n, b, p),
         k.stage \in {"working", "checking"} => k.update = handler[h].update,
         \/ done' = done
         \/ \E e : done' = Append(done, e) /\ (e.bot = b => StaffSlotAsked(e.asked, e.bot, e.who, h))
  PROVE  StaffAsked(n, b, p) \/ Presses(n, b, p, h)
<1>1. CASE InPend(n, b, p)'
  <2>1. pend'[b][p] = pend[b][p] \/ (b = handler[h].update.bot /\ p = handler[h].update.who /\ pend'[b][p] = w)
    BY DEF Turn
  <2> QED
    BY <1>1, <2>1 DEF InPend, StaffAsked
<1>2. ASSUME NEW g \in Slots, StaffSlotAsked(n, b, p, g)' PROVE StaffAsked(n, b, p) \/ Presses(n, b, p, h)
  <2>1. handler'[g] = handler[g] \/ handler'[g] = k
    BY DEF Turn
  <2> QED
    BY <1>2, <2>1 DEF StaffSlotAsked, StaffAsked
<1>3. ASSUME NEW i \in DOMAIN done', EntryAsked(n, b, p, i)' PROVE StaffAsked(n, b, p)
  <2>1. CASE done' = done
    BY <1>3, <2>1 DEF EntryAsked, StaffAsked
  <2>2. ASSUME NEW e, done' = Append(done, e), e.bot = b => StaffSlotAsked(e.asked, e.bot, e.who, h)
        PROVE  StaffAsked(n, b, p)
    <3>1. CASE i \in DOMAIN done
      BY <1>3, <2>2, <3>1, AppendFacts DEF EntryAsked, StaffAsked
    <3>2. CASE done'[i] = e
      BY <1>3, <2>2, <3>2 DEF EntryAsked, StaffAsked
    <3> QED
      BY <2>2, <3>1, <3>2, AppendFacts
  <2> QED
    BY <2>1, <2>2
<1> QED
  BY <1>1, <1>2, <1>3 DEF StaffAsked

LEMMA AskedTurn ==
  ASSUME TypeInv, NEW h \in Slots, UserTurn(h) \/ StaffTurn(h),
         NEW n, NEW b \in Staff, NEW p \in Person, StaffAsked(n, b, p)'
  PROVE  StaffAsked(n, b, p) \/ Presses(n, b, p, h)
<1> DEFINE u == handler[h].update
<1>1. Rest.stage = "rest" /\ "user" \notin Staff
  BY DEF Rest, Staff
<1>2. CASE UserTurn(h)
  <2>1. /\ u.bot = "user"
        /\ \E k, c : Turn(h, k, c, Nothing) /\ k.stage \in {"rest", "finishing"}
        /\ done' = done \/ \E e : done' = Append(done, e) /\ e.bot = u.bot
    BY <1>1, <1>2 DEF UserTurn, UForgets, UBegins, UAnswers, ULast, USubmits, UserIn, Handling, EntryOf
  <2> QED
    BY <1>1, <2>1, AskedMoves
<1>3. PendingOf(h) # Nothing /\ PendingOf(h).asked = n /\ b = u.bot /\ p = u.who => StaffAsked(n, b, p)
  BY DEF PendingOf, StaffAsked, InPend
<1>4. StaffIn(h, "working") \/ StaffIn(h, "checking") =>
        (handler[h].held.asked = n /\ b = u.bot /\ p = u.who => StaffAsked(n, b, p))
  BY DEF StaffIn, StaffAsked, StaffSlotAsked
<1>5. CASE SForgets(h)
  <2>1. PICK k, w : Turn(h, k, Nothing, w) /\ k.stage \in {"rest", "popping"} /\ w \in {PendingOf(h), Nothing}
    BY <1>1, <1>5 DEF SForgets, Handling
  <2> QED
    BY <1>3, <1>5, <2>1, AskedMoves DEF SForgets
<1>6. CASE SAsks(h)
  <2>1. PICK k, w : Turn(h, k, Nothing, w) /\ k.stage = "rest" /\ w.asked = u.id
    BY <1>1, <1>6 DEF SAsks, Waits
  <2> QED
    BY <1>6, <2>1, AskedMoves DEF SAsks, Presses
<1>7. CASE SReads(h)
  <2>1. PICK k, w : Turn(h, k, Nothing, w) /\ w = PendingOf(h) /\ k = Handling("working", u, w) /\ w # Nothing
    BY <1>7 DEF SReads
  <2> QED
    BY <1>3, <1>7, <2>1, AskedMoves DEF SReads, Handling
<1>8. CASE SFills(h) \/ SCodes(h)
  <2>1. PICK k, w : Turn(h, k, Nothing, w) /\ k.stage = "rest" /\ w.asked = handler[h].held.asked
    BY <1>1, <1>8 DEF SFills, SCodes, Waits
  <2> QED
    BY <1>4, <1>8, <2>1, AskedMoves DEF SFills, SCodes
<1>9. CASE SLooks(h)
  <2>1. PICK k, w : /\ Turn(h, k, Nothing, w) /\ w = PendingOf(h)
                    /\ k.update = u /\ k.held.asked = handler[h].held.asked
    BY <1>9 DEF SLooks, Handling
  <2> QED
    BY <1>3, <1>4, <1>9, <2>1, AskedMoves DEF SLooks
<1>10. CASE SCommits(h)
  <2>1. PICK k, w : Turn(h, k, Nothing, w) /\ w = PendingOf(h) /\ k.stage = "popping"
    BY <1>10 DEF SCommits, Handling
  <2>2. PICK e : done' = Append(done, e) /\ StaffSlotAsked(e.asked, e.bot, e.who, h)
    BY <1>10 DEF SCommits, EntryOf, StaffSlotAsked, StaffIn
  <2> QED
    BY <1>3, <2>1, <2>2, AskedMoves
<1> QED
  BY <1>2, <1>5, <1>6, <1>7, <1>8, <1>9, <1>10 DEF StaffTurn

LEMMA OwnersTurn ==
  ASSUME TypeInv, OnceInv, OwnersInv, NEW h \in Slots, UserTurn(h) \/ StaffTurn(h)
  PROVE  OwnersInv'
<1>1. SAsks(h) => ~Used(handler[h].update.id)
  BY DEF SAsks, StaffIn, OnceInv, SlotOK, Busy
<1>2. ASSUME NEW n \in Ids, NEW b \in Staff, NEW p \in Person, NEW q \in Person,
             StaffAsked(n, b, p)', StaffAsked(n, b, q)'
      PROVE  p = q
  <2>1. /\ StaffAsked(n, b, p) \/ Presses(n, b, p, h)
        /\ StaffAsked(n, b, q) \/ Presses(n, b, q, h)
    BY <1>2, AskedTurn
  <2>2. (StaffAsked(n, b, p) => Used(n)) /\ (StaffAsked(n, b, q) => Used(n))
    BY StaffAskedIsUsed
  <2> QED
    BY <1>1, <2>1, <2>2 DEF Presses, OwnersInv
<1> QED
  BY <1>2 DEF OwnersInv

LEMMA OwnersWorld == ASSUME TypeInv, OwnersInv, WorldTurn PROVE OwnersInv'
<1>1. ASSUME \A b \in Staff, p \in Person : pend'[b][p] = pend[b][p] \/ pend'[b][p] = Nothing,
             \A h \in Slots : handler'[h] = handler[h] \/ handler'[h].stage \in {"rest", "resolving"},
             done' = done \/ \E e : done' = Append(done, e) /\ e.asked \notin Ids
      PROVE  OwnersInv'
  <2>1. ASSUME NEW n \in Ids, NEW b \in Staff, NEW p \in Person, StaffAsked(n, b, p)' PROVE StaffAsked(n, b, p)
    <3>1. InPend(n, b, p)' => InPend(n, b, p)
      BY <1>1 DEF InPend
    <3>2. \A h \in Slots : StaffSlotAsked(n, b, p, h)' => StaffSlotAsked(n, b, p, h)
      BY <1>1 DEF StaffSlotAsked
    <3>3. ASSUME NEW i \in DOMAIN done', EntryAsked(n, b, p, i)' PROVE i \in DOMAIN done /\ EntryAsked(n, b, p, i)
      <4>1. CASE done' = done
        BY <3>3, <4>1 DEF EntryAsked
      <4>2. ASSUME NEW e, done' = Append(done, e), e.asked \notin Ids
            PROVE  i \in DOMAIN done /\ EntryAsked(n, b, p, i)
        BY <3>3, <4>2, AppendFacts DEF EntryAsked
      <4> QED
        BY <1>1, <4>1, <4>2
    <3> QED
      BY <2>1, <3>1, <3>2, <3>3 DEF StaffAsked
  <2> QED
    BY <2>1 DEF OwnersInv
<1>2. ASSUME NEW h \in Slots, NEW u, Arrives(h, u) PROVE OwnersInv'
  BY <1>1, <1>2 DEF Arrives, Handling
<1>3. CASE Recognised \/ Lapses
  BY <1>1, <1>3 DEF Recognised, Lapses
<1>4. CASE OtherLists
  <2>1. \E e : done' = Append(done, e) /\ e.asked \notin Ids
    BY <1>4 DEF OtherLists, OthersEntry, Ids
  <2> QED
    BY <1>1, <1>4, <2>1 DEF OtherLists
<1>5. CASE Restarts
  BY <1>1, <1>5 DEF Restarts, Rest
<1> QED
  BY <1>2, <1>3, <1>4, <1>5 DEF WorldTurn, First, Second

-----------------------------------------------------------------------------
(* To a person whose messages are handled one at a time: a handler acts on   *)
(* what is pending, and what was committed is forgotten before the next      *)
(* message.                                                                  *)

HoldsPending(h) ==
  LET k == handler[h]
      w == pend[k.update.bot][k.update.who] IN
  k.update.bot \in Staff /\ k.update.who \notin mixed =>
    /\ k.stage = "working" => k.held = w
    /\ k.stage = "checking" => w = Waits("capacity", k.held.asked)
    /\ k.stage \in {"resolving", "working", "checking"} /\ w # Nothing
         => w.asked < k.update.id \/ k.update.id \in renewed
PopsFor(b, p, h) ==
  /\ handler[h].stage = "popping" /\ handler[h].update.text \notin Labels
  /\ handler[h].update.bot = b /\ handler[h].update.who = p
StaffInv ==
  /\ \A h \in Slots : Busy(h) => HoldsPending(h)
  /\ \A n \in Ids, b \in Staff, p \in Person \ mixed, i \in DOMAIN done :
       EntryAsked(n, b, p, i) /\ InPend(n, b, p) => \E h \in Slots : PopsFor(b, p, h)
  /\ \A i, j \in DOMAIN done :
       done[i].bot \in Staff /\ done[i].who \notin mixed /\ i # j
         => done[i].asked # done[j].asked \/ done[i].bot # done[j].bot
  /\ ConfirmedAfterAsked

LEMMA InitStaff == Init => StaffInv /\ OwnersInv
<1> SUFFICES ASSUME Init PROVE StaffInv /\ OwnersInv
  OBVIOUS
<1>1. done = <<>> /\ \A h \in Slots : handler[h].stage = "rest"
  BY DEF Init, UpdatesInit, Rest
<1>2. \A b \in Staff, p \in Person : pend[b][p] = Nothing
  BY DEF Init
<1> QED
  BY <1>1, <1>2 DEF StaffInv, OwnersInv, StaffAsked, InPend, StaffSlotAsked, Busy, ConfirmedAfterAsked

\* What the step puts into the slot and makes pending, for the invariant to hold.
LEMMA StaffMovesInv ==
  ASSUME TypeInv, OnceInv, OwnersInv, StaffInv, Serial,
         NEW h \in Slots, UserTurn(h) \/ StaffTurn(h),
         NEW k, NEW c, NEW w, Turn(h, k, c, w),
         k.stage # "rest" => k.update = handler[h].update,
         handler[h].update.bot \in Staff /\ handler[h].update.who \notin mixed =>
           /\ k.stage = "working" => k.held = w
           /\ k.stage = "checking" => w = Waits("capacity", k.held.asked)
           /\ k.stage \in {"working", "checking"} => w = PendingOf(h),
         k.stage \in {"working", "checking"} => handler[h].stage \in {"resolving", "working"},
         handler[h].update.bot \in Staff =>
           \/ w = PendingOf(h) \/ w = Nothing \/ ~Used(w.asked)
           \/ handler[h].stage \in {"working", "checking"} /\ w.asked = handler[h].held.asked,
         handler[h].stage = "popping" /\ handler[h].update.text \notin Labels => w = Nothing,
         \/ done' = done
         \/ \E e : /\ done' = Append(done, e)
                   /\ e.bot \in Staff =>
                        /\ handler[h].stage = "working" /\ k.stage = "popping"
                        /\ handler[h].update.text \notin Labels
                        /\ w = PendingOf(h)
                        /\ e.bot = handler[h].update.bot /\ e.who = handler[h].update.who
                        /\ e.by = handler[h].update.id /\ e.asked = handler[h].held.asked
  PROVE  StaffInv'
<1> DEFINE u == handler[h].update
<1>0. /\ Busy(h) /\ mixed' = mixed /\ renewed' = renewed
      /\ u \in Updates /\ u.who \in Person /\ StageOK(handler[h])
      /\ \A g \in Slots : g # h => handler'[g] = handler[g]
      /\ handler'[h] = k
      /\ k.stage # "resolving"
      /\ k.stage # "rest" => k.update = u
  BY TurnSlot, HandFacts DEF Busy, Silent, Turn
<1>1. \A b \in Staff, p \in Person : pend'[b][p] = IF b = u.bot /\ p = u.who THEN w ELSE pend[b][p]
  BY DEF Turn
<1>a. PendingOf(h) = pend[u.bot][u.who]
  BY DEF PendingOf
<1>b. ASSUME u.bot \in Staff, u.who \notin mixed, handler[h].stage \in {"working", "checking"}
      PROVE  /\ PendingOf(h) # Nothing /\ PendingOf(h).asked = handler[h].held.asked
             /\ handler[h].held.asked \in Ids
             /\ PendingOf(h).asked < u.id \/ u.id \in renewed
  <2>1. handler[h].stage = "working" => handler[h].held \in Waiting /\ handler[h].held = PendingOf(h)
    BY <1>0, <1>a, <1>b DEF StageOK, StaffInv, HoldsPending
  <2>2. handler[h].stage = "checking" => /\ handler[h].held.asked \in Ids
                                         /\ PendingOf(h) = Waits("capacity", handler[h].held.asked)
    BY <1>0, <1>a, <1>b DEF StageOK, StaffInv, HoldsPending, Checking
  <2>3. Waits("capacity", handler[h].held.asked).asked = handler[h].held.asked
    BY DEF Waits
  <2>4. handler[h].stage = "checking" => Waits("capacity", handler[h].held.asked) \in Waiting
    BY <2>2 DEF Waits, Waiting
  <2>5. PendingOf(h) # Nothing /\ PendingOf(h).asked = handler[h].held.asked /\ handler[h].held.asked \in Ids
    BY <1>b, <2>1, <2>2, <2>3, <2>4, NoneFacts DEF Waiting
  <2> QED
    BY <1>0, <1>a, <1>b, <2>5 DEF StaffInv, HoldsPending
<1>2. ASSUME NEW g \in Slots, Busy(g)' PROVE HoldsPending(g)'
  <2>1. CASE g = h
    <3> SUFFICES ASSUME u.bot \in Staff, u.who \notin mixed, k.stage \in {"working", "checking"}
                 PROVE  /\ k.stage = "working" => k.held = w
                        /\ k.stage = "checking" => w = Waits("capacity", k.held.asked)
                        /\ w # Nothing => w.asked < u.id \/ u.id \in renewed
      BY <1>0, <1>1, <1>2, <2>1 DEF HoldsPending, Busy
    <3>1. w = PendingOf(h) /\ handler[h].stage \in {"resolving", "working"}
      OBVIOUS
    <3>2. w # Nothing => w.asked < u.id \/ u.id \in renewed
      BY <1>0, <1>a, <3>1 DEF StaffInv, HoldsPending
    <3> QED
      BY <3>2
  <2>2. CASE g # h
    <3>1. handler'[g] = handler[g] /\ Busy(g) /\ handler[g].update.who \in Person
      BY <1>0, <1>2, <2>2, HandFacts DEF Busy
    <3>2. handler[g].update.who \notin mixed => handler[g].update.who # u.who
      BY <1>0, <2>2, <3>1 DEF Serial
    <3>3. HoldsPending(g)
      BY <3>1 DEF StaffInv
    <3> QED
      BY <1>0, <1>1, <3>1, <3>2, <3>3 DEF HoldsPending
  <2> QED
    BY <2>1, <2>2
<1>3. ASSUME NEW n \in Ids, NEW b \in Staff, NEW p \in Person \ mixed, NEW i \in DOMAIN done,
             EntryAsked(n, b, p, i), InPend(n, b, p)'
      PROVE  \E g \in Slots : PopsFor(b, p, g)'
  <2>1. Used(n)
    BY <1>3 DEF EntryAsked, Used
  <2>2. InPend(n, b, p)
    <3>1. CASE b = u.bot /\ p = u.who
      <4>1. w # Nothing /\ w.asked = n
        BY <1>1, <1>3, <3>1 DEF InPend
      <4>2. w = PendingOf(h) => InPend(n, b, p)
        BY <1>a, <3>1, <4>1 DEF InPend
      <4>3. CASE handler[h].stage \in {"working", "checking"} /\ w.asked = handler[h].held.asked
        BY <1>a, <1>b, <3>1, <4>1, <4>3 DEF InPend
      <4> QED
        BY <2>1, <3>1, <4>1, <4>2, <4>3
    <3>2. CASE ~(b = u.bot /\ p = u.who)
      BY <1>1, <1>3, <3>2 DEF InPend
    <3> QED
      BY <3>1, <3>2
  <2>3. PICK g \in Slots : PopsFor(b, p, g)
    BY <1>3, <2>2 DEF StaffInv
  <2>4. g # h
    <3> SUFFICES ASSUME g = h PROVE FALSE
      OBVIOUS
    <3>1. w = Nothing /\ b = u.bot /\ p = u.who
      BY <2>3 DEF PopsFor
    <3> QED
      BY <1>1, <1>3, <3>1 DEF InPend
  <2> QED
    BY <1>0, <2>3, <2>4 DEF PopsFor
<1>4. CASE done' = done
  <2>1. ConfirmedAfterAsked'
    BY <1>0, <1>4 DEF StaffInv, ConfirmedAfterAsked
  <2>2. \A n \in Ids, b \in Staff, p \in Person \ mixed', i \in DOMAIN done' :
          EntryAsked(n, b, p, i)' /\ InPend(n, b, p)' => \E g \in Slots : PopsFor(b, p, g)'
    BY <1>0, <1>3, <1>4 DEF EntryAsked
  <2> QED
    BY <1>0, <1>2, <1>4, <2>1, <2>2 DEF StaffInv
<1>5. ASSUME NEW e, done' = Append(done, e), e.bot \notin Staff PROVE StaffInv'
  <2>1. \A i \in DOMAIN done' : done'[i].bot \in Staff => i \in DOMAIN done /\ done'[i] = done[i]
    BY <1>5, AppendFacts
  <2>2. \A n \in Ids, b \in Staff, p \in Person \ mixed', i \in DOMAIN done' :
          EntryAsked(n, b, p, i)' /\ InPend(n, b, p)' => \E g \in Slots : PopsFor(b, p, g)'
    BY <1>0, <1>3, <2>1 DEF EntryAsked
  <2>3. ConfirmedAfterAsked'
    BY <1>0, <2>1 DEF StaffInv, ConfirmedAfterAsked
  <2>4. \A i, j \in DOMAIN done' :
          done'[i].bot \in Staff /\ done'[i].who \notin mixed' /\ i # j
            => done'[i].asked # done'[j].asked \/ done'[i].bot # done'[j].bot
    BY <1>0, <2>1 DEF StaffInv
  <2> QED
    BY <1>2, <2>2, <2>3, <2>4 DEF StaffInv
<1>6. ASSUME NEW e, done' = Append(done, e), e.bot \in Staff,
             /\ handler[h].stage = "working" /\ k.stage = "popping"
             /\ handler[h].update.text \notin Labels
             /\ w = PendingOf(h)
             /\ e.bot = u.bot /\ e.who = u.who /\ e.by = u.id /\ e.asked = handler[h].held.asked
      PROVE  StaffInv'
  <2>1. /\ \A i \in DOMAIN done' : \/ i \in DOMAIN done /\ done'[i] = done[i]
                                   \/ i = Len(done) + 1 /\ done'[i] = e
    BY <1>6, AppendFacts
  <2>2. PopsFor(e.bot, e.who, h)'
    BY <1>0, <1>6 DEF PopsFor
  <2>3. ASSUME NEW n \in Ids, NEW b \in Staff, NEW p \in Person \ mixed, NEW i \in DOMAIN done',
               EntryAsked(n, b, p, i)', InPend(n, b, p)'
        PROVE  \E g \in Slots : PopsFor(b, p, g)'
    <3>1. CASE i \in DOMAIN done /\ done'[i] = done[i]
      BY <1>3, <2>3, <3>1 DEF EntryAsked
    <3>2. CASE done'[i] = e
      <4>1. b = e.bot /\ p = e.who
        BY <2>3, <3>2 DEF EntryAsked
      <4>2. PopsFor(b, p, h)'
        BY <1>0, <1>6, <4>1 DEF PopsFor
      <4> QED
        BY <4>2
    <3> QED
      BY <2>1, <3>1, <3>2
  <2>4. ConfirmedAfterAsked'
    <3> SUFFICES ASSUME e.who \notin mixed
                 PROVE  e.asked < e.by \/ e.asked \in renewed \/ e.by \in renewed
      BY <1>0, <2>1 DEF StaffInv, ConfirmedAfterAsked
    <3> QED
      BY <1>6, <1>b
  <2>5. ASSUME NEW j \in DOMAIN done, done[j].asked = e.asked, done[j].bot = e.bot,
               e.who \notin mixed \/ done[j].who \notin mixed
        PROVE  FALSE
    <3> DEFINE n == e.asked
    <3> DEFINE b == e.bot
    <3>1. n \in Ids /\ u.bot \in Staff
      BY <1>0, <1>6 DEF StageOK, Waiting
    <3>2. EntryOK(done[j]) /\ done[j].who \in Person
      BY <2>5, <3>1 DEF TypeInv, EntryOK
    <3>3. StaffAsked(n, b, done[j].who) /\ StaffAsked(n, b, u.who)
      BY <1>6, <2>5 DEF StaffAsked, EntryAsked, StaffSlotAsked
    <3>4. done[j].who = u.who /\ u.who \notin mixed
      BY <1>0, <1>6, <2>5, <3>1, <3>2, <3>3 DEF OwnersInv
    <3>5. InPend(n, b, u.who)
      BY <1>6, <1>a, <1>b, <3>1, <3>4 DEF InPend
    <3>6. EntryAsked(n, b, u.who, j)
      BY <2>5, <3>4 DEF EntryAsked
    <3>7. PICK g \in Slots : PopsFor(b, u.who, g)
      BY <1>0, <1>6, <3>1, <3>4, <3>5, <3>6 DEF StaffInv
    <3> QED
      BY <1>0, <1>6, <3>4, <3>7 DEF PopsFor, Serial, Busy
  <2>6. \A i, j \in DOMAIN done' :
          done'[i].bot \in Staff /\ done'[i].who \notin mixed' /\ i # j
            => done'[i].asked # done'[j].asked \/ done'[i].bot # done'[j].bot
    BY <1>0, <2>1, <2>5 DEF StaffInv
  <2> QED
    BY <1>0, <1>2, <2>3, <2>4, <2>6 DEF StaffInv
<1> QED
  BY <1>4, <1>5, <1>6

LEMMA StaffInvTurn ==
  ASSUME TypeInv, OnceInv, OwnersInv, StaffInv, Serial, NEW h \in Slots, UserTurn(h) \/ StaffTurn(h)
  PROVE  StaffInv'
<1> DEFINE u == handler[h].update
<1>0. u.who \in Person /\ Rest.stage = "rest" /\ "user" \notin Staff /\ StageOK(handler[h]) /\ Busy(h)
  BY TurnSlot, HandFacts DEF Busy, Rest, Staff
<1>1. CASE UserTurn(h)
  <2>1. /\ u.bot = "user" /\ handler[h].stage \in {"resolving", "finishing"}
        /\ \E k, c : Turn(h, k, c, Nothing) /\ (k = Rest \/ (k.stage = "finishing" /\ k.update = u))
        /\ done' = done \/ \E e : done' = Append(done, e) /\ e.bot = u.bot
    BY <1>1 DEF UserTurn, UForgets, UBegins, UAnswers, ULast, USubmits, UserIn, Handling, EntryOf
  <2> QED
    BY <1>0, <1>1, <2>1, StaffMovesInv
<1>2. CASE SForgets(h)
  <2>1. PICK k, w : /\ Turn(h, k, Nothing, w) /\ (k = Rest \/ (k.stage = "popping" /\ k.update = u))
                    /\ w \in {PendingOf(h), Nothing}
                    /\ handler[h].stage = "popping" /\ u.text \notin Labels => w = Nothing
    BY <1>2 DEF SForgets, Handling
  <2> QED
    BY <1>0, <1>2, <2>1, StaffMovesInv DEF SForgets, StaffTurn
<1>3. CASE SAsks(h)
  <2>1. PICK w : Turn(h, Rest, Nothing, w) /\ w.asked = u.id
    BY <1>3 DEF SAsks, Waits
  <2>2. handler[h].stage = "resolving" /\ ~Used(w.asked) /\ done' = done
    BY <1>0, <1>3, <2>1 DEF SAsks, StaffIn, OnceInv, SlotOK
  <2> QED
    BY <1>0, <1>3, <2>1, <2>2, StaffMovesInv DEF StaffTurn
<1>4. CASE SReads(h)
  <2>1. PICK k, w : /\ Turn(h, k, Nothing, w) /\ w = PendingOf(h)
                    /\ k.stage = "working" /\ k.update = u /\ k.held = w
    BY <1>4 DEF SReads, Handling
  <2>2. handler[h].stage = "resolving" /\ done' = done
    BY <1>4 DEF SReads, StaffIn
  <2> QED
    BY <1>4, <2>1, <2>2, StaffMovesInv DEF StaffTurn
<1>5. CASE SFills(h) \/ SCodes(h)
  <2>1. PICK w : Turn(h, Rest, Nothing, w) /\ w.asked = handler[h].held.asked
    BY <1>5 DEF SFills, SCodes, Waits
  <2>2. handler[h].stage \in {"working", "checking"} /\ done' = done
    BY <1>5 DEF SFills, SCodes, StaffIn
  <2> QED
    BY <1>0, <1>5, <2>1, <2>2, StaffMovesInv DEF StaffTurn
<1>6. CASE SLooks(h)
  <2>1. PICK k, w : /\ Turn(h, k, Nothing, w) /\ w = PendingOf(h)
                    /\ k.stage = "checking" /\ k.update = u /\ k.held.asked = handler[h].held.asked
    BY <1>6 DEF SLooks, Handling
  <2>2. handler[h].stage = "working" /\ handler[h].held.kind = "capacity" /\ u.bot \in Staff /\ done' = done
    BY <1>6 DEF SLooks, StaffIn
  <2>3. u.who \notin mixed => w = Waits("capacity", k.held.asked)
    <3>1. handler[h].held \in Waiting
      BY <1>0, <2>2 DEF StageOK
    <3>2. handler[h].held = Waits("capacity", handler[h].held.asked)
      BY <2>2, <3>1 DEF Waiting, Waits
    <3>3. u.who \notin mixed => handler[h].held = w
      BY <1>0, <2>1, <2>2 DEF StaffInv, HoldsPending, PendingOf
    <3> QED
      BY <2>1, <3>2, <3>3
  <2> QED
    BY <1>6, <2>1, <2>2, <2>3, StaffMovesInv DEF StaffTurn
<1>7. CASE SCommits(h)
  <2>1. PICK k, w : Turn(h, k, Nothing, w) /\ w = PendingOf(h) /\ k.stage = "popping" /\ k.update = u
    BY <1>7 DEF SCommits, Handling
  <2>2. /\ handler[h].stage = "working" /\ u.text \notin Labels
        /\ \E e : /\ done' = Append(done, e)
                  /\ e.bot = u.bot /\ e.who = u.who /\ e.by = u.id /\ e.asked = handler[h].held.asked
    BY <1>7 DEF SCommits, StaffIn, EntryOf
  <2> QED
    BY <1>7, <2>1, <2>2, StaffMovesInv DEF StaffTurn
<1> QED
  BY <1>1, <1>2, <1>3, <1>4, <1>5, <1>6, <1>7 DEF StaffTurn

LEMMA StaffInvWorld == ASSUME TypeInv, OnceInv, StaffInv, WorldTurn PROVE StaffInv'
<1>0. \A i \in DOMAIN done : EntryOK(done[i]) /\ (done[i].who = AnotherOwner => done[i].asked = 0)
  BY NoneFacts DEF TypeInv, EntryOK
<1>1. ASSUME UNCHANGED <<done, pend>>, mixed \subseteq mixed', renewed \subseteq renewed',
             \A h \in Slots : Busy(h)' => HoldsPending(h)',
             \A b, p : \A h \in Slots : PopsFor(b, p, h) => PopsFor(b, p, h)'
      PROVE  StaffInv'
  <2>1. ConfirmedAfterAsked'
    BY <1>1 DEF StaffInv, ConfirmedAfterAsked
  <2>2. ASSUME NEW n \in Ids, NEW b \in Staff, NEW p \in Person \ mixed', NEW i \in DOMAIN done',
               EntryAsked(n, b, p, i)', InPend(n, b, p)'
        PROVE  \E h \in Slots : PopsFor(b, p, h)'
    <3>1. EntryAsked(n, b, p, i) /\ InPend(n, b, p) /\ p \in Person \ mixed
      BY <1>1, <2>2 DEF EntryAsked, InPend
    <3>2. PICK h \in Slots : PopsFor(b, p, h)
      BY <1>1, <2>2, <3>1 DEF StaffInv
    <3> QED
      BY <1>1, <3>2
  <2>3. \A i, j \in DOMAIN done' :
          done'[i].bot \in Staff /\ done'[i].who \notin mixed' /\ i # j
            => done'[i].asked # done'[j].asked \/ done'[i].bot # done'[j].bot
    BY <1>1 DEF StaffInv
  <2> QED
    BY <1>1, <2>1, <2>2, <2>3 DEF StaffInv
<1>2. ASSUME NEW h \in Slots, NEW u, Arrives(h, u), u.id = sent + 1 \/ u.id \in renewed PROVE StaffInv'
  <2>1. /\ mixed \subseteq mixed' /\ renewed' = renewed /\ UNCHANGED <<done, pend>> /\ ~Busy(h)
        /\ u \in Updates /\ u.who \in Person
        /\ \A g \in Slots : g # h => handler'[g] = handler[g]
        /\ handler'[h].stage = "resolving" /\ handler'[h].update = u
    BY <1>2 DEF Arrives, Handling, Updates
  <2>2. ASSUME NEW g \in Slots, Busy(g)' PROVE HoldsPending(g)'
    <3>1. CASE g # h
      BY <2>1, <2>2, <3>1 DEF HoldsPending, StaffInv, Busy
    <3>2. CASE g = h
      <4>1. ASSUME u.bot \in Staff, pend[u.bot][u.who] # Nothing
            PROVE  pend[u.bot][u.who].asked < u.id \/ u.id \in renewed
        <5>1. pend[u.bot][u.who].asked \in Nat
          BY <2>1, <4>1 DEF TypeInv, TypeOK, Waiting, Ids
        <5>2. Used(pend[u.bot][u.who].asked)
          BY <2>1, <4>1 DEF Used, InPend
        <5>3. pend[u.bot][u.who].asked <= sent /\ sent \in Nat
          BY <5>1, <5>2 DEF OnceInv, TypeInv, TypeOK
        <5> QED
          BY <1>2, <5>1, <5>3
      <4> QED
        BY <2>1, <3>2, <4>1 DEF HoldsPending
    <3> QED
      BY <3>1, <3>2
  <2>3. \A b, p : \A g \in Slots : PopsFor(b, p, g) => PopsFor(b, p, g)'
    BY <2>1 DEF PopsFor, Busy
  <2> QED
    BY <1>1, <2>1, <2>2, <2>3
<1>3. ASSUME NEW h \in Slots, Second(h) PROVE StaffInv'
  <2>1. Arrives(h, again) /\ again # Nothing /\ ~Duplicate(again)
    BY <1>3 DEF Second
  <2>2. again.id \in renewed
    BY <2>1 DEF OnceInv, AgainOK, Duplicate
  <2> QED
    BY <1>2, <2>1, <2>2
<1>4. CASE Recognised \/ Lapses
  <2>1. mixed' = mixed /\ renewed \subseteq renewed' /\ UNCHANGED <<done, pend, handler>>
    BY <1>4 DEF Recognised, Lapses
  <2>2. \A h \in Slots : Busy(h)' => HoldsPending(h)'
    BY <2>1 DEF StaffInv, HoldsPending, Busy
  <2>3. \A b, p : \A g \in Slots : PopsFor(b, p, g) => PopsFor(b, p, g)'
    BY <2>1 DEF PopsFor
  <2> QED
    BY <1>1, <2>1, <2>2, <2>3
<1>5. CASE OtherLists
  <2>1. PICK e : done' = Append(done, e) /\ e.who = AnotherOwner /\ e.asked = 0 /\ e.bot = "owner"
    BY <1>5 DEF OtherLists, OthersEntry
  <2>2. UNCHANGED <<mixed, renewed, pend, handler>> /\ \A i \in DOMAIN done : done[i].who # AnotherOwner
    BY <1>5 DEF OtherLists
  <2>3. \A i \in DOMAIN done' : \/ i \in DOMAIN done /\ done'[i] = done[i]
                                \/ i = Len(done) + 1 /\ done'[i] = e
    BY <2>1, AppendFacts
  <2>4. \A i \in DOMAIN done : done[i].asked # 0
    BY <1>0, <2>2 DEF EntryOK, Ids
  <2>5. \A h \in Slots : Busy(h)' => HoldsPending(h)'
    BY <2>2 DEF StaffInv, HoldsPending, Busy
  <2>6. AnotherOwner \notin Person
    BY NoneFacts
  <2>7. ConfirmedAfterAsked'
    BY <2>1, <2>2, <2>3, <2>6 DEF StaffInv, ConfirmedAfterAsked
  <2>8. ASSUME NEW n \in Ids, NEW b \in Staff, NEW p \in Person \ mixed', NEW i \in DOMAIN done',
               EntryAsked(n, b, p, i)', InPend(n, b, p)'
        PROVE  \E h \in Slots : PopsFor(b, p, h)'
    BY <2>1, <2>2, <2>3, <2>6, <2>8 DEF StaffInv, EntryAsked, InPend, PopsFor
  <2>9. \A i, j \in DOMAIN done' :
          done'[i].bot \in Staff /\ done'[i].who \notin mixed' /\ i # j
            => done'[i].asked # done'[j].asked \/ done'[i].bot # done'[j].bot
    BY <2>1, <2>2, <2>3, <2>4 DEF StaffInv
  <2> QED
    BY <2>5, <2>7, <2>8, <2>9 DEF StaffInv
<1>6. CASE Restarts
  <2>1. /\ mixed' = mixed /\ renewed \subseteq renewed' /\ done' = done
        /\ \A b \in Staff, p \in Person : pend'[b][p] = Nothing
        /\ \A h \in Slots : ~Busy(h)'
    BY <1>6 DEF Restarts, Busy, Rest
  <2>2. ConfirmedAfterAsked'
    BY <2>1 DEF StaffInv, ConfirmedAfterAsked
  <2> QED
    BY <2>1, <2>2 DEF StaffInv, InPend
<1> QED
  BY <1>2, <1>3, <1>4, <1>5, <1>6 DEF WorldTurn, First

-----------------------------------------------------------------------------
(* The codes of the lists.                                                   *)

IsList(e) == e.bot = "owner" /\ e.what # Nothing
CodesInv ==
  /\ \A p \in Person \ mixed : LET w == pend["owner"][p] IN
       w # Nothing /\ w.kind = "create" => form[w.asked].code = CodeOf(form[w.asked])
  /\ \A h \in Slots : LET k == handler[h] IN
       k.stage = "checking" /\ k.update.who \notin mixed => k.held.code = CodeOf(form[k.held.asked])
  /\ ListsAreDistinct

LEMMA InitCodes == Init => CodesInv
<1> SUFFICES ASSUME Init PROVE CodesInv
  OBVIOUS
<1>1. done = <<>> /\ \A h \in Slots : handler[h].stage = "rest"
  BY DEF Init, UpdatesInit, Rest
<1>2. \A p \in Person : pend["owner"][p] = Nothing
  BY DEF Init, Staff
<1> QED
  BY <1>1, <1>2 DEF CodesInv, ListsAreDistinct

\* Nobody else writes into the form of a person.
LEMMA FormIsOwn ==
  ASSUME TypeInv, OnceInv, OwnersInv, NEW h \in Slots, UserTurn(h) \/ StaffTurn(h),
         NEW n \in Ids, NEW p \in Person, StaffAsked(n, "owner", p), p # handler[h].update.who
  PROVE  form'[n] = form[n]
<1>1. CASE form' = form
  BY <1>1
<1>2. CASE SAsks(h) /\ FormBecomes(handler[h].update.id, Blank)
  <2>1. ~Used(handler[h].update.id)
    BY <1>2 DEF SAsks, StaffIn, OnceInv, SlotOK, Busy
  <2>2. Used(n)
    BY StaffAskedIsUsed DEF Staff
  <2> QED
    BY <1>2, <2>1, <2>2 DEF FormBecomes
<1>3. ASSUME NEW f, FormBecomes(handler[h].held.asked, f), StaffIn(h, "working") \/ StaffIn(h, "checking"),
             handler[h].stage = "working" => handler[h].held.kind # "lead"
      PROVE  form'[n] = form[n]
  <2>1. handler[h].update.who \in Person /\ handler[h].update.bot = "owner"
    BY <1>3, HandFacts DEF StaffIn, StageOK
  <2>2. StaffAsked(handler[h].held.asked, "owner", handler[h].update.who)
    BY <1>3, <2>1 DEF StaffAsked, StaffSlotAsked, StaffIn
  <2>3. n # handler[h].held.asked
    BY <2>1, <2>2 DEF OwnersInv, Staff
  <2> QED
    BY <1>3, <2>3 DEF FormBecomes
<1>4. CASE SFills(h)
  BY <1>3, <1>4 DEF SFills
<1>5. CASE SCodes(h)
  BY <1>3, <1>5 DEF SCodes, StaffIn
<1>6. CASE UserTurn(h)
  BY <1>1, <1>6 DEF UserTurn, UForgets, UBegins, UAnswers, ULast, USubmits
<1>7. CASE SForgets(h) \/ SReads(h) \/ SLooks(h) \/ SCommits(h)
  BY <1>1, <1>7 DEF SForgets, SReads, SLooks, SCommits
<1>8. CASE SAsks(h)
  BY <1>1, <1>2, <1>8 DEF SAsks
<1> QED
  BY <1>4, <1>5, <1>6, <1>7, <1>8 DEF StaffTurn

LEMMA CodesMoves ==
  ASSUME TypeInv, OnceInv, OwnersInv, CodesInv, Serial, NEW h \in Slots, UserTurn(h) \/ StaffTurn(h),
         NEW k, NEW c, NEW w, Turn(h, k, c, w),
         handler[h].update.bot = "owner" /\ handler[h].update.who \notin mixed =>
           \/ w = Nothing \/ w.kind # "create"
           \/ form'[w.asked].code = CodeOf(form'[w.asked])
           \/ w = PendingOf(h) /\ form' = form,
         k.stage = "checking" /\ handler[h].update.who \notin mixed =>
           k.held.code = CodeOf(form'[k.held.asked]),
         UserTurn(h) => form' = form,
         \/ done' = done
         \/ \E e : /\ done' = Append(done, e)
                   /\ IsList(e) =>
                        /\ e.what.code \notin Codes
                        /\ e.who \notin mixed => e.what.code = ListCode(e.what.type, e.what.threshold)
  PROVE  CodesInv'
<1> DEFINE u == handler[h].update
<1>0. /\ Busy(h) /\ mixed' = mixed /\ u.who \in Person
      /\ \A g \in Slots : g # h => handler'[g] = handler[g]
      /\ handler'[h] = k
      /\ handler'[h].stage # "rest" => handler'[h].update = u
  BY TurnSlot, HandFacts DEF Busy, Silent, Turn
<1>1. ASSUME NEW p \in Person \ mixed, NEW v, v = pend'["owner"][p], v # Nothing, v.kind = "create"
      PROVE  form'[v.asked].code = CodeOf(form'[v.asked])
  <2>1. CASE p = u.who /\ u.bot = "owner"
    <3>1. v = w
      BY <1>1, <2>1 DEF Turn, Staff
    <3>2. CASE w = PendingOf(h) /\ form' = form
      BY <1>1, <2>1, <3>1, <3>2 DEF PendingOf, CodesInv
    <3> QED
      BY <1>1, <2>1, <3>1, <3>2
  <2>2. CASE ~(p = u.who /\ u.bot = "owner")
    <3>1. v = pend["owner"][p] /\ v \in Waiting /\ v.asked \in Ids
      BY <1>1, <2>2 DEF Turn, Staff, TypeInv, TypeOK, Waiting
    <3>2. StaffAsked(v.asked, "owner", p) /\ "owner" \in Staff
      BY <1>1, <3>1 DEF StaffAsked, InPend, Staff
    <3>3. form'[v.asked] = form[v.asked]
      <4>1. CASE p # u.who
        BY <1>1, <3>1, <3>2, <4>1, FormIsOwn
      <4>2. CASE p = u.who
        <5>1. u.bot # "owner"
          BY <2>2, <4>2
        <5>2. StageOK(handler[h])
          BY <1>0, HandFacts DEF Busy
        <5>3. ~SFills(h) /\ ~SCodes(h)
          BY <5>1, <5>2 DEF SFills, SCodes, StaffIn, StageOK
        <5>4. SAsks(h) => form' = form
          BY <5>1 DEF SAsks, StaffIn, Staff
        <5>5. form' = form
          BY <5>3, <5>4 DEF StaffTurn, SForgets, SReads, SLooks, SCommits
        <5> QED
          BY <5>5
      <4> QED
        BY <4>1, <4>2
    <3> QED
      BY <1>1, <3>1, <3>3 DEF CodesInv
  <2> QED
    BY <2>1, <2>2
<1>2. ASSUME NEW g \in Slots, handler'[g].stage = "checking", handler'[g].update.who \notin mixed
      PROVE  handler'[g].held.code = CodeOf(form'[handler'[g].held.asked])
  <2>1. CASE g = h
    BY <1>0, <1>2, <2>1
  <2>2. CASE g # h
    <3> DEFINE j == handler[g]
    <3>1. handler'[g] = j /\ Busy(g) /\ j.stage = "checking"
      BY <1>0, <1>2, <2>2 DEF Busy
    <3>2. j.update.who \in Person /\ j.update.bot = "owner" /\ j.held.asked \in Ids
      BY <3>1, HandFacts DEF StageOK, Checking, Busy
    <3>3. j.update.who # u.who
      BY <1>0, <1>2, <2>2, <3>1 DEF Serial
    <3>4. StaffAsked(j.held.asked, "owner", j.update.who)
      BY <3>1, <3>2 DEF StaffAsked, StaffSlotAsked
    <3>5. form'[j.held.asked] = form[j.held.asked]
      BY <3>2, <3>3, <3>4, FormIsOwn
    <3> QED
      BY <1>2, <3>1, <3>5 DEF CodesInv
  <2> QED
    BY <2>1, <2>2
<1>3. ListsAreDistinct'
  <2>1. CASE done' = done
    BY <1>0, <2>1 DEF CodesInv, ListsAreDistinct
  <2>2. ASSUME NEW e, done' = Append(done, e), IsList(e) =>
                        /\ e.what.code \notin Codes
                        /\ e.who \notin mixed => e.what.code = ListCode(e.what.type, e.what.threshold)
        PROVE  ListsAreDistinct'
    <3>1. \A i \in DOMAIN done' : \/ i \in DOMAIN done /\ done'[i] = done[i]
                                  \/ i = Len(done) + 1 /\ done'[i] = e
      BY <2>2, AppendFacts
    <3>2. IsList(e) => \A i \in DOMAIN done : IsList(done[i]) => done[i].what.code # e.what.code
      BY <2>2 DEF IsList, Codes
    <3> QED
      BY <1>0, <2>2, <3>1, <3>2 DEF CodesInv, ListsAreDistinct, IsList
  <2> QED
    BY <2>1, <2>2
<1> QED
  BY <1>0, <1>1, <1>2, <1>3 DEF CodesInv

LEMMA CodesTurn ==
  ASSUME TypeInv, OnceInv, OwnersInv, FormsInv, StaffInv, CodesInv, Serial,
         NEW h \in Slots, UserTurn(h) \/ StaffTurn(h)
  PROVE  CodesInv'
<1> DEFINE u == handler[h].update
<1>0. u.who \in Person /\ Rest.stage = "rest" /\ StageOK(handler[h]) /\ Busy(h)
  BY TurnSlot, HandFacts DEF Busy, Rest
<1>1. CASE UserTurn(h)
  <2>1. /\ u.bot = "user" /\ form' = form
        /\ \E k, c : Turn(h, k, c, Nothing) /\ k.stage # "checking"
        /\ done' = done \/ \E e : done' = Append(done, e) /\ e.bot = u.bot
    BY <1>0, <1>1 DEF UserTurn, UForgets, UBegins, UAnswers, ULast, USubmits, UserIn, Handling, EntryOf
  <2> QED
    BY <1>1, <2>1, CodesMoves DEF IsList
<1>a. StaffTurn(h) => ~UserTurn(h)
  BY DEF StaffTurn, SForgets, SAsks, SReads, SFills, SLooks, SCodes, SCommits, StaffIn, Staff,
         UserTurn, UForgets, UBegins, UAnswers, ULast, USubmits, UserIn
<1>2. CASE SForgets(h) \/ SReads(h)
  <2>1. PICK k, w : /\ Turn(h, k, Nothing, w) /\ k.stage # "checking"
                    /\ w = PendingOf(h) \/ w = Nothing
    BY <1>0, <1>2 DEF SForgets, SReads, Handling
  <2> QED
    BY <1>2, <1>a, <2>1, CodesMoves DEF SForgets, SReads, StaffTurn
<1>3. CASE SAsks(h) \/ SFills(h)
  <2>1. PICK w : Turn(h, Rest, Nothing, w) /\ w.kind # "create"
    BY <1>3 DEF SAsks, SFills, Waits
  <2> QED
    BY <1>0, <1>3, <1>a, <2>1, CodesMoves DEF SAsks, SFills, StaffTurn
<1>4. CASE SLooks(h)
  <2>1. PICK k, w : /\ Turn(h, k, Nothing, w) /\ w = PendingOf(h)
                    /\ k.held.asked = handler[h].held.asked /\ k.held.code = CodeOf(form[handler[h].held.asked])
    BY <1>4 DEF SLooks, Handling
  <2> QED
    BY <1>4, <1>a, <2>1, CodesMoves DEF SLooks, StaffTurn
<1>5. CASE SCodes(h)
  <2>1. PICK n, f, w : /\ n = handler[h].held.asked /\ f = [form[n] EXCEPT !.code = handler[h].held.code]
                       /\ Turn(h, Rest, Nothing, w) /\ w = Waits("create", n) /\ FormBecomes(n, f)
    BY <1>5 DEF SCodes
  <2>2. n \in Ids /\ form[n] \in Forms /\ done' = done /\ handler[h].stage = "checking"
    BY <1>0, <1>5, <2>1 DEF SCodes, StaffIn, StageOK, Checking, FormsInv, Ready
  <2>3. w.asked = n /\ form'[n] = f
    BY <2>1, <2>2 DEF Waits, FormBecomes
  <2>4. f.code = handler[h].held.code /\ CodeOf(f) = CodeOf(form[n])
    BY <2>1, <2>2 DEF Forms, CodeOf
  <2>5. u.who \notin mixed => form'[w.asked].code = CodeOf(form'[w.asked])
    BY <2>1, <2>2, <2>3, <2>4 DEF CodesInv
  <2> QED
    BY <1>0, <1>5, <1>a, <2>1, <2>2, <2>5, CodesMoves DEF StaffTurn
<1>6. CASE SCommits(h)
  <2>1. PICK k, w, what : /\ Turn(h, k, Nothing, w) /\ w = PendingOf(h) /\ k.stage = "popping"
                          /\ what \in {Nothing, form[handler[h].held.asked]}
                          /\ done' = Append(done, EntryOf(h, what))
                          /\ what # Nothing => /\ handler[h].held.kind = "create" /\ u.bot = "owner"
                                               /\ what \in Forms /\ what.code \notin Codes
    BY <1>6 DEF SCommits, Handling
  <2>2. handler[h].stage = "working" /\ u.bot \in Staff /\ form' = form
    BY <1>6 DEF SCommits, StaffIn
  <2>3. what # Nothing /\ u.who \notin mixed => what.code = CodeOf(what)
    <3>1. u.who \notin mixed => handler[h].held = PendingOf(h)
      BY <1>0, <2>2 DEF StaffInv, HoldsPending, PendingOf
    <3>2. handler[h].held \in Waiting /\ Nothing \notin Waiting
      BY <1>0, <2>2, NoneFacts DEF StageOK
    <3> QED
      BY <1>0, <2>1, <3>1, <3>2 DEF CodesInv, PendingOf
  <2>4. PICK e : e = EntryOf(h, what)
    OBVIOUS
  <2>5. e.bot = u.bot /\ e.who = u.who /\ e.what = what
    BY <2>4 DEF EntryOf
  <2>6. IsList(e) => /\ e.what.code \notin Codes
                     /\ e.who \notin mixed => e.what.code = ListCode(e.what.type, e.what.threshold)
    BY <2>1, <2>3, <2>5 DEF IsList, CodeOf
  <2> QED
    BY <1>6, <1>a, <2>1, <2>2, <2>4, <2>6, CodesMoves DEF StaffTurn
<1> QED
  BY <1>1, <1>2, <1>3, <1>4, <1>5, <1>6 DEF StaffTurn

LEMMA CodesWorld == ASSUME TypeInv, CodesInv, WorldTurn PROVE CodesInv'
<1>1. ASSUME mixed \subseteq mixed', UNCHANGED <<pend, form, done>>,
             \A h \in Slots : handler'[h] = handler[h] \/ handler'[h].stage # "checking"
      PROVE  CodesInv'
  <2>1. ListsAreDistinct'
    BY <1>1 DEF CodesInv, ListsAreDistinct
  <2> QED
    BY <1>1, <2>1 DEF CodesInv
<1>2. ASSUME NEW h \in Slots, NEW u, Arrives(h, u) PROVE CodesInv'
  BY <1>1, <1>2 DEF Arrives, Handling
<1>3. CASE Recognised \/ Lapses
  BY <1>1, <1>3 DEF Recognised, Lapses
<1>4. CASE OtherLists
  <2>1. PICK f \in Families, t \in Thresholds :
          ListCode(f, t) \notin Codes /\ done' = Append(done, OthersEntry(f, t))
    BY <1>4 DEF OtherLists
  <2>2. PICK e : e = OthersEntry(f, t)
    OBVIOUS
  <2>3. /\ IsList(e) => e.what.code \notin Codes
        /\ e.what.code = ListCode(e.what.type, e.what.threshold)
    BY <2>1, <2>2 DEF OthersEntry
  <2>4. \A i \in DOMAIN done' : \/ i \in DOMAIN done /\ done'[i] = done[i]
                                \/ i = Len(done) + 1 /\ done'[i] = e
    BY <2>1, <2>2, AppendFacts
  <2>5. \A i \in DOMAIN done : IsList(done[i]) => (IsList(e) => done[i].what.code # e.what.code)
    BY <2>3 DEF IsList, Codes
  <2>6. UNCHANGED <<mixed, handler, pend, form>>
    BY <1>4 DEF OtherLists
  <2>7. ListsAreDistinct'
    BY <2>3, <2>4, <2>5, <2>6 DEF CodesInv, ListsAreDistinct, IsList
  <2> QED
    BY <2>6, <2>7 DEF CodesInv
<1>5. CASE Restarts
  <2>1. /\ mixed' = mixed /\ done' = done /\ \A p \in Person : pend'["owner"][p] = Nothing
        /\ \A h \in Slots : handler'[h].stage = "rest"
    BY <1>5 DEF Restarts, Rest, Staff
  <2>2. ListsAreDistinct'
    BY <2>1 DEF CodesInv, ListsAreDistinct
  <2> QED
    BY <2>1, <2>2 DEF CodesInv
<1> QED
  BY <1>2, <1>3, <1>4, <1>5 DEF WorldTurn, First, Second


-----------------------------------------------------------------------------
(* The specification.                                                       *)

IInv ==
  /\ TypeInv /\ FormsInv
  /\ OnceInv /\ UserOnceInv
  /\ Serial /\ AnswersInv
  /\ OwnersInv /\ StaffInv /\ CodesInv

LEMMA InitIInv == Init => IInv
BY InitTypeInv, InitOnce, InitUserOnce, InitAnswers, InitStaff, InitCodes DEF IInv

LEMMA NextIInv == IInv /\ Next => IInv'
<1> SUFFICES ASSUME IInv, Next PROVE IInv'
  OBVIOUS
<1>1. /\ TypeInv /\ FormsInv /\ OnceInv /\ UserOnceInv /\ Serial
      /\ AnswersInv /\ OwnersInv /\ StaffInv /\ CodesInv
  BY DEF IInv
<1>2. TypeInv' /\ (WorldTurn \/ \E h \in Slots : UserTurn(h) \/ StaffTurn(h))
  BY <1>1, EveryStep
<1>3. CASE WorldTurn
  <2>1. FormsInv' /\ OnceInv' /\ UserOnceInv'
    BY <1>1, <1>2, <1>3, FormsWorld, OnceWorld, UserOnceWorld
  <2>2. Serial' /\ AnswersInv'
    BY <1>1, <1>3, SerialWorld, AnswersWorld
  <2>3. OwnersInv' /\ StaffInv' /\ CodesInv'
    BY <1>1, <1>3, OwnersWorld, StaffInvWorld, CodesWorld
  <2> QED
    BY <1>2, <2>1, <2>2, <2>3 DEF IInv
<1>4. ASSUME NEW h \in Slots, UserTurn(h) \/ StaffTurn(h) PROVE IInv'
  <2>1. FormsInv' /\ OnceInv' /\ UserOnceInv'
    BY <1>1, <1>4, FormsTurn, OnceTurn, UserOnceTurn
  <2>2. Serial' /\ AnswersInv'
    BY <1>1, <1>4, SerialTurn, AnswersTurn
  <2>3. OwnersInv' /\ StaffInv' /\ CodesInv'
    BY <1>1, <1>4, OwnersTurn, StaffInvTurn, CodesTurn
  <2> QED
    BY <1>2, <2>1, <2>2, <2>3 DEF IInv
<1> QED
  BY <1>2, <1>3, <1>4

LEMMA StutterIInv == IInv /\ UNCHANGED vars => IInv'
<1> SUFFICES ASSUME IInv, UNCHANGED vars PROVE IInv'
  OBVIOUS
<1>1. UNCHANGED <<handler, again, seen, sent, restarts, conv, pend, form, mixed, renewed, done>>
  BY DEF vars, updateVars, staffVars
<1>2. TypeInv' /\ FormsInv'
  <2>1. TypeOK'
    BY <1>1 DEF IInv, TypeInv, TypeOK
  <2> QED
    BY <1>1, <2>1 DEF IInv, TypeInv, FormsInv
<1>3. OnceInv'
  BY <1>1 DEF IInv, OnceInv, AgainOK, SlotOK, Busy, Used, InConv, InPend, InSlot
<1>4. UserOnceInv' /\ Serial'
  BY <1>1 DEF IInv, UserOnceInv, Serial, Busy, Open, Finishing, UserEntry
<1>5. AnswersInv'
  BY <1>1 DEF IInv, AnswersInv, InOrder, Follows, Waited, InConv, Open, Finishing, UserEntry
<1>6. OwnersInv'
  BY <1>1 DEF IInv, OwnersInv, StaffAsked, StaffSlotAsked, EntryAsked, InPend
<1>7. StaffInv'
  BY <1>1 DEF IInv, StaffInv, HoldsPending, PopsFor, EntryAsked, InPend, Busy, ConfirmedAfterAsked
<1>8. CodesInv'
  BY <1>1 DEF IInv, CodesInv, ListsAreDistinct
<1> QED
  BY <1>2, <1>3, <1>4, <1>5, <1>6, <1>7, <1>8 DEF IInv

LEMMA Invariance == Spec => []IInv
<1>1. IInv /\ [Next]_vars => IInv'
  BY NextIInv, StutterIInv
<1> QED
  BY InitIInv, <1>1, PTL DEF Spec

\* The types of the slots, of the conversations, of the pending questions with
\* their dictionaries, and of what was committed.
THEOREM BotsTypeCorrect == Spec => []TypeOK
<1>1. IInv => TypeOK
  BY DEF IInv, TypeInv
<1> QED
  BY <1>1, Invariance, PTL

\* What was asked for once is committed at most once: in the user bot because it
\* leaves the table of conversations before it is awaited, in the other two
\* because no next message of the person comes before the pop.
THEOREM OncePerRequestCorrect == Spec => []OncePerRequest
<1>1. ASSUME IInv PROVE OncePerRequest
  <2>1. TypeInv /\ UserOnceInv /\ StaffInv
    BY <1>1 DEF IInv
  <2> SUFFICES ASSUME NEW i \in DOMAIN done, NEW j \in DOMAIN done, i # j,
                      done[i].bot = done[j].bot, done[i].asked = done[j].asked
               PROVE  \/ done[i].asked \in renewed
                      \/ done[i].bot \in Staff /\ done[i].who \in mixed
    BY DEF OncePerRequest
  <2>2. done[i].bot \in {"user"} \cup Staff
    <3>1. done \in Seq(Entries)
      BY <2>1 DEF TypeInv, TypeOK
    <3>2. done[i] \in Entries
      BY <3>1
    <3> QED
      BY <3>2 DEF Entries
  <2>3. CASE done[i].bot = "user"
    BY <2>1, <2>3 DEF UserOnceInv, UserEntry
  <2>4. CASE done[i].bot \in Staff
    BY <2>1, <2>4 DEF StaffInv
  <2> QED
    BY <2>2, <2>3, <2>4
<1> QED
  BY <1>1, Invariance, PTL

\* No message is two answers of a submission, nor an answer and its beginning;
\* and to a person served one message at a time the answers are in order.
THEOREM AnswersAreItsOwnCorrect == Spec => []AnswersAreItsOwn
<1>1. ASSUME IInv PROVE AnswersAreItsOwn
  <2>1. TypeInv /\ AnswersInv
    BY <1>1 DEF IInv
  <2> SUFFICES ASSUME NEW i \in DOMAIN done, done[i].bot = "user",
                      NEW m \in DOMAIN (<<done[i].asked>> \o done[i].what.given),
                      NEW n \in DOMAIN (<<done[i].asked>> \o done[i].what.given), m < n
               PROVE  LET ids == <<done[i].asked>> \o done[i].what.given IN
                      \/ ids[m] # ids[n] /\ (ids[m] < ids[n] \/ done[i].who \in mixed)
                      \/ {ids[m], ids[n]} \cap renewed # {}
    BY DEF AnswersAreItsOwn
  <2> DEFINE e == done[i]  ids == <<e.asked>> \o e.what.given
  <2>2. EntryOK(e) /\ e \in Entries /\ e.what \in Conversations
    BY <2>1 DEF TypeInv, TypeOK, EntryOK
  <2>3. e.what.given \in Seq(Ids) /\ e.asked \in Nat /\ Ids \subseteq Nat
    BY <2>2 DEF Conversations, Entries, Ids
  <2>4. /\ DOMAIN ids = 1 .. (Len(e.what.given) + 1) /\ ids[1] = e.asked
        /\ \A x \in DOMAIN ids : x # 1 => x - 1 \in DOMAIN e.what.given /\ ids[x] = e.what.given[x - 1]
    BY <2>3
  <2>5. InOrder(e.what, e.who) /\ e.what.asked = e.asked
    BY <2>1 DEF AnswersInv, UserEntry
  <2>6. Follows(ids[m], ids[n], e.who)
    <3>1. n # 1 /\ n - 1 \in DOMAIN e.what.given /\ ids[n] = e.what.given[n - 1]
      BY <2>4
    <3>2. CASE m = 1
      BY <2>4, <2>5, <3>1, <3>2 DEF InOrder
    <3>3. CASE m # 1
      <4>1. m - 1 \in DOMAIN e.what.given /\ ids[m] = e.what.given[m - 1] /\ m - 1 < n - 1
        BY <2>4, <3>3
      <4> QED
        BY <2>5, <3>1, <4>1 DEF InOrder
    <3> QED
      BY <3>2, <3>3
  <2> QED
    BY <2>6 DEF Follows
<1> QED
  BY <1>1, Invariance, PTL

\* An operation is confirmed by a message that came after its button.
THEOREM ConfirmedAfterAskedCorrect == Spec => []ConfirmedAfterAsked
<1>1. IInv => ConfirmedAfterAsked
  BY DEF IInv, StaffInv
<1> QED
  BY <1>1, Invariance, PTL

\* No handler of the list form meets a missing answer.
THEOREM FormsCompleteCorrect == Spec => []FormsComplete
<1>1. IInv => FormsComplete
  BY DEF IInv, FormsInv, FormsComplete, Ready
<1> QED
  BY <1>1, Invariance, PTL

\* The codes of the lists are distinct, and each is the one of its list.
THEOREM ListsAreDistinctCorrect == Spec => []ListsAreDistinct
<1>1. IInv => ListsAreDistinct
  BY DEF IInv, CodesInv
<1> QED
  BY <1>1, Invariance, PTL
=============================================================================
