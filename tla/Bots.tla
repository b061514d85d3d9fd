-------------------------------- MODULE Bots --------------------------------
(***************************************************************************)
(* The three bots in one process: they share the table of seen updates,    *)
(* the event loop and the restart.                                         *)
(***************************************************************************)
EXTENDS UserBot, StaffBots

vars == <<updateVars, conv, staffVars>>

Init ==
  /\ UpdatesInit
  /\ conv = [p \in Person |-> Nothing]
  /\ pend = [b \in Staff |-> [p \in Person |-> Nothing]]
  /\ form = [n \in Ids |-> Nothing]

UserStep(h) == (UserResolved(h) \/ UserFinishes(h)) /\ UNCHANGED staffVars
StaffStep(h) ==
  /\ \/ OwnerPress(h) \/ AdminPress(h) \/ Menu(h) \/ Message(h) \/ Denied(h) \/ Refused(h)
     \/ ListType(h) \/ ListThreshold(h) \/ ListName(h) \/ ListCapacity(h) \/ CapacityChecked(h)
     \/ CreateList(h) \/ CarryOut(h) \/ Recruit(h) \/ Popping(h)
  /\ UNCHANGED conv
Sends(b) ==
  /\ \E h \in Slots, p \in Person, text \in IF b = "user" THEN UserTexts \cup {"home"} ELSE StaffTexts[b] :
       Receives(h, b, p, text)
  /\ UNCHANGED <<conv, staffVars>>
Shared == (Lapse \/ \E h \in Slots : ReceivesAgain(h)) /\ UNCHANGED <<conv, staffVars>>
Others == (\E f \in Families, t \in Thresholds : OthersList(f, t)) /\ UNCHANGED conv
ProcessRestart ==
  /\ Restart
  /\ conv' = [p \in Person |-> Nothing]
  /\ pend' = [b \in Staff |-> [p \in Person |-> Nothing]]
  /\ form' = [n \in Ids |-> Nothing]

Next ==
  \/ \E b \in {"user"} \cup Staff : Sends(b)
  \/ Shared \/ Others \/ ProcessRestart
  \/ \E h \in Slots : UserStep(h) \/ StaffStep(h)

Spec == Init /\ [][Next]_vars
-----------------------------------------------------------------------------
Updates == [id : Ids, bot : {"user"} \cup Staff, who : Person,
            text : UserTexts \cup UNION {StaffTexts[b] : b \in Staff}]
Conversations == [topic : Topics, asked : Ids, given : Seq(Ids)]
Waiting == [kind : {"type", "threshold", "name", "capacity", "create", "phrase", "lead"}, asked : Ids]
ListCodes == {ListCode(type, threshold) : type \in Families, threshold \in Thresholds}
Checking == [asked : Ids, code : ListCodes]
Hands == [stage : {"resolving", "finishing", "working", "checking", "popping"}, update : Updates,
          held : {Nothing} \cup Conversations \cup Waiting \cup Checking]
Forms == [type : Families \cup {Nothing}, threshold : Thresholds \cup {Nothing},
          named : BOOLEAN, code : ListCodes \cup {Nothing}]
Entries == [bot : {"user"} \cup Staff, who : Person \cup {AnotherOwner}, asked : Nat, by : Nat,
            what : {Nothing} \cup Conversations \cup Forms]

\* None is no update, conversation, question, form or text; and the other owner
\* is somebody else.
ASSUME BotsAssumption ==
  /\ Nothing \notin Updates \cup Conversations \cup Waiting \cup Forms
  /\ Nothing \notin Families \cup Thresholds /\ Nothing \notin ListCodes
  /\ AnotherOwner \notin Person

TypeOK ==
  /\ handler \in [Slots -> Hands \cup {Rest}]
  /\ again \in Updates \cup {Nothing} /\ seen \subseteq Ids
  /\ sent \in 0 .. MaxSent /\ restarts \in 0 .. MaxRestarts
  /\ conv \in [Person -> Conversations \cup {Nothing}]
  /\ \A p \in Person : conv[p] # Nothing => Len(conv[p].given) < Len(Questions[conv[p].topic])
  /\ pend \in [Staff -> [Person -> Waiting \cup {Nothing}]]
  /\ form \in [Ids -> Forms \cup {Nothing}]
  /\ mixed \subseteq Person /\ renewed \subseteq Ids
  /\ done \in Seq(Entries)

\* What a person asked for once (began a conversation, pressed a button) is
\* committed at most once.  In the user bot this holds however its handlers
\* overlap, since the state is cleared before the submission is awaited
\* (user_bot.py:155, 197, 211); the owner and admin bots pop it after the commit
\* (owner_bot.py:303, 314, admin_bot.py:195), and promise it only to a person
\* whose messages were handled one at a time.
OncePerRequest ==
  \A i, j \in DOMAIN done :
    i # j /\ done[i].bot = done[j].bot /\ done[i].asked = done[j].asked
      => \/ done[i].asked \in renewed
         \/ done[i].bot \in Staff /\ done[i].who \in mixed

\* The answers of a submission are different messages, none of which is the one
\* that began the conversation, also when an update is delivered twice: one
\* message never answers two questions.  To a person whose messages were handled
\* one at a time, they are in the order in which they were sent.
AnswersAreItsOwn ==
  \A i \in DOMAIN done : done[i].bot = "user" =>
    LET ids == <<done[i].asked>> \o done[i].what.given IN
    \A m, n \in DOMAIN ids : m < n =>
      \/ ids[m] # ids[n] /\ (ids[m] < ids[n] \/ done[i].who \in mixed)
      \/ {ids[m], ids[n]} \cap renewed # {}

\* An operation is carried out, a lead recorded and a list created by a message
\* that was sent after the button was pressed.  The phrases are shared by the
\* operations (owner_bot.py:238, 245, 250), so that the message which confirmed
\* one operation would confirm the next if it were handled twice.
ConfirmedAfterAsked ==
  \A i \in DOMAIN done :
    done[i].bot \in Staff /\ done[i].who \in Person \ mixed
      => done[i].asked < done[i].by \/ {done[i].asked, done[i].by} \cap renewed # {}

\* The question that is pending, or that a handler has read and will act on, is
\* asked of a dictionary with the answers to all the questions before it: no
\* handler meets a missing key, however the handlers of one person overlap.
Needs(kind, f) ==
  /\ kind \in {"threshold", "name", "capacity", "create"} => f.type # Nothing
  /\ kind \in {"name", "capacity", "create"} => f.threshold # Nothing
  /\ kind \in {"capacity", "create"} => f.named
  /\ kind = "create" => f.code # Nothing
FormsComplete ==
  /\ \A p \in Person : LET w == pend["owner"][p] IN
       w # Nothing /\ w.kind # "phrase" => Needs(w.kind, form[w.asked])
  /\ \A h \in Slots : LET k == handler[h] IN
       k.stage = "working" /\ k.held.kind \notin {"phrase", "lead"} => Needs(k.held.kind, form[k.held.asked])

\* No two lists have one code, although the look for the code and the insertion
\* are two transactions (owner_bot.py:298, 303); and the code is the one of the
\* list's family and threshold, for a person whose messages were handled one at
\* a time.
ListsAreDistinct ==
  \A i, j \in DOMAIN done :
    (done[i].bot = "owner" /\ done[i].what # Nothing) =>
      /\ i # j /\ done[j].bot = "owner" /\ done[j].what # Nothing => done[i].what.code # done[j].what.code
      /\ done[i].who \notin mixed => done[i].what.code = ListCode(done[i].what.type, done[i].what.threshold)
=============================================================================
