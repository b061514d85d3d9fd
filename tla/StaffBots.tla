----------------------------- MODULE StaffBots ------------------------------
(***************************************************************************)
(* The conversations of the owner bot (a list is created, an operation is  *)
(* confirmed by its phrase) and of the admin bot (a channel is recruited). *)
(* Unlike the user bot's, their handlers look at the state, await the      *)
(* sender's rights and the transaction, and change the state afterwards.   *)
(***************************************************************************)
EXTENDS Updates

CONSTANTS Families, Thresholds   \* texts that are a kind of list, and numbers

VARIABLES
  pend,      \* the _STATES of both bots: what a person's next message is taken for
  form       \* the dictionary each press of list:create has made

staffVars == <<pend, form>>
Staff == {"owner", "admin"}
StaffTexts == [owner |-> {"list:create", "operate", "home", "menu", "refresh", "CREATE", "phrase"}
                           \cup Families \cup Thresholds,
               admin |-> {"recruit:start", "home", "menu", "lead"}]

Blank == [type |-> Nothing, threshold |-> Nothing, named |-> FALSE, code |-> Nothing]
\* BOOST counts whole thousands: both thresholds have one code there.
ListCode(type, threshold) == <<type, IF type = "BOOST" THEN "1K" ELSE threshold>>
Codes == {done[i].what.code : i \in {j \in DOMAIN done : done[j].bot = "owner" /\ done[j].what # Nothing}}

Pending(u, p) == pend' = [pend EXCEPT ![u.bot][u.who] = p]
Waits(kind, asked) == [kind |-> kind, asked |-> asked]

-----------------------------------------------------------------------------
(* The sender is known: up to the await of the rights, or, for a press,      *)
(* through it to the change of the state.                                    *)

\* Without the rights a press has no effect.
Press(h, b) ==
  /\ handler[h].stage = "resolving" /\ handler[h].update.bot = b
  /\ handler[h].update.text \in Buttons
  /\ Goes(h, Rest)
  /\ Silent /\ UNCHANGED done
OwnerPress(h) ==
  LET u == handler[h].update IN
  /\ Press(h, "owner")
  /\ \/ UNCHANGED staffVars
     \/ u.text = "home" /\ Pending(u, Nothing) /\ UNCHANGED form
     \/ /\ u.text = "list:create" /\ Pending(u, Waits("type", u.id))
        /\ form' = [form EXCEPT ![u.id] = Blank]
     \/ u.text = "operate" /\ Pending(u, Waits("phrase", u.id)) /\ UNCHANGED form
AdminPress(h) ==
  LET u == handler[h].update IN
  /\ Press(h, "admin")
  /\ UNCHANGED form
  /\ \/ UNCHANGED pend
     \/ u.text = "home" /\ Pending(u, Nothing)
     \/ u.text = "recruit:start" /\ Pending(u, Waits("lead", u.id))

\* A message that opens the menu forgets the state; the owner bot's does so a
\* second time, in action(), after the rights are known.
Menu(h) ==
  LET u == handler[h].update IN
  /\ handler[h].stage = "resolving" /\ u.bot \in Staff /\ u.text = "menu"
  /\ Pending(u, Nothing)
  /\ Goes(h, IF u.bot = "owner" THEN Handling("popping", u, Nothing) ELSE Rest)
  /\ Silent /\ UNCHANGED <<form, done>>

\* Any other message is taken for what is pending now, a label of the menu too.
\* The tuple is read here and used after the await; the dictionary in it is
\* shared.  With nothing pending, the label for the dashboard pops the state as
\* well once the rights are known, and the others only show something.
Message(h) ==
  LET u == handler[h].update
      p == pend[u.bot][u.who] IN
  /\ handler[h].stage = "resolving" /\ u.bot \in Staff
  /\ u.text \notin Buttons \cup {"menu"}
  /\ Goes(h, IF p # Nothing THEN Handling("working", u, p)
             ELSE IF u.text = "refresh" THEN Handling("popping", u, Nothing) ELSE Rest)
  /\ Silent /\ UNCHANGED <<staffVars, done>>

-----------------------------------------------------------------------------
(* The rights are known.                                                     *)

Working(h, kind) == handler[h].stage = "working" /\ handler[h].held.kind = kind

\* Rights denied: the conversation is over.
Denied(h) ==
  /\ handler[h].stage = "working"
  /\ Pending(handler[h].update, Nothing) /\ Goes(h, Rest)
  /\ Silent /\ UNCHANGED <<form, done>>

\* A wrong answer, a ValueError, or an exception nobody catches: the transaction
\* is rolled back and the state stays as it is.
Refused(h) ==
  /\ handler[h].stage = "working"
  /\ Goes(h, Rest)
  /\ Silent /\ UNCHANGED <<staffVars, done>>

\* An answer is written into the dictionary, and the next question is pending.
Fills(h, f, next) ==
  LET k == handler[h] IN
  /\ form' = [form EXCEPT ![k.held.asked] = f]
  /\ Pending(k.update, Waits(next, k.held.asked))
  /\ Goes(h, Rest)
  /\ Silent /\ UNCHANGED done
FormOf(h) == form[handler[h].held.asked]
Text(h) == handler[h].update.text

ListType(h) ==
  /\ Working(h, "type") /\ Text(h) \in Families
  /\ Fills(h, [FormOf(h) EXCEPT !.type = Text(h)], "threshold")
ListThreshold(h) ==
  /\ Working(h, "threshold") /\ Text(h) \in Thresholds
  /\ Fills(h, [FormOf(h) EXCEPT !.threshold = Text(h)], "name")
ListName(h) ==
  /\ Working(h, "name")
  /\ Fills(h, [FormOf(h) EXCEPT !.named = TRUE], "capacity")

\* The code is computed, then looked for in the database, then written.
AsksAtOnce(h) == Pending(handler[h].update, Waits("create", handler[h].held.asked))
AsksLater(h) == UNCHANGED pend
ListCapacity(h) ==
  /\ Working(h, "capacity") /\ Text(h) \in Thresholds
  /\ Goes(h, Handling("checking", handler[h].update,
                      [asked |-> handler[h].held.asked,
                       code |-> ListCode(FormOf(h).type, FormOf(h).threshold)]))
  /\ AsksLater(h)
  /\ Silent /\ UNCHANGED <<form, done>>
CapacityChecked(h) ==
  /\ handler[h].stage = "checking"
  /\ IF handler[h].held.code \in Codes
     THEN Goes(h, Rest) /\ Silent /\ UNCHANGED <<staffVars, done>>
     ELSE Fills(h, [FormOf(h) EXCEPT !.code = handler[h].held.code], "create")

\* CREATE, the phrase, a lead: one transaction.  The state is popped after it.
Commits(h, what) ==
  LET k == handler[h] IN
  /\ Records(k.update, k.held.asked, what)
  /\ Goes(h, Handling("popping", k.update, Nothing))
  /\ Silent /\ UNCHANGED staffVars

\* lists.code is unique: the insertion of a code that exists raises.
AnyCode(code) == TRUE
NewCode(code) == code \notin Codes
CreateList(h) ==
  /\ Working(h, "create") /\ Text(h) = "CREATE"
  /\ NewCode(FormOf(h).code)
  /\ Commits(h, FormOf(h))
CarryOut(h) == Working(h, "phrase") /\ Text(h) = "phrase" /\ Commits(h, Nothing)
Recruit(h)  == Working(h, "lead") /\ Text(h) = "lead" /\ Commits(h, Nothing)

\* Another owner's conversation, which is over with its commit; one is enough.
AnotherOwner == "another owner"
OthersList(type, threshold) ==
  /\ \A i \in DOMAIN done : done[i].who # AnotherOwner
  /\ ListCode(type, threshold) \notin Codes
  /\ Records([bot |-> "owner", who |-> AnotherOwner, id |-> 0], 0,
             [type |-> type, threshold |-> threshold, named |-> TRUE, code |-> ListCode(type, threshold)])
  /\ UNCHANGED handler /\ Silent /\ UNCHANGED staffVars

\* Whatever is pending by now is popped, though not by a label or a menu message
\* whose sender turns out to have no rights.
PopsNothing(u) == UNCHANGED pend
Pops(u) == Pending(u, Nothing)
Popping(h) ==
  LET k == handler[h] IN
  /\ k.stage = "popping"
  /\ \/ Pops(k.update)
     \/ k.update.text \in {"menu", "refresh"} /\ UNCHANGED pend
  /\ Goes(h, Rest)
  /\ Silent /\ UNCHANGED <<form, done>>
=============================================================================
