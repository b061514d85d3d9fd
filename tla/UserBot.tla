------------------------------ MODULE UserBot -------------------------------
(***************************************************************************)
(* The conversations of the user bot: a label of the menu begins one, each *)
(* message answers its next question, and the last answer submits it.      *)
(* A message is a text of one of the kinds the questions tell apart.       *)
(***************************************************************************)
EXTENDS Updates

VARIABLE conv     \* _STATES: who is in which conversation, with the answers so far

\* The questions of each conversation, and the texts each of them accepts.
\* "1" is a word, a number and a yes; a text that is none of these, such as a
\* label, is still a list code, a title or a message.
Questions ==
  [register |-> <<"channel", "any", "yes">>,
   ad       |-> <<"any", "any", "source", "count", "hours">>,
   status   |-> <<"any">>,
   support  |-> <<"any">>]
Topics == DOMAIN Questions
UserTexts == Topics \cup {"1", "5000", "c0:1", "leave"}
Accepts(question, text) ==
  CASE question = "channel" -> text \in {"1", "5000"}
    [] question = "yes"     -> text = "1"
    [] question = "source"  -> text = "c0:1"
    [] question = "count"   -> text \in {"1", "5000"}
    [] question = "hours"   -> text = "1"
    [] OTHER -> TRUE

Begins(u) == [topic |-> u.text, asked |-> u.id, given |-> <<>>]
Question(c) == Questions[c.topic][Len(c.given) + 1]
WithAnswer(c, u) == [c EXCEPT !.given = Append(@, u.id)]
IsLast(c) == Len(c.given) + 1 = Len(Questions[c.topic])

\* What the handler leaves of the conversation: it is over before the handler
\* awaits the submission.
StaysUntilSubmitted(c, u) == c
NeverOver(c, u) == WithAnswer(c, u)
AfterAnswer(c, u) == IF IsLast(c) THEN Nothing ELSE WithAnswer(c, u)

\* From the sender's name to the next await: nothing comes between the look at
\* the state and its change.
UserResolved(h) ==
  LET u == handler[h].update
      c == conv[u.who]
      Becomes(next) == conv' = [conv EXCEPT ![u.who] = next] IN
  /\ handler[h].stage = "resolving" /\ u.bot = "user"
  /\ \/ /\ u.text \in {"leave", "home"}
        /\ Becomes(Nothing) /\ Goes(h, Rest)
     \/ /\ u.text \notin {"leave", "home"} /\ c = Nothing
        /\ IF u.text \in Topics THEN Becomes(Begins(u)) ELSE UNCHANGED conv
        /\ Goes(h, Rest)
     \/ /\ u.text \notin {"leave", "home"} /\ c # Nothing
        /\ IF ~Accepts(Question(c), u.text) THEN UNCHANGED conv /\ Goes(h, Rest)
           ELSE /\ Becomes(AfterAnswer(c, u))
                /\ Goes(h, IF IsLast(c) /\ c.topic # "status"
                           THEN Handling("finishing", u, WithAnswer(c, u)) ELSE Rest)
  /\ Silent /\ UNCHANGED done

\* The transaction of _finish_register, _finish_ad or _finish_support commits,
\* or it is refused or raises.
UserFinishes(h) ==
  LET k == handler[h] IN
  /\ k.stage = "finishing"
  /\ Goes(h, Rest)
  /\ Records(k.update, k.held.asked, k.held) \/ UNCHANGED done
  /\ Silent /\ UNCHANGED conv
=============================================================================
