------------------------------- MODULE MCBots -------------------------------
(* Values of the constants of Bots for TLC. *)
EXTENDS Bots, TLC

CONSTANTS
  MaxTwice,        \* updates sent where one is delivered twice
  MaxOverlaps      \* updates taken up while another is in handling
VARIABLES
  only,    \* the bot that is written to
  fault,   \* handlers overlap, or one update is delivered twice
  overlaps

\* The bots share nothing but the table of seen updates, where a message of one
\* can only cause a message of another to be dropped, which Updates has without
\* it: one bot at a time is enough.  Overlapping handlers and a second delivery
\* are explored one at a time; the copy may overlap what it is a copy of.
MCSlots == Permutations(Slots)
MCInit == /\ Init
          /\ only \in {"user"} \cup Staff
          /\ fault \in {"overlap", "twice"}
          /\ overlaps = 0
MCSends == /\ Sends(only)
           /\ fault # "twice" => again' = Nothing
           /\ fault # "overlap" => sent < MaxTwice
           /\ overlaps' = overlaps + (IF \A h \in Slots : handler[h] = Rest THEN 0 ELSE 1)
           /\ overlaps' <= IF fault = "overlap" THEN MaxOverlaps ELSE 0
           /\ UNCHANGED fault
\* The other owner's commit may as well come just before the codes are read.
CodesAreRead == \E h \in Slots : handler[h].stage = "checking" \/ Working(h, "create")
MCNext == /\ UNCHANGED only
          /\ \/ MCSends
             \/ Shared /\ fault' = (IF again' = Nothing THEN "over" ELSE fault) /\ UNCHANGED overlaps
             \/ /\ fault = "overlap" /\ CodesAreRead
                /\ Others /\ UNCHANGED <<fault, overlaps>>
             \/ again # Nothing /\ ProcessRestart /\ UNCHANGED <<fault, overlaps>>
             \/ \E h \in Slots : (UserStep(h) \/ StaffStep(h)) /\ UNCHANGED <<fault, overlaps>>
MCSpec == MCInit /\ [][MCNext]_<<vars, only, fault, overlaps>>

\* Only the entry of the update that is going to be delivered again matters.
MCView == <<handler, again, again # Nothing /\ again.id \in seen, sent, restarts, mixed,
            renewed, done, conv, staffVars, only, fault, overlaps>>
=============================================================================
