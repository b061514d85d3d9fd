-------------------------- MODULE TargetLifecycle --------------------------
(***************************************************************************)
(* What the network promises about a campaign target, with no word about   *)
(* ticks, transactions or accounts: the abstract specification that the    *)
(* publication worker implements.                                          *)
(*                                                                         *)
(* A target is planned; its message is posted only while it is planned; it *)
(* is then published, if a message was posted, or given up; a published    *)
(* target is eventually found retained or deleted too early.  Nothing ever *)
(* goes back.  Several targets may reach their outcome at once, when the   *)
(* transaction that worked on them commits.                                *)
(***************************************************************************)
EXTENDS Naturals

CONSTANT Targets
VARIABLES status,   \* the outcome of each target that everybody can see
          copies    \* messages posted for each target

Status == {"planned", "published", "retained", "failed"}

Init ==
  /\ status = [t \in Targets |-> "planned"]
  /\ copies = [t \in Targets |-> 0]

Post(t) ==
  /\ status[t] = "planned"
  /\ copies' = [copies EXCEPT ![t] = @ + 1]
  /\ UNCHANGED status

\* The outcomes a target may have next.
Outcomes(t) ==
  CASE status[t] = "planned" /\ copies[t] > 0 -> Status
    [] status[t] = "planned" /\ copies[t] = 0 -> {"planned", "failed"}
    [] status[t] = "published" -> {"published", "retained", "failed"}
    [] OTHER -> {status[t]}

Settle ==
  /\ status' \in [Targets -> Status]
  /\ \A t \in Targets : status'[t] \in Outcomes(t)
  /\ UNCHANGED copies

Next == Settle \/ \E t \in Targets : Post(t)

Spec == Init /\ [][Next]_<<status, copies>>
=============================================================================
