----------------------------- MODULE MCRuntime ------------------------------
(* Values of the constants of Runtime for TLC. *)
EXTENDS Runtime

CONSTANTS a1, a2, s1, s2
MCInstances == 1 .. 5   \* an account never needs a sixth
MCCallers == Routes \cup {Sync, Main}

\* One initial state of each orbit is enough: the accounts can be exchanged, and,
\* since every session file exists and no account looks at another's session, so
\* can the sessions of one account.  At the start a row that is not active has no
\* session; an active row with no session is refused as one whose file is missing.
Place(a) == CASE ~table[a].active -> 0 [] table[a].session = NoSession -> 1 [] OTHER -> 2
Orbit == /\ \A a \in Account : /\ table[a].active \/ table[a].session = NoSession
                               /\ table[a].session # s2
         /\ files = Sessions
         /\ Place(a1) >= Place(a2)
MCInit == Init /\ Orbit
MCSpec == MCInit /\ [][Next]_vars /\ Fairness
=============================================================================
