------------------------------ MODULE Accounts ------------------------------
(***************************************************************************)
(* The live clients of the lists' accounts (ListAccountRuntime and its     *)
(* ListAccountResolver): a registry from account to connected client, and  *)
(* the two coroutines that change it, connect() and disconnect().          *)
(*                                                                         *)
(* asyncio runs a coroutine up to its next await without interruption: a   *)
(* call is a step up to the await of close() or start(), and a step from   *)
(* there on.  Between the two any other coroutine may run, and a call on   *)
(* the same account too.  Who calls, and when, is Runtime's.               *)
(***************************************************************************)
EXTENDS Naturals, FiniteSets

CONSTANTS
  Account,         \* ids of list_accounts rows
  Sessions,        \* session files, by their resolved path
  NoSession,
  Instances,       \* numbers the Messenger objects of an account; one is used
                   \* again when nothing holds it
  NoClient, NoAccount,
  Callers,         \* coroutines that may be inside connect() or disconnect()
  MaxLeaks         \* bound of the exploration: clients that failed calls leave connected

ASSUME AccountsAssumption ==
  /\ NoSession \notin Sessions /\ NoAccount \notin Account /\ NoClient \notin Instances
  /\ MaxLeaks \in Nat

VARIABLES
  files,      \* session files that exist
  registry,   \* resolver.clients: the number of an account's client
  refs,       \* _session_refs
  up,         \* the session each client is connected on, NoSession if it is not
  call,       \* the connect() or disconnect() each caller is in
  raced,      \* history: accounts two calls were in at once
  stranded    \* history: clients a call that raised or was cancelled has left connected

accountVars == <<files, registry, refs, up, call, raced, stranded>>

Idle == [kind |-> "idle", stage |-> "idle", acct |-> NoAccount,
         session |-> NoSession, client |-> NoClient]
Calls == [kind : {"connect", "disconnect"}, stage : {"closing", "starting"},
          acct : Account, session : Sessions \cup {NoSession}, client : Instances]

InCall(a, n) == \E p \in Callers : call[p].acct = a /\ call[p].client = n
Unused(a) == {n \in Instances : up[a][n] = NoSession /\ ~InCall(a, n) /\ registry[a] # n}

-----------------------------------------------------------------------------
Starting(a, s) ==
  [kind |-> "connect", stage |-> "starting", acct |-> a, session |-> s,
   client |-> CHOOSE n \in Unused(a) : TRUE]
ClosingNothing(kind, a, s) ==
  [kind |-> kind, stage |-> "closing", acct |-> a, session |-> s, client |-> NoClient]
Closing(kind, a, s) ==
  [kind |-> kind, stage |-> "closing", acct |-> a, session |-> s, client |-> registry[a]]

\* connect() up to its first await.  It raises when the session is missing,
\* and returns the registered client when that has the session.
ConnectOverOld(a, s) ==
  IF s \notin files \/ (registry[a] # NoClient /\ refs[a] = s) THEN Idle ELSE Starting(a, s)
ConnectAnew(a, s) ==
  IF s \notin files THEN Idle
  ELSE IF registry[a] # NoClient THEN Closing("connect", a, s)
  ELSE Starting(a, s)
ConnectPrefix(a, s) ==
  IF s \notin files \/ (registry[a] # NoClient /\ refs[a] = s) THEN Idle
  ELSE IF registry[a] # NoClient THEN Closing("connect", a, s)
  ELSE Starting(a, s)

Overlaps(p, c) == c # Idle /\ \E q \in Callers \ {p} : call[q].acct = c.acct
Enter(p, c) ==
  /\ call[p] = Idle
  /\ call' = [call EXCEPT ![p] = c]
  /\ raced' = IF Overlaps(p, c) THEN raced \cup {c.acct} ELSE raced

Connect(p, a, s) ==
  /\ Unused(a) # {}
  /\ Enter(p, ConnectPrefix(a, s))
  /\ UNCHANGED <<files, registry, refs, up, stranded>>

\* disconnect() of an account with no client only forgets its session.
Disconnect(p, a) ==
  /\ Enter(p, IF registry[a] = NoClient THEN Idle ELSE Closing("disconnect", a, NoSession))
  /\ refs' = [refs EXCEPT ![a] = IF registry[a] = NoClient THEN NoSession ELSE @]
  /\ UNCHANGED <<files, registry, up, stranded>>

\* start() returned: bind, over whatever has been bound meanwhile.
Started(p) ==
  LET k == call[p] IN
  /\ k.stage = "starting"
  /\ registry' = [registry EXCEPT ![k.acct] = k.client]
  /\ refs' = [refs EXCEPT ![k.acct] = k.session]
  /\ up' = [up EXCEPT ![k.acct][k.client] = k.session]
  /\ call' = [call EXCEPT ![p] = Idle]
  /\ UNCHANGED <<files, raced, stranded>>

\* start() raised, or was cancelled: nothing is bound and nobody closes the
\* client, which may have connected by then.
StartFails(p) ==
  LET k == call[p] IN
  /\ k.stage = "starting"
  /\ call' = [call EXCEPT ![p] = Idle]
  /\ \/ /\ Cardinality(stranded) < MaxLeaks
        /\ up' = [up EXCEPT ![k.acct][k.client] = k.session]
        /\ stranded' = stranded \cup {<<k.acct, k.client>>}
     \/ UNCHANGED <<up, stranded>>
  /\ UNCHANGED <<files, registry, refs, raced>>

\* The finally of disconnect(): whatever is registered by now is forgotten.
UnbindOnly(a) == /\ registry' = [registry EXCEPT ![a] = NoClient]
                 /\ UNCHANGED refs
Unbind(a) == /\ registry' = [registry EXCEPT ![a] = NoClient]
             /\ refs' = [refs EXCEPT ![a] = NoSession]

\* close() returned: connect() goes on to start a client for its session.
Closed(p) ==
  LET k == call[p] IN
  /\ k.stage = "closing"
  /\ k.kind = "connect" => Unused(k.acct) # {}
  /\ up' = [up EXCEPT ![k.acct][k.client] = NoSession]
  /\ Unbind(k.acct)
  /\ call' = [call EXCEPT ![p] = IF k.kind = "connect" THEN Starting(k.acct, k.session) ELSE Idle]
  /\ stranded' = stranded \ {<<k.acct, k.client>>}
  /\ UNCHANGED <<files, raced>>

\* close() raised, or was cancelled: the client is unbound all the same, and
\* may be left connected; connect() goes no further.
CloseFails(p) ==
  LET k == call[p] IN
  /\ k.stage = "closing"
  /\ Unbind(k.acct)
  /\ call' = [call EXCEPT ![p] = Idle]
  /\ \/ /\ up' = [up EXCEPT ![k.acct][k.client] = NoSession]
        /\ stranded' = stranded \ {<<k.acct, k.client>>}
     \/ /\ up[k.acct][k.client] # NoSession /\ Cardinality(stranded) < MaxLeaks
        /\ stranded' = stranded \cup {<<k.acct, k.client>>}
        /\ UNCHANGED up
  /\ UNCHANGED <<files, raced>>

\* A cancellation is raised at the await the call is in.
CallCancelled(p) == CloseFails(p) \/ StartFails(p)
-----------------------------------------------------------------------------
AccountsInit ==
  /\ files \in SUBSET Sessions
  /\ registry = [a \in Account |-> NoClient]
  /\ refs = [a \in Account |-> NoSession]
  /\ up = [a \in Account |-> [n \in Instances |-> NoSession]]
  /\ call = [p \in Callers |-> Idle]
  /\ raced = {} /\ stranded = {}

AccountsTypeOK ==
  /\ files \subseteq Sessions
  /\ registry \in [Account -> Instances \cup {NoClient}]
  /\ refs \in [Account -> Sessions \cup {NoSession}]
  /\ up \in [Account -> [Instances -> Sessions \cup {NoSession}]]
  /\ call \in [Callers -> Calls \cup {Idle}]
  /\ raced \subseteq Account
  /\ stranded \subseteq Account \X Instances

\* What the registry says of a client is so: it is connected
\* on the session that is remembered; and an account is remembered to have
\* a session exactly when it has a client.  connect() decides from the
\* remembered session alone whether the registered client will do
\* (account_runtime.py:43), and every call, overlapping or cancelled ones
\* included, must leave the two dictionaries agreeing.
RegistryIsTrue ==
  \A a \in Account :
    IF registry[a] = NoClient THEN refs[a] = NoSession
    ELSE refs[a] # NoSession /\ up[a][registry[a]] = refs[a]

\* A connect() or disconnect() that returns leaves no client behind: one that is
\* replaced, dropped or shut down is closed before it is forgotten ("the old live
\* client is closed", README.md:34).  A client stays connected with nobody to close
\* it only after a call that raised or was cancelled at its await (a start() that
\* raises after it has connected is closed by nobody, account_runtime.py:48-50;
\* nor is a client whose close() raised, lines 72-86), or where two calls were in the
\* account at once (connect() looks at the registry before it awaits start()).
ClientsAccountedFor ==
  \A a \in Account, n \in Instances :
    up[a][n] # NoSession => \/ registry[a] = n \/ InCall(a, n)
                            \/ <<a, n>> \in stranded \/ a \in raced
=============================================================================
