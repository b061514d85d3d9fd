---------------------------- MODULE RuntimeProofs -----------------------------
(***************************************************************************)
(* Proofs about Accounts and Runtime: their types, what the registry says   *)
(* of the live clients, that no client is left connected unaccounted for,   *)
(* that a shutdown ends clean and that the synchronisation spares a client  *)
(* that serves its account, for any number of accounts, sessions, handlers, *)
(* bots and updates.                                                        *)
(*                                                                         *)
(* None of these is inductive.  They follow from what a coroutine that is   *)
(* inside connect() or disconnect() may count on (CallOK) as long as no     *)
(* other one is in the same account (NotAlone), from what main() has waited *)
(* for in each phase (TasksOK, ListedOK), and from what is still true of    *)
(* the copies a round works from (CopiesOK).                                *)
(***************************************************************************)
EXTENDS Runtime, TLAPS

-----------------------------------------------------------------------------
(* The invariant of the registry.                                           *)

\* A client that is being started is new: it is not registered, and not
\* connected.  The registry has not changed under a call unless it has raced.
CallOK(k) ==
  /\ k.stage = "starting" =>
       /\ k.kind = "connect"
       /\ registry[k.acct] # k.client /\ up[k.acct][k.client] = NoSession
       /\ registry[k.acct] = NoClient \/ k.acct \in raced
  /\ k.stage = "closing" =>
       registry[k.acct] \in {k.client, NoClient} \/ k.acct \in raced
  /\ k.kind = "connect" => k.session \in Sessions

\* Two calls in the same account have raced; nobody else has the client that one
\* of them is starting.
NotAlone ==
  \A p, q \in Callers :
    p # q /\ call[p] # Idle /\ call[p].acct = call[q].acct =>
      /\ call[p].acct \in raced
      /\ call[p].stage = "starting" => call[q].client # call[p].client

AInv ==
  /\ AccountsTypeOK
  /\ \A p \in Callers : CallOK(call[p])
  /\ NotAlone
  /\ RegistryIsTrue /\ ClientsAccountedFor

-----------------------------------------------------------------------------
(* The invariant of the process.                                            *)

AllStarted == \A b \in Bots : bot[b] # "off"

Phases == {"boot", "run", "interrupted", "closing", "cancelling", "disconnecting", "ended"}
RoundType == [stage : {"load", "loaded", "round", "sleep", "done"}, drop : SUBSET Account,
              visit : SUBSET Account, rows : [Account -> Sessions \cup {NoSession}]]

\* The tasks are created when the first synchronisation is over, all at once;
\* when there are none after that, it was interrupted or it failed.
TasksOK ==
  /\ NoTasks \/ AllStarted
  /\ phase = "boot" => NoTasks
  /\ phase \in {"run", "interrupted"} => AllStarted
  /\ NoTasks => asked = {} /\ worker = "off" /\ (phase # "boot" => sync.stage = "done")
  /\ call[Sync] # Idle => sync.stage = "round"

\* What is true from the moment the clients were listed: no task is left that
\* could register one, no handler has begun since, and every registered client
\* is one still to come, or being closed, or of an account that was pending.
ListedOK ==
  /\ call[Main] # Idle => /\ phase = "disconnecting"
                          /\ call[Main].kind = "disconnect" /\ call[Main].stage = "closing"
  /\ phase \in {"disconnecting", "ended"} =>
       /\ AllGathered /\ sync.stage = "done"
       /\ \A r \in Routes : call[r] # Idle => call[r].acct \in pending
       /\ \A a \in Account :
            registry[a] # NoClient => a \in todo \cup pending \/ call[Main].acct = a
  /\ phase = "ended" => todo = {}

\* A round works from copies of the rows, from the moment they arrive: they are
\* still what the table says of an account that was not edited.
Copying == sync.stage \in {"loaded", "round"}
CopiesOK ==
  Copying =>
    \A a \in Account \ edited :
      /\ a \in sync.drop => ~table[a].active
      /\ sync.stage = "loaded" /\ a \notin sync.visit => ~table[a].active
      /\ a \in sync.visit => table[a].active /\ sync.rows[a] = table[a].session
      /\ call[Sync].stage = "closing" /\ call[Sync].acct = a /\ a \notin raced =>
           IF call[Sync].kind = "disconnect" THEN ~table[a].active
           ELSE table[a].session = call[Sync].session /\ refs[a] # call[Sync].session

PInv == TypeOK /\ sync \in RoundType /\ TasksOK /\ ListedOK /\ CopiesOK

-----------------------------------------------------------------------------
(* The registry: every step of a call keeps AInv.                           *)

\* A coroutine that is in no call, and one that is in one.
LEMMA CallTypes ==
  ASSUME AInv
  PROVE  /\ \A p \in Callers : call[p] = Idle \/ call[p] \in Calls
         /\ \A k \in Calls : /\ k # Idle /\ k.acct \in Account /\ k.client \in Instances
                             /\ k.client # NoClient /\ k.acct # NoAccount
                             /\ k.stage \in {"closing", "starting"}
                             /\ k.kind \in {"connect", "disconnect"}
         /\ Idle.acct = NoAccount /\ Idle.client = NoClient /\ Idle.stage = "idle"
         /\ Idle.kind = "idle" /\ NoAccount \notin Account /\ NoClient \notin Instances
         /\ NoSession \notin Sessions
<1>1. call \in [Callers -> Calls \cup {Idle}]
  BY DEF AInv, AccountsTypeOK
<1> QED
  BY <1>1, AccountsAssumption DEF Calls, Idle

\* Before the first call there is nothing in the registry.
LEMMA InitAInv == AccountsInit => AInv
<1> SUFFICES ASSUME AccountsInit PROVE AInv
  OBVIOUS
<1>1. AccountsTypeOK
  BY DEF AccountsInit, AccountsTypeOK
<1>2. (\A p \in Callers : CallOK(call[p])) /\ NotAlone
  BY DEF AccountsInit, CallOK, NotAlone, Idle
<1>3. RegistryIsTrue /\ ClientsAccountedFor
  BY DEF AccountsInit, RegistryIsTrue, ClientsAccountedFor
<1> QED
  BY <1>1, <1>2, <1>3 DEF AInv

\* connect() or disconnect() up to the first await: the call takes hold of the
\* registered client, or of one that nobody has.
LEMMA EnterAInv ==
  ASSUME AInv, NEW p \in Callers, NEW c, Enter(p, c),
         UNCHANGED <<files, registry, refs, up, stranded>>,
         c # Idle => /\ c \in Calls /\ (c.kind = "connect" => c.session \in Sessions)
                     /\ c.stage = "starting" => /\ c.kind = "connect" /\ c.client \in Unused(c.acct)
                                                /\ registry[c.acct] = NoClient
                     /\ c.stage = "closing" => c.client = registry[c.acct]
  PROVE  AInv'
<1>0. call[p] = Idle /\ call' = [call EXCEPT ![p] = c]
  BY DEF Enter
<1>1. \A q \in Callers : call'[q] = IF q = p THEN c ELSE call[q]
  BY <1>0 DEF AInv, AccountsTypeOK
<1>2. /\ raced \subseteq raced' /\ raced' \subseteq Account
      /\ \A q \in Callers \ {p} : c # Idle /\ call[q].acct = c.acct => c.acct \in raced'
  BY CallTypes DEF Enter, Overlaps, AInv, AccountsTypeOK
<1>3. AccountsTypeOK'
  BY <1>0, <1>2 DEF AInv, AccountsTypeOK
<1>4. ASSUME NEW q \in Callers PROVE CallOK(call[q])'
  <2>1. CASE q # p
    <3>1. CallOK(call[q]) /\ call'[q] = call[q]
      BY <1>1, <2>1 DEF AInv
    <3> QED
      BY <1>2, <3>1 DEF CallOK
  <2>2. CASE q = p /\ c = Idle
    BY <1>1, <2>2 DEF CallOK, Idle
  <2>3. CASE q = p /\ c # Idle
    <3>1. c.stage = "starting" => registry[c.acct] # c.client /\ up[c.acct][c.client] = NoSession
      BY <2>3 DEF Unused
    <3>2. call'[q] = c
      BY <1>1, <2>3
    <3> QED
      BY <2>3, <3>1, <3>2 DEF CallOK
  <2> QED
    BY <2>1, <2>2, <2>3
<1>5. NotAlone'
  <2> SUFFICES ASSUME NEW q \in Callers, NEW r \in Callers, q # r,
                      call'[q] # Idle, call'[q].acct = call'[r].acct
               PROVE  /\ call'[q].acct \in raced'
                      /\ call'[q].stage = "starting" => call'[r].client # call'[q].client
    BY DEF NotAlone, Idle
  <2>1. CASE q # p /\ r # p
    BY <1>1, <1>2, <2>1 DEF AInv, NotAlone
  <2>2. CASE q = p
    <3>1. call'[q] = c /\ call'[r] = call[r] /\ c # Idle /\ call[r].acct = c.acct
      BY <1>1, <2>2
    <3>2. c.stage = "starting" => call[r].client # c.client
      BY <3>1 DEF Unused, InCall
    <3> QED
      BY <1>2, <2>2, <3>1, <3>2
  <2>3. CASE r = p
    <3>1. call'[r] = c /\ call'[q] = call[q] /\ call[q] \in Calls /\ c # Idle
      BY <1>1, <2>3, CallTypes
    <3>2. call[q].stage = "starting" => c.client # call[q].client
      <4>1. CASE c.stage = "starting"
        BY <3>1, <4>1 DEF Unused, InCall
      <4>2. CASE c.stage = "closing"
        BY <3>1, <4>2 DEF AInv, CallOK
      <4> QED
        BY <3>1, <4>1, <4>2, CallTypes
    <3> QED
      BY <1>2, <2>3, <3>1, <3>2
  <2> QED
    BY <2>1, <2>2, <2>3
<1>6. RegistryIsTrue'
  BY DEF AInv, RegistryIsTrue
<1>7. ClientsAccountedFor'
  <2> SUFFICES ASSUME NEW a \in Account, NEW n \in Instances, up[a][n] # NoSession
               PROVE  \/ registry[a] = n \/ InCall(a, n)'
                      \/ <<a, n>> \in stranded \/ a \in raced'
    BY DEF ClientsAccountedFor
  <2>1. InCall(a, n) => InCall(a, n)'
    BY <1>0, <1>1, CallTypes DEF InCall
  <2> QED
    BY <1>2, <2>1 DEF AInv, ClientsAccountedFor
<1> QED
  BY <1>3, <1>4, <1>5, <1>6, <1>7 DEF AInv

\* The answer to the await of a call, which ends it or lets connect() go on with
\* a client of its own: only the client in hand, and the registry of its account,
\* have changed.
LEMMA AnswerAInv ==
  ASSUME AInv, NEW p \in Callers, NEW k \in Calls, call[p] = k, NEW c,
         call' = [call EXCEPT ![p] = c], files' = files, raced' = raced,
         registry' \in [Account -> Instances \cup {NoClient}],
         refs' \in [Account -> Sessions \cup {NoSession}],
         up' \in [Account -> [Instances -> Sessions \cup {NoSession}]],
         stranded' \subseteq Account \X Instances,
         c # Idle => /\ c \in Calls /\ c.kind = "connect" /\ c.stage = "starting"
                     /\ c.session \in Sessions /\ c.acct = k.acct /\ c.client \in Unused(k.acct)
                     /\ registry'[k.acct] = NoClient,
         \A a \in Account \ {k.acct} :
           registry'[a] = registry[a] /\ refs'[a] = refs[a] /\ up'[a] = up[a],
         \A n \in Instances \ {k.client} : up'[k.acct][n] = up[k.acct][n],
         registry'[k.acct] \in {NoClient, registry[k.acct], k.client},
         IF registry'[k.acct] = NoClient THEN refs'[k.acct] = NoSession
         ELSE refs'[k.acct] # NoSession /\ up'[k.acct][registry'[k.acct]] = refs'[k.acct],
         \A a \in Account, n \in Instances :
           <<a, n>> \in stranded /\ (a # k.acct \/ n # k.client) => <<a, n>> \in stranded',
         up'[k.acct][k.client] # NoSession =>
           \/ registry'[k.acct] = k.client \/ <<k.acct, k.client>> \in stranded'
           \/ k.acct \in raced
  PROVE  AInv'
<1>1. \A q \in Callers : call'[q] = IF q = p THEN c ELSE call[q]
  BY DEF AInv, AccountsTypeOK
<1>2. k.acct \in Account /\ k.client \in Instances /\ k # Idle
  BY CallTypes
<1>3. AccountsTypeOK'
  BY DEF AInv, AccountsTypeOK
<1>4. c # Idle => c.client # k.client
  BY DEF Unused, InCall
<1>5. ASSUME NEW q \in Callers \ {p}, call[q].stage = "starting", call[q].acct = k.acct
      PROVE  call[q].client # k.client /\ call[q] # Idle /\ call[q].client \in Instances
  BY <1>5, CallTypes DEF AInv, NotAlone
<1>6. ASSUME NEW q \in Callers \ {p}, call[q].acct = k.acct
      PROVE  k.acct \in raced
  BY <1>2, <1>6 DEF AInv, NotAlone
<1>7. ASSUME NEW q \in Callers PROVE CallOK(call[q])'
  <2>1. CASE q = p
    <3>1. call'[q] = c
      BY <1>1, <2>1
    <3>2. CASE c = Idle
      BY <3>1, <3>2 DEF CallOK, Idle
    <3>3. CASE c # Idle
      <4>1. up'[c.acct][c.client] = NoSession /\ registry'[c.acct] # c.client
        BY <1>4, <3>3, CallTypes DEF Unused
      <4> QED
        BY <3>1, <3>3, <4>1 DEF CallOK
    <3> QED
      BY <3>2, <3>3
  <2>2. CASE q # p
    <3>1. call'[q] = call[q] /\ CallOK(call[q])
      BY <1>1, <2>2 DEF AInv
    <3>2. CASE call[q] = Idle
      BY <3>1, <3>2 DEF CallOK, Idle
    <3>3. CASE call[q] # Idle /\ call[q].acct # k.acct
      <4>1. call[q].acct \in Account \ {k.acct}
        BY <3>3, CallTypes
      <4> QED
        BY <3>1, <4>1 DEF CallOK
    <3>4. CASE call[q] # Idle /\ call[q].acct = k.acct
      <4>1. k.acct \in raced' /\ call[q].client \in Instances
        BY <1>6, <2>2, <3>4, CallTypes
      <4>2. call[q].stage = "starting" =>
              registry'[k.acct] # call[q].client /\ up'[k.acct][call[q].client] = NoSession
        BY <1>5, <2>2, <3>1, <3>4, <4>1, CallTypes DEF CallOK
      <4> QED
        BY <3>1, <3>4, <4>1, <4>2 DEF CallOK
    <3> QED
      BY <3>2, <3>3, <3>4
  <2> QED
    BY <2>1, <2>2
<1>8. NotAlone'
  <2> SUFFICES ASSUME NEW q \in Callers, NEW r \in Callers, q # r,
                      call'[q] # Idle, call'[q].acct = call'[r].acct
               PROVE  /\ call'[q].acct \in raced
                      /\ call'[q].stage = "starting" => call'[r].client # call'[q].client
    BY DEF NotAlone, Idle
  <2>1. CASE q # p /\ r # p
    BY <1>1, <2>1 DEF AInv, NotAlone
  <2>2. CASE q = p
    BY <1>1, <1>6, <2>2 DEF Unused, InCall
  <2>3. CASE r = p
    <3>1. call'[q] = call[q] /\ call'[r] = c /\ call[q] # Idle
      BY <1>1, <2>3
    <3>2. c # Idle
      BY <3>1, CallTypes
    <3> QED
      BY <1>6, <2>3, <3>1, <3>2 DEF Unused, InCall
  <2> QED
    BY <2>1, <2>2, <2>3
<1>9. RegistryIsTrue'
  <2> SUFFICES ASSUME NEW a \in Account
               PROVE  IF registry'[a] = NoClient THEN refs'[a] = NoSession
                      ELSE refs'[a] # NoSession /\ up'[a][registry'[a]] = refs'[a]
    BY DEF RegistryIsTrue
  <2>1. CASE a = k.acct
    BY <2>1
  <2>2. CASE a # k.acct
    BY <2>2 DEF AInv, RegistryIsTrue
  <2> QED
    BY <2>1, <2>2
<1>10. ClientsAccountedFor'
  <2> SUFFICES ASSUME NEW a \in Account, NEW n \in Instances, up'[a][n] # NoSession
               PROVE  \/ registry'[a] = n \/ InCall(a, n)'
                      \/ <<a, n>> \in stranded' \/ a \in raced
    BY DEF ClientsAccountedFor
  <2>1. CASE a = k.acct /\ n = k.client
    BY <2>1
  <2>2. CASE a # k.acct \/ n # k.client
    <3>1. up[a][n] # NoSession
      BY <2>2
    <3>2. registry[a] = n \/ InCall(a, n) \/ <<a, n>> \in stranded \/ a \in raced
      BY <3>1 DEF AInv, ClientsAccountedFor
    <3>3. InCall(a, n) => InCall(a, n)'
      <4>1. ASSUME NEW q \in Callers, call[q].acct = a, call[q].client = n
            PROVE  call'[q] = call[q]
        BY <1>1, <2>2, <4>1
      <4> QED
        BY <4>1 DEF InCall
    <3>4. registry[a] = n => registry'[a] = n \/ a \in raced
      <4>1. CASE a # k.acct
        BY <4>1
      <4>2. CASE a = k.acct
        <5>1. registry[a] \in {k.client, NoClient} \/ a \in raced
          BY <4>2, CallTypes DEF AInv, CallOK
        <5> QED
          BY <2>2, <4>2, <5>1, CallTypes
      <4> QED
        BY <4>1, <4>2
    <3> QED
      BY <2>2, <3>2, <3>3, <3>4
  <2> QED
    BY <2>1, <2>2
<1> QED
  BY <1>3, <1>7, <1>8, <1>9, <1>10 DEF AInv

CallStep(p) ==
  \/ \E a \in Account, s \in Sessions \cup {NoSession} : Connect(p, a, s)
  \/ \E a \in Account : Disconnect(p, a)
  \/ Started(p) \/ StartFails(p) \/ Closed(p) \/ CloseFails(p)

\* Every step of every caller keeps the invariant of the registry.
LEMMA CallStepAInv ==
  ASSUME AInv, NEW p \in Callers, CallStep(p)
  PROVE  AInv'
<1> DEFINE k == call[p]
<1>0. AccountsTypeOK
  BY DEF AInv
<1>1. ASSUME NEW a \in Account, NEW s \in Sessions \cup {NoSession}, Connect(p, a, s)
      PROVE  AInv'
  <2> DEFINE c == ConnectPrefix(a, s)
  <2>1. c # Idle => s \in Sessions
    BY <1>0, AccountsAssumption DEF ConnectPrefix, AccountsTypeOK
  <2>2. c = Closing("connect", a, s) /\ registry[a] # NoClient =>
          c \in Calls /\ c.stage = "closing" /\ c.acct = a /\ c.client = registry[a] /\ c.session = s
    BY <1>0 DEF Closing, Calls, AccountsTypeOK
  <2>3. c = Starting(a, s) =>
          /\ c \in Calls /\ c.stage = "starting" /\ c.acct = a /\ c.session = s
          /\ c.kind = "connect" /\ c.client \in Unused(a)
    <3>1. (CHOOSE n \in Unused(a) : TRUE) \in Unused(a)
      BY <1>1 DEF Connect
    <3>2. Unused(a) \subseteq Instances
      BY DEF Unused
    <3> QED
      BY <3>1, <3>2 DEF Starting, Calls
  <2>4. \/ c = Idle
        \/ c = Closing("connect", a, s) /\ registry[a] # NoClient
        \/ c = Starting(a, s) /\ registry[a] = NoClient
    BY DEF ConnectPrefix
  <2>5. Enter(p, c) /\ UNCHANGED <<files, registry, refs, up, stranded>>
    BY <1>1 DEF Connect
  <2> HIDE DEF c
  <2> QED
    BY <2>1, <2>2, <2>3, <2>4, <2>5, EnterAInv
<1>2. ASSUME NEW a \in Account, Disconnect(p, a) PROVE AInv'
  <2> DEFINE c == IF registry[a] = NoClient THEN Idle ELSE Closing("disconnect", a, NoSession)
  <2>1. registry[a] # NoClient =>
          /\ c \in Calls /\ c.stage = "closing" /\ c.kind = "disconnect"
          /\ c.acct = a /\ c.client = registry[a]
    BY <1>0 DEF Closing, Calls, AccountsTypeOK
  <2>2. refs' = refs
    BY <1>0, <1>2 DEF Disconnect, AInv, RegistryIsTrue, AccountsTypeOK
  <2>3. Enter(p, c) /\ UNCHANGED <<files, registry, up, stranded>>
    BY <1>2 DEF Disconnect
  <2> HIDE DEF c
  <2>4. c # Idle => registry[a] # NoClient
    BY DEF c
  <2> QED
    BY <2>1, <2>2, <2>3, <2>4, EnterAInv
<1>3. ASSUME Started(p) \/ StartFails(p) \/ Closed(p) \/ CloseFails(p)
      PROVE  AInv'
  <2>1. k \in Calls /\ k.acct \in Account /\ k.client \in Instances /\ CallOK(k)
    BY <1>3, CallTypes DEF Started, StartFails, Closed, CloseFails, AInv
  <2>2. /\ registry[k.acct] \in Instances \cup {NoClient} /\ k.session \in Sessions \cup {NoSession}
        /\ <<k.acct, k.client>> \in Account \X Instances
    BY <1>0, <2>1 DEF AccountsTypeOK, Calls
  <2>3. /\ files' = files /\ raced' = raced
        /\ registry' \in [Account -> Instances \cup {NoClient}]
        /\ refs' \in [Account -> Sessions \cup {NoSession}]
        /\ up' \in [Account -> [Instances -> Sessions \cup {NoSession}]]
        /\ stranded' \subseteq Account \X Instances
    <3>1. files' = files /\ raced' = raced
      BY <1>3 DEF Started, StartFails, Closed, CloseFails
    <3>2. /\ registry' \in [Account -> Instances \cup {NoClient}]
          /\ refs' \in [Account -> Sessions \cup {NoSession}]
      BY <1>0, <1>3, <2>1, <2>2
      DEF Started, StartFails, Closed, CloseFails, Unbind, AccountsTypeOK
    <3>3. \/ up' = up \/ up' = [up EXCEPT ![k.acct][k.client] = k.session]
          \/ up' = [up EXCEPT ![k.acct][k.client] = NoSession]
      BY <1>3 DEF Started, StartFails, Closed, CloseFails
    <3>4. up' \in [Account -> [Instances -> Sessions \cup {NoSession}]]
      <4>1. ASSUME NEW s \in Sessions \cup {NoSession}
            PROVE  [up EXCEPT ![k.acct][k.client] = s]
                     \in [Account -> [Instances -> Sessions \cup {NoSession}]]
        <5> DEFINE T == [Instances -> Sessions \cup {NoSession}]
        <5>1. up \in [Account -> T] /\ up[k.acct] \in T
          BY <1>0, <2>1 DEF AccountsTypeOK
        <5>2. [up[k.acct] EXCEPT ![k.client] = s] \in T
          BY <2>1, <5>1
        <5> HIDE DEF T, k
        <5>3. [up EXCEPT ![k.acct] = [up[k.acct] EXCEPT ![k.client] = s]] \in [Account -> T]
          BY <2>1, <5>1, <5>2
        <5> QED
          BY <5>3 DEF T
      <4>2. up \in [Account -> [Instances -> Sessions \cup {NoSession}]]
        BY <1>0 DEF AccountsTypeOK
      <4> HIDE DEF k
      <4> QED
        BY <2>2, <3>3, <4>1, <4>2
    <3>5. \/ stranded' = stranded \/ stranded' = stranded \cup {<<k.acct, k.client>>}
          \/ stranded' = stranded \ {<<k.acct, k.client>>}
      BY <1>3 DEF Started, StartFails, Closed, CloseFails
    <3>6. stranded' \subseteq Account \X Instances
      BY <1>0, <2>2, <3>5 DEF AccountsTypeOK
    <3> QED
      BY <3>1, <3>2, <3>4, <3>6
  <2>4. /\ \A a \in Account \ {k.acct} :
             registry'[a] = registry[a] /\ refs'[a] = refs[a] /\ up'[a] = up[a]
        /\ \A n \in Instances \ {k.client} : up'[k.acct][n] = up[k.acct][n]
        /\ \A a \in Account, n \in Instances :
             <<a, n>> \in stranded /\ (a # k.acct \/ n # k.client) => <<a, n>> \in stranded'
    BY <1>0, <1>3, <2>1
    DEF Started, StartFails, Closed, CloseFails, Unbind, AccountsTypeOK
  <2>5. RegistryIsTrue
    BY DEF AInv
  <2>6. CASE Started(p)
    <3>1. /\ registry'[k.acct] = k.client /\ refs'[k.acct] = k.session
          /\ up'[k.acct][k.client] = k.session /\ call' = [call EXCEPT ![p] = Idle]
      BY <1>0, <2>1, <2>6 DEF Started, AccountsTypeOK
    <3>2. k.session # NoSession /\ k.client # NoClient
      BY <2>1, <2>6, AccountsAssumption DEF Started, CallOK
    <3>3. IF registry'[k.acct] = NoClient THEN refs'[k.acct] = NoSession
          ELSE refs'[k.acct] # NoSession /\ up'[k.acct][registry'[k.acct]] = refs'[k.acct]
      BY <3>1, <3>2
    <3>4. registry'[k.acct] \in {NoClient, registry[k.acct], k.client} /\ call[p] = k
      BY <3>1
    <3> HIDE DEF k
    <3> QED
      BY <2>1, <2>3, <2>4, <3>1, <3>3, <3>4, AnswerAInv
  <2>7. CASE StartFails(p)
    <3>1. registry' = registry /\ refs' = refs /\ call' = [call EXCEPT ![p] = Idle]
      BY <2>7 DEF StartFails
    <3>2. registry[k.acct] # k.client /\ up[k.acct][k.client] = NoSession
      BY <2>1, <2>7 DEF StartFails, CallOK
    <3>3. up'[k.acct][k.client] # NoSession => <<k.acct, k.client>> \in stranded'
      BY <2>7, <3>2 DEF StartFails
    <3>4. IF registry[k.acct] = NoClient THEN refs[k.acct] = NoSession
          ELSE refs[k.acct] # NoSession /\ up[k.acct][registry[k.acct]] = refs[k.acct]
      BY <2>1, <2>5 DEF RegistryIsTrue
    <3>5. registry[k.acct] # NoClient => up'[k.acct][registry[k.acct]] = up[k.acct][registry[k.acct]]
      BY <2>2, <2>4, <3>2
    <3>6. IF registry'[k.acct] = NoClient THEN refs'[k.acct] = NoSession
          ELSE refs'[k.acct] # NoSession /\ up'[k.acct][registry'[k.acct]] = refs'[k.acct]
      BY <3>1, <3>4, <3>5
    <3>7. registry'[k.acct] \in {NoClient, registry[k.acct], k.client}
      BY <3>1
    <3> HIDE DEF k
    <3>8. call[p] = k
      BY DEF k
    <3> QED
      BY <2>1, <2>3, <2>4, <3>1, <3>3, <3>6, <3>7, <3>8, AnswerAInv
  <2>8. CASE CloseFails(p)
    <3>1. /\ registry'[k.acct] = NoClient /\ refs'[k.acct] = NoSession
          /\ call' = [call EXCEPT ![p] = Idle]
      BY <1>0, <2>1, <2>8 DEF CloseFails, Unbind, AccountsTypeOK
    <3>2. up'[k.acct][k.client] # NoSession => <<k.acct, k.client>> \in stranded'
      BY <1>0, <2>1, <2>8 DEF CloseFails, AccountsTypeOK
    <3> HIDE DEF k
    <3> QED
      BY <2>1, <2>3, <2>4, <3>1, <3>2, AnswerAInv DEF k
  <2>9. CASE Closed(p)
    <3> DEFINE c == IF k.kind = "connect" THEN Starting(k.acct, k.session) ELSE Idle
    <3>1. /\ registry'[k.acct] = NoClient /\ refs'[k.acct] = NoSession
          /\ call' = [call EXCEPT ![p] = c] /\ up'[k.acct][k.client] = NoSession
      BY <1>0, <2>1, <2>9 DEF Closed, Unbind, AccountsTypeOK
    <3>2. c # Idle => /\ c \in Calls /\ c.stage = "starting" /\ c.acct = k.acct
                      /\ c.session \in Sessions /\ c.kind = "connect" /\ c.client \in Unused(k.acct)
      <4> SUFFICES ASSUME k.kind = "connect"
                   PROVE  /\ c \in Calls /\ c.stage = "starting" /\ c.acct = k.acct
                          /\ c.session \in Sessions /\ c.kind = "connect"
                          /\ c.client \in Unused(k.acct)
        OBVIOUS
      <4>1. (CHOOSE n \in Unused(k.acct) : TRUE) \in Unused(k.acct)
        BY <2>9 DEF Closed
      <4>2. Unused(k.acct) \subseteq Instances /\ k.session \in Sessions
        BY <2>1 DEF Unused, CallOK
      <4> QED
        BY <2>1, <4>1, <4>2 DEF Starting, Calls
    <3> HIDE DEF k, c
    <3> QED
      BY <2>1, <2>3, <2>4, <3>1, <3>2, AnswerAInv DEF k
  <2> QED
    BY <1>3, <2>6, <2>7, <2>8, <2>9
<1> QED
  BY <1>1, <1>2, <1>3 DEF CallStep

\* What a step of a call changes outside its own entry, and of which account.
LEMMA CallEffects ==
  ASSUME AInv, NEW p \in Callers, CallStep(p)
  PROVE  /\ \A q \in Callers \ {p} : call'[q] = call[q]
         /\ raced \subseteq raced'
         /\ \/ call[p] = Idle \/ call'[p] = Idle
            \/ /\ call'[p].acct = call[p].acct /\ call'[p].stage = "starting"
               /\ call[p].kind = "connect"
         /\ \A a \in Account :
              registry'[a] # registry[a] \/ refs'[a] # refs[a] =>
                call[p] # Idle /\ call[p].acct = a
         /\ \A a \in Account :
              registry'[a] # registry[a] /\ call[p].stage = "closing" => registry'[a] = NoClient
<1>0. AccountsTypeOK /\ RegistryIsTrue
  BY DEF AInv
<1>1. ASSUME NEW a \in Account, NEW s \in Sessions \cup {NoSession}, Connect(p, a, s)
      PROVE  /\ call[p] = Idle /\ registry' = registry /\ refs' = refs /\ raced \subseteq raced'
             /\ \A q \in Callers \ {p} : call'[q] = call[q]
  BY <1>0, <1>1 DEF Connect, Enter, AccountsTypeOK
<1>2. ASSUME NEW a \in Account, Disconnect(p, a)
      PROVE  /\ call[p] = Idle /\ registry' = registry /\ refs' = refs /\ raced \subseteq raced'
             /\ \A q \in Callers \ {p} : call'[q] = call[q]
  BY <1>0, <1>2 DEF Disconnect, Enter, AccountsTypeOK, RegistryIsTrue
<1>3. CASE Started(p) \/ StartFails(p) \/ Closed(p) \/ CloseFails(p)
  <2>1. call[p] # Idle /\ call[p].acct \in Account
    BY <1>3, CallTypes DEF Started, StartFails, Closed, CloseFails
  <2>2. raced' = raced /\ \A q \in Callers \ {p} : call'[q] = call[q]
    BY <1>0, <1>3 DEF Started, StartFails, Closed, CloseFails, AccountsTypeOK
  <2>3. \/ call'[p] = Idle
        \/ /\ call'[p] = Starting(call[p].acct, call[p].session) /\ call[p].kind = "connect"
    BY <1>0, <1>3 DEF Started, StartFails, Closed, CloseFails, AccountsTypeOK
  <2>4. \A a \in Account \ {call[p].acct} : registry'[a] = registry[a] /\ refs'[a] = refs[a]
    BY <1>0, <1>3
    DEF Started, StartFails, Closed, CloseFails, Unbind, AccountsTypeOK
  <2>5. call[p].stage = "closing" => registry'[call[p].acct] = NoClient
    BY <1>0, <1>3, <2>1
    DEF Started, StartFails, Closed, CloseFails, Unbind, AccountsTypeOK
  <2> QED
    BY <2>1, <2>2, <2>3, <2>4, <2>5 DEF Starting
<1> QED
  BY <1>1, <1>2, <1>3 DEF CallStep

\* A step that leaves the clients alone leaves their invariant alone.
LEMMA IdleAInv == AInv /\ UNCHANGED accountVars => AInv'
<1> SUFFICES ASSUME AInv, UNCHANGED accountVars PROVE AInv'
  OBVIOUS
<1>1. AccountsTypeOK' /\ RegistryIsTrue'
  BY DEF AInv, accountVars, AccountsTypeOK, RegistryIsTrue
<1>2. (\A p \in Callers : CallOK(call[p])')
  <2> SUFFICES ASSUME NEW p \in Callers PROVE CallOK(call[p])'
    OBVIOUS
  <2>1. CallOK(call[p])
    BY DEF AInv
  <2> QED
    BY <2>1 DEF CallOK, accountVars
<1>3. NotAlone'
  BY DEF AInv, accountVars, NotAlone
<1>4. ClientsAccountedFor'
  BY DEF AInv, accountVars, ClientsAccountedFor, InCall
<1> QED
  BY <1>1, <1>2, <1>3, <1>4 DEF AInv

-----------------------------------------------------------------------------
(* The process: who may be in a call, and which steps make one.             *)

\* The callers and the tasks are different things.
LEMMA Distinct ==
  /\ Sync \in Callers /\ Main \in Callers /\ Routes \subseteq Callers /\ Sync # Main
  /\ Sync \notin Routes /\ Main \notin Routes /\ Sync # Worker
  /\ Worker \notin Bots /\ Sync \notin Bots /\ AdminBot \in Bots
  /\ Callers = Routes \cup {Sync, Main}
BY RuntimeAssumption

AllDone == worker = "done" /\ sync.stage = "done" /\ \A b \in Bots : bot[b] = "done"

\* Every task is over exactly when the worker, the loop and the bots are.
LEMMA DoneMeans ==
  /\ AllGathered <=> NoTasks \/ AllDone
  /\ (AllGathered <=> NoTasks \/ AllDone)'
  /\ (NoTasks \/ AllDone) => (NoTasks \/ \A t \in Tasks : TaskDone(t))
<1>1. /\ TaskDone(Worker) <=> worker = "done"
      /\ TaskDone(Sync) <=> sync.stage = "done"
      /\ \A b \in Bots : TaskDone(b) <=> bot[b] = "done"
  BY Distinct DEF TaskDone
<1>2. /\ TaskDone(Worker)' <=> worker' = "done"
      /\ TaskDone(Sync)' <=> sync'.stage = "done"
      /\ \A b \in Bots : TaskDone(b)' <=> bot'[b] = "done"
  BY Distinct DEF TaskDone
<1>3. (NotDone = {}) <=> AllDone
  BY <1>1 DEF NotDone, Tasks, AllDone
<1>4. (NotDone = {})' <=> AllDone'
  BY <1>2 DEF NotDone, Tasks, AllDone
<1>5. AllDone => \A t \in Tasks : TaskDone(t)
  BY <1>1 DEF Tasks, AllDone
<1> QED
  BY <1>3, <1>4, <1>5 DEF AllGathered

\* A cancellation of the synchronisation ends the call it is in.
LEMMA CancelledSync ==
  ASSUME AInv, SyncCancelled
  PROVE  /\ (UNCHANGED accountVars /\ call[Sync] = Idle) \/ CallStep(Sync)
         /\ call'[Sync] = Idle /\ sync' = Between("done") /\ edited' = {}
<1>1. call \in [Callers -> Calls \cup {Idle}]
  BY DEF AInv, AccountsTypeOK
<1> QED
  BY <1>1, Distinct
  DEF SyncCancelled, CallCancelled, CallStep, CloseFails, StartFails, accountVars

\* The loop between its rounds: it loads the rows and lists the clients, fails
\* to, wakes up, or is through with a round; the first time, run() then creates the tasks.
LEMMA LoopPInv ==
  ASSUME AInv, PInv, Load \/ SessionCloses \/ LoadFails \/ RoundDone \/ SyncWakes
  PROVE  PInv' /\ UNCHANGED accountVars
<1> USE Distinct
<1>1. UNCHANGED accountVars
  BY DEF Load, SessionCloses, LoadFails, RoundDone, SyncWakes
<1>2. TypeOK /\ sync \in RoundType /\ TasksOK /\ ListedOK /\ CopiesOK
  BY DEF PInv
<1>3. /\ Copying' => Load \/ SessionCloses
      /\ table' = table /\ pending' = pending /\ updates' = updates
      /\ sync' \in RoundType
  <2>1. CASE Load
    <3>1. [a \in Account |-> IF a \in Active THEN table[a].session ELSE NoSession]
            \in [Account -> Sessions \cup {NoSession}]
      BY <1>2 DEF TypeOK, Row
    <3>2. sync' = Round("loaded", {}, Active,
                        [a \in Account |-> IF a \in Active THEN table[a].session ELSE NoSession])
      BY <2>1 DEF Load
    <3> QED
      BY <2>1, <3>1, <3>2 DEF Load, Round, RoundType, Active
  <2>2. CASE SessionCloses
    <3>1. ToDrop \subseteq Account
      BY DEF ToDrop
    <3> QED
      BY <1>2, <2>2, <3>1 DEF SessionCloses, RoundType
  <2>3. CASE LoadFails \/ RoundDone \/ SyncWakes
    BY <2>3 DEF LoadFails, RoundDone, SyncWakes, RoundFails, Round, Between, RoundType, NoRows, Copying
  <2> QED
    BY <2>1, <2>2, <2>3
<1>4. /\ phase' = phase /\ bot' = bot /\ worker' = worker /\ asked' = asked /\ todo' = todo
      \/ /\ phase = "boot" /\ phase' = "closing" /\ todo' = Bots /\ sync'.stage = "done"
         /\ bot' = bot /\ worker' = worker /\ asked' = asked /\ LoadFails
      \/ /\ phase = "boot" /\ phase' = "run" /\ bot' = [b \in Bots |-> "polling"]
         /\ worker' = "running" /\ asked' = asked /\ todo' = todo /\ RoundDone
  BY DEF Load, SessionCloses, LoadFails, RoundDone, SyncWakes, RoundFails, Between, Round, processVars
<1>5. TypeOK'
  <2>1. AccountsTypeOK'
    BY <1>1, <1>2 DEF TypeOK, AccountsTypeOK, accountVars
  <2>2. edited' \subseteq Account
    BY <1>2 DEF TypeOK, Load, SessionCloses, LoadFails, RoundDone, SyncWakes
  <2> QED
    BY <1>2, <1>3, <1>4, <2>1, <2>2 DEF TypeOK, RoundType
<1>6. TasksOK'
  <2>1. phase # "boot" /\ NoTasks => FALSE
    BY <1>2 DEF TasksOK, Load, SessionCloses, LoadFails, RoundDone, SyncWakes
  <2>2. call'[Sync] # Idle => sync'.stage = "round"
    BY <1>1, <1>2 DEF TasksOK, Load, SessionCloses, LoadFails, RoundDone, SyncWakes, accountVars
  <2> QED
    BY <1>2, <1>4, <2>1, <2>2 DEF TasksOK, NoTasks, AllStarted
<1>7. ListedOK'
  <2>1. phase \notin {"disconnecting", "ended"}
    BY <1>2, DoneMeans DEF ListedOK, TasksOK, AllDone, Load, SessionCloses, LoadFails, RoundDone, SyncWakes
  <2> QED
    BY <1>1, <1>2, <1>4, <2>1 DEF ListedOK, accountVars
<1>8. CopiesOK'
  <2>1. call'[Sync] = Idle /\ table' = table /\ registry' = registry
    BY <1>1, <1>2, <1>3 DEF TasksOK, Load, SessionCloses, LoadFails, RoundDone, SyncWakes, accountVars
  <2>2. CASE Load
    <3>1. sync' = Round("loaded", {}, Active,
                        [a \in Account |-> IF a \in Active THEN table[a].session ELSE NoSession])
      BY <2>2 DEF Load
    <3> QED
      BY <2>1, <3>1 DEF CopiesOK, Copying, Round, Active, Idle
  <2>3. CASE SessionCloses
    <3>1. /\ sync.stage = "loaded" /\ edited' = edited
          /\ sync' = [sync EXCEPT !.stage = "round", !.drop = ToDrop]
      BY <2>3 DEF SessionCloses
    <3>2. /\ sync'.stage = "round" /\ sync'.drop = ToDrop
          /\ sync'.visit = sync.visit /\ sync'.rows = sync.rows
      BY <1>2, <3>1 DEF RoundType
    <3> QED
      BY <1>2, <2>1, <3>1, <3>2 DEF CopiesOK, Copying, ToDrop, Idle
  <2> QED
    BY <1>3, <2>2, <2>3 DEF CopiesOK
<1> QED
  BY <1>1, <1>3, <1>5, <1>6, <1>7, <1>8 DEF PInv

\* The loop at work on an account, and the answers it waits for.
LEMMA RoundPInv ==
  ASSUME AInv, PInv, SyncAnswered \/ \E a \in Account : Drop(a) \/ Visit(a)
  PROVE  PInv' /\ CallStep(Sync)
<1> USE Distinct
<1>2. TypeOK /\ sync \in RoundType /\ TasksOK /\ ListedOK /\ CopiesOK
  BY DEF PInv
<1>0. CallStep(Sync)
  <2>1. ASSUME NEW a \in Account, Visit(a)
        PROVE  \E s \in Sessions \cup {NoSession} : Connect(Sync, a, s)
    <3>1. sync.rows[a] \in Sessions \cup {NoSession}
      BY <1>2 DEF RoundType
    <3> QED
      BY <2>1, <3>1 DEF Visit
  <2> QED
    BY <2>1 DEF CallStep, Drop, SyncAnswered
<1>1. AInv'
  BY <1>0, CallStepAInv
<1>3. sync.stage = "round"
  <2>1. SyncAnswered => call[Sync] # Idle
    BY DEF SyncAnswered, Started, StartFails, Closed, CloseFails, Idle
  <2> QED
    BY <1>2, <2>1 DEF TasksOK, Drop, Visit
<1>4. /\ UNCHANGED <<table, processVars, pending, updates>>
      /\ edited' \in {edited, {}} /\ sync' \in RoundType
      /\ \/ sync'.stage = "round" /\ edited' = edited
         \/ sync'.stage = "sleep" /\ call'[Sync] = Idle
  <2>1. ASSUME NEW a \in Account, Drop(a) \/ Visit(a)
        PROVE  /\ sync' \in RoundType /\ sync'.stage = "round" /\ edited' = edited
               /\ UNCHANGED <<table, processVars, pending, updates>>
    <3>1. [sync.rows EXCEPT ![a] = NoSession] \in [Account -> Sessions \cup {NoSession}]
      BY <1>2 DEF RoundType
    <3>2. \/ sync' = [sync EXCEPT !.drop = @ \ {a}]
          \/ sync' = [sync EXCEPT !.visit = @ \ {a},
                                  !.rows = [sync.rows EXCEPT ![a] = NoSession]]
      BY <2>1 DEF Drop, Visit
    <3>3. sync' \in RoundType /\ sync'.stage = "round"
      BY <1>2, <1>3, <3>1, <3>2 DEF RoundType
    <3> QED
      BY <2>1, <3>3 DEF Drop, Visit
  <2>2. CASE SyncAnswered
    <3>1. CloseFails(Sync) => call'[Sync] = Idle
      BY DEF CloseFails, AInv, AccountsTypeOK
    <3> QED
      BY <1>2, <1>3, <2>2, <3>1 DEF SyncAnswered, Between, Round, NoRows, RoundType
  <2> QED
    BY <2>1, <2>2
<1>5. TypeOK'
  BY <1>1, <1>2, <1>4 DEF TypeOK, AInv, RoundType, processVars
<1>6. TasksOK'
  <2>1. phase # "boot" => ~NoTasks
    BY <1>2, <1>3 DEF TasksOK
  <2> QED
    BY <1>2, <1>4, <2>1 DEF TasksOK, NoTasks, AllStarted, processVars
<1>7. ListedOK'
  <2>1. phase \notin {"disconnecting", "ended"}
    BY <1>2, <1>3 DEF ListedOK
  <2>2. call'[Main] = call[Main]
    BY <1>0, CallEffects
  <2> QED
    BY <1>2, <1>4, <2>1, <2>2 DEF ListedOK, processVars
<1>8. CopiesOK'
  <2> SUFFICES ASSUME sync'.stage = "round", NEW a \in Account, a \notin edited
               PROVE  /\ a \in sync'.drop => ~table[a].active
                      /\ a \in sync'.visit => table[a].active /\ sync'.rows[a] = table[a].session
                      /\ call'[Sync].stage = "closing" /\ call'[Sync].acct = a /\ a \notin raced' =>
                           IF call'[Sync].kind = "disconnect" THEN ~table[a].active
                           ELSE /\ table[a].session = call'[Sync].session
                                /\ refs'[a] # call'[Sync].session
    BY <1>4 DEF CopiesOK, Copying
  <2>1. /\ a \in sync.drop => ~table[a].active
        /\ a \in sync.visit => table[a].active /\ sync.rows[a] = table[a].session
    BY <1>2, <1>3 DEF CopiesOK, Copying
  <2>2. ASSUME NEW b \in Account, Drop(b)
        PROVE  /\ sync' = [sync EXCEPT !.drop = @ \ {b}] /\ b \in sync.drop
               /\ call'[Sync].stage = "closing" =>
                    call'[Sync].acct = b /\ call'[Sync].kind = "disconnect"
    <3>1. call'[Sync] \in {Idle, Closing("disconnect", b, NoSession)}
      BY <2>2 DEF Drop, Disconnect, Enter, AInv, AccountsTypeOK
    <3> QED
      BY <2>2, <3>1 DEF Drop, Idle, Closing
  <2>3. ASSUME NEW b \in Account, Visit(b)
        PROVE  /\ sync'.drop = sync.drop /\ sync'.visit = sync.visit \ {b} /\ b \in sync.visit
               /\ a # b => sync'.rows[a] = sync.rows[a]
               /\ refs' = refs
               /\ call'[Sync].stage = "closing" =>
                    /\ call'[Sync].acct = b /\ call'[Sync].kind = "connect"
                    /\ call'[Sync].session = sync.rows[b] /\ refs[b] # sync.rows[b]
    <3>1. call'[Sync] = ConnectPrefix(b, sync.rows[b])
      BY <2>3 DEF Visit, Connect, Enter, AInv, AccountsTypeOK
    <3>2. ConnectPrefix(b, sync.rows[b]).stage = "closing" =>
            /\ refs[b] # sync.rows[b]
            /\ ConnectPrefix(b, sync.rows[b]) = Closing("connect", b, sync.rows[b])
      <4>1. Idle.stage # "closing" /\ Starting(b, sync.rows[b]).stage # "closing"
        BY DEF Idle, Starting
      <4> QED
        BY <4>1 DEF ConnectPrefix
    <3>3. /\ Closing("connect", b, sync.rows[b]).acct = b
          /\ Closing("connect", b, sync.rows[b]).kind = "connect"
          /\ Closing("connect", b, sync.rows[b]).session = sync.rows[b]
      BY DEF Closing
    <3>4. /\ b \in sync.visit /\ refs' = refs
          /\ sync' = [sync EXCEPT !.visit = @ \ {b}, !.rows = [sync.rows EXCEPT ![b] = NoSession]]
      BY <2>3 DEF Visit, Connect
    <3>5. sync'.rows = [sync.rows EXCEPT ![b] = NoSession] /\ sync'.visit = sync.visit \ {b}
          /\ sync'.drop = sync.drop
      BY <1>2, <3>4 DEF RoundType
    <3>6. a # b => sync'.rows[a] = sync.rows[a]
      BY <1>2, <3>5 DEF RoundType
    <3> QED
      BY <3>1, <3>2, <3>3, <3>4, <3>5, <3>6
  <2>4. SyncAnswered => sync' = sync /\ call'[Sync].stage # "closing"
    <3>1. SyncAnswered => sync' = sync
      BY DEF SyncAnswered, Between, Round
    <3>2. SyncAnswered => call[Sync] # Idle
      BY DEF SyncAnswered, Started, StartFails, Closed, CloseFails, Idle
    <3> QED
      BY <1>0, <3>1, <3>2, CallEffects DEF Idle
  <2>5. CASE SyncAnswered
    BY <2>1, <2>4, <2>5
  <2>6. CASE \E b \in Account : Drop(b)
    <3>1. PICK b \in Account : Drop(b)
      BY <2>6
    <3>2. sync'.drop = sync.drop \ {b} /\ sync'.visit = sync.visit /\ sync'.rows = sync.rows
      BY <1>2, <2>2, <3>1 DEF RoundType
    <3> QED
      BY <2>1, <2>2, <3>1, <3>2
  <2>7. CASE \E b \in Account : Visit(b)
    BY <2>1, <2>3, <2>7
  <2> QED
    BY <2>5, <2>6, <2>7
<1> QED
  BY <1>0, <1>4, <1>5, <1>6, <1>7, <1>8 DEF PInv

\* The supervisors of the bots and the worker: a task that is not over was
\* started, and none is left once the clients are listed.
LEMMA SupervisorPInv ==
  ASSUME AInv, PInv, WorkerStops \/ \E b \in Bots : BotStep(b)
  PROVE  PInv' /\ UNCHANGED accountVars
<1> USE Distinct
<1>1. TypeOK /\ sync \in RoundType /\ TasksOK /\ ListedOK /\ CopiesOK
  BY DEF PInv
<1>2. /\ UNCHANGED <<accountVars, table, phase, sync, asked, todo, edited, pending, updates>>
      /\ \/ worker = "running" /\ worker' = "done" /\ bot' = bot
         \/ /\ worker' = worker
            /\ \E b \in Bots, v \in {"polling", "waiting", "done"} :
                 bot[b] \in {"polling", "waiting"} /\ bot' = [bot EXCEPT ![b] = v]
  BY DEF WorkerStops, BotStep, BotReturns, BotWakes, AfterStart
<1>3. AllStarted /\ phase \notin {"disconnecting", "ended"}
  BY <1>1, <1>2, DoneMeans DEF TasksOK, ListedOK, NoTasks, AllDone
<1>4. TypeOK' /\ AllStarted' /\ ~NoTasks'
  <2>1. AccountsTypeOK'
    BY <1>1, <1>2 DEF TypeOK, AccountsTypeOK, accountVars
  <2>2. bot' \in [Bots -> {"polling", "waiting", "done"}]
    BY <1>1, <1>2, <1>3 DEF TypeOK, AllStarted
  <2> QED
    BY <1>1, <1>2, <2>1, <2>2 DEF TypeOK, AllStarted, NoTasks
<1>5. TasksOK' /\ ListedOK' /\ CopiesOK'
  <2>1. call' = call /\ raced' = raced /\ refs' = refs
    BY <1>2 DEF accountVars
  <2>2. TasksOK'
    BY <1>1, <1>2, <1>3, <1>4, <2>1 DEF TasksOK, AllStarted, NoTasks
  <2>3. ListedOK'
    BY <1>1, <1>2, <1>3, <2>1 DEF ListedOK
  <2>4. CopiesOK'
    BY <1>1, <1>2, <2>1 DEF CopiesOK, Copying
  <2> QED
    BY <2>2, <2>3, <2>4
<1> QED
  BY <1>1, <1>2, <1>4, <1>5 DEF PInv

\* Once everything is over, or nothing was begun, no task does anything.
LEMMA NothingLeft ==
  ASSUME TypeOK, TasksOK, phase \in {"disconnecting", "ended"}, ListedOK
  PROVE  /\ sync.stage = "done" /\ call[Sync] = Idle
         /\ \A t \in asked : /\ t \in Bots => bot[t] = "done"
                             /\ t = Worker => worker # "running"
         /\ bot[AdminBot] # "polling"
BY Distinct, DoneMeans DEF ListedOK, TasksOK, NoTasks, AllDone

\* A cancellation delivered to a task.
LEMMA DeliveredPInv ==
  ASSUME AInv, PInv, NEW t \in Tasks, Delivered(t)
  PROVE  PInv' /\ (UNCHANGED accountVars \/ (t = Sync /\ SyncCancelled))
<1> USE Distinct
<1>1. TypeOK /\ sync \in RoundType /\ TasksOK /\ ListedOK /\ CopiesOK
  BY DEF PInv
<1>2. /\ t \in asked /\ asked' = asked \ {t}
      /\ UNCHANGED <<table, phase, todo, pending, updates>>
      /\ \/ /\ t \in Bots /\ bot[t] # "done"
            /\ \E v \in {"waiting", "done"} : bot' = [bot EXCEPT ![t] = v]
            /\ UNCHANGED <<accountVars, worker, sync, edited>>
         \/ /\ t = Worker /\ worker = "running"
            /\ worker' = "done"
            /\ UNCHANGED <<accountVars, bot, sync, edited>>
         \/ /\ t = Sync /\ SyncCancelled
            /\ UNCHANGED <<bot, worker>>
  BY DEF Delivered, AfterStart
<1>3. AllStarted
  BY <1>1, <1>2 DEF TasksOK
<1>4. phase \notin {"disconnecting", "ended"}
  BY <1>1, <1>2, NothingLeft DEF SyncCancelled
<1>5. /\ UNCHANGED accountVars /\ sync' = sync /\ edited' = edited
      \/ /\ UNCHANGED accountVars \/ CallStep(Sync)
         /\ call'[Sync] = Idle /\ sync' = Between("done") /\ edited' = {}
  BY <1>2, CancelledSync
<1>6. AInv' /\ call'[Main] = call[Main] /\ (call'[Sync] # Idle => sync'.stage = "round")
  <2>1. UNCHANGED accountVars => AInv' /\ call' = call
    BY IdleAInv DEF accountVars
  <2>2. CallStep(Sync) => AInv' /\ call'[Main] = call[Main]
    BY CallStepAInv, CallEffects
  <2> QED
    BY <1>1, <1>5, <2>1, <2>2 DEF TasksOK
<1>7. sync' \in RoundType
  BY <1>1, <1>5 DEF RoundType, Between, Round, NoRows
<1>8. TypeOK' /\ AllStarted' /\ ~NoTasks'
  <2>1. bot' \in [Bots -> {"polling", "waiting", "done"}]
    BY <1>1, <1>2, <1>3 DEF TypeOK, AllStarted
  <2>2. worker' \in {"off", "running", "done"} /\ edited' \subseteq Account
    BY <1>1, <1>2, <1>5 DEF TypeOK
  <2> QED
    BY <1>1, <1>2, <1>6, <1>7, <2>1, <2>2 DEF TypeOK, AInv, RoundType, AllStarted, NoTasks
<1>9. TasksOK' /\ ListedOK'
  BY <1>1, <1>2, <1>4, <1>6, <1>8, <1>3 DEF TasksOK, ListedOK, AllStarted, NoTasks
<1>10. CopiesOK'
  <2>1. Copying' => UNCHANGED accountVars /\ sync' = sync /\ edited' = edited
    BY <1>5 DEF Between, Round, Copying
  <2> QED
    BY <1>1, <1>2, <2>1 DEF CopiesOK, Copying, accountVars
<1> QED
  BY <1>2, <1>7, <1>8, <1>9, <1>10 DEF PInv

\* A signal: at boot it ends the first synchronisation, and later every task is
\* asked to end.
LEMMA InterruptPInv ==
  ASSUME AInv, PInv, Interrupt
  PROVE  PInv' /\ (UNCHANGED accountVars \/ SyncCancelled)
<1> USE Distinct
<1>1. TypeOK /\ sync \in RoundType /\ TasksOK /\ ListedOK /\ CopiesOK
  BY DEF PInv
<1>2. CASE phase = "run"
  <2>1. /\ phase' = "interrupted" /\ asked' = Tasks
        /\ UNCHANGED <<accountVars, table, bot, worker, sync, todo, edited, pending, updates>>
    BY <1>2 DEF Interrupt
  <2>2. call' = call /\ refs' = refs /\ raced' = raced /\ AccountsTypeOK'
    BY <1>1, <2>1 DEF accountVars, TypeOK, AccountsTypeOK
  <2>3. TypeOK'
    BY <1>1, <2>1, <2>2 DEF TypeOK
  <2>4. TasksOK' /\ ListedOK'
    BY <1>1, <1>2, <2>1, <2>2 DEF TasksOK, ListedOK, AllStarted, NoTasks
  <2>5. CopiesOK'
    BY <1>1, <2>1, <2>2 DEF CopiesOK, Copying
  <2> QED
    BY <1>1, <2>1, <2>3, <2>4, <2>5 DEF PInv
<1>3. CASE phase = "boot"
  <2>1. /\ SyncCancelled /\ phase' = "closing" /\ todo' = Bots
        /\ UNCHANGED <<table, bot, worker, asked, pending, updates>>
    BY <1>3 DEF Interrupt
  <2>2. /\ UNCHANGED accountVars \/ CallStep(Sync)
        /\ call'[Sync] = Idle /\ sync' = Between("done") /\ edited' = {}
    BY <2>1, CancelledSync
  <2>3. AInv' /\ call'[Main] = call[Main]
    <3>1. UNCHANGED accountVars => AInv' /\ call' = call
      BY IdleAInv DEF accountVars
    <3>2. CallStep(Sync) => AInv' /\ call'[Main] = call[Main]
      BY CallStepAInv, CallEffects
    <3> QED
      BY <2>2, <3>1, <3>2
  <2>4. sync' \in RoundType /\ sync'.stage = "done"
    BY <2>2 DEF RoundType, Between, Round, NoRows
  <2>5. TypeOK'
    BY <1>1, <2>1, <2>2, <2>3, <2>4 DEF TypeOK, AInv, RoundType
  <2>6. TasksOK' /\ ListedOK' /\ CopiesOK'
    BY <1>1, <1>3, <2>1, <2>2, <2>3, <2>4 DEF TasksOK, ListedOK, CopiesOK, Copying, NoTasks
  <2> QED
    BY <2>1, <2>4, <2>5, <2>6 DEF PInv
<1> QED
  BY <1>2, <1>3 DEF Interrupt

\* shutdown() up to the list of the clients: it closes the bots, asks the tasks
\* that are left to end, waits for them, and ends when all is disconnected.
LEMMA ShutdownPInv ==
  ASSUME AInv, PInv, Unwind \/ CancelTasks \/ Gathered \/ End \/ \E b \in Bots : CloseBot(b)
  PROVE  PInv' /\ UNCHANGED accountVars
<1> USE Distinct
<1>1. TypeOK /\ sync \in RoundType /\ TasksOK /\ ListedOK /\ CopiesOK
  BY DEF PInv
<1>2. UNCHANGED <<accountVars, table, bot, worker, sync, edited, updates>>
  BY DEF Unwind, CancelTasks, Gathered, End, CloseBot
<1>3. call' = call /\ refs' = refs /\ raced' = raced /\ registry' = registry /\ AccountsTypeOK'
  BY <1>1, <1>2 DEF accountVars, TypeOK, AccountsTypeOK
<1>4. /\ phase' # "boot" /\ phase # "boot" /\ phase' \in Phases
      /\ phase' \in {"run", "interrupted"} => phase' = phase
      /\ asked' \in {asked, ToCancel} /\ todo' \subseteq Bots \cup Account
      /\ pending' \subseteq Account \cup {NoAccount}
  <2>1. todo' \subseteq Bots \cup Account /\ pending' \subseteq Account \cup {NoAccount}
    <3>1. \A r \in Routes : call[r].acct \in Account \cup {NoAccount}
      BY CallTypes
    <3> QED
      BY <1>1, <3>1 DEF Unwind, CancelTasks, Gathered, End, CloseBot, TypeOK
  <2> QED
    BY <2>1 DEF Unwind, CancelTasks, Gathered, End, CloseBot, Phases
<1>5. TypeOK'
  <2>1. ToCancel \subseteq Tasks
    BY DEF ToCancel, NotDone
  <2> QED
    BY <1>1, <1>2, <1>3, <1>4, <2>1 DEF TypeOK, Phases
<1>6. TasksOK'
  <2>1. NoTasks => ToCancel = {}
    BY DEF ToCancel
  <2> QED
    BY <1>1, <1>2, <1>3, <1>4, <2>1 DEF TasksOK, NoTasks, AllStarted
<1>7. ListedOK'
  <2>1. CASE Unwind \/ CancelTasks \/ \E b \in Bots : CloseBot(b)
    <3>1. phase \notin {"disconnecting", "ended"} /\ phase' \notin {"disconnecting", "ended"}
      BY <2>1 DEF Unwind, CancelTasks, CloseBot
    <3> QED
      BY <1>1, <1>3, <3>1 DEF ListedOK
  <2>2. CASE Gathered
    <3>1. /\ phase = "cancelling" /\ phase' = "disconnecting" /\ AllGathered
          /\ todo' = {a \in Account : registry[a] # NoClient}
          /\ \A r \in Routes : call[r].acct \in pending'
      BY <2>2 DEF Gathered
    <3>2. NoTasks \/ AllDone
      BY <3>1, DoneMeans
    <3>3. sync.stage = "done"
      BY <1>1, <3>1, <3>2 DEF AllDone, TasksOK
    <3>4. AllGathered'
      BY <1>2, <3>2, DoneMeans DEF NoTasks, AllDone
    <3> QED
      BY <1>1, <1>2, <1>3, <3>1, <3>3, <3>4 DEF ListedOK
  <2>3. CASE End
    <3>1. phase = "disconnecting" /\ todo = {} /\ call[Main] = Idle /\ phase' = "ended"
          /\ todo' = todo /\ pending' = pending
      BY <2>3 DEF End
    <3>2. AllGathered'
      BY <1>1, <1>2, <3>1, DoneMeans DEF ListedOK, NoTasks, AllDone
    <3> QED
      BY <1>1, <1>2, <1>3, <3>1, <3>2 DEF ListedOK
  <2> QED
    BY <2>1, <2>2, <2>3
<1>8. CopiesOK'
  BY <1>1, <1>2, <1>3 DEF CopiesOK, Copying
<1> QED
  BY <1>1, <1>2, <1>5, <1>6, <1>7, <1>8 DEF PInv

\* shutdown() disconnects the clients it has listed.
LEMMA DisconnectingPInv ==
  ASSUME AInv, PInv, MainAnswered \/ \E a \in Account : DisconnectNext(a)
  PROVE  PInv' /\ CallStep(Main)
<1> USE Distinct
<1>1. TypeOK /\ sync \in RoundType /\ TasksOK /\ ListedOK /\ CopiesOK
  BY DEF PInv
<1>2. /\ UNCHANGED <<table, phase, bot, worker, asked, sync, edited, pending, updates>>
      /\ todo' \subseteq todo /\ CallStep(Main)
  BY DEF MainAnswered, DisconnectNext, CallStep, runtimeVars, processVars
<1>3. phase = "disconnecting"
  <2>1. MainAnswered => call[Main] # Idle
    BY DEF MainAnswered, Closed, CloseFails, Idle
  <2> QED
    BY <1>1, <2>1 DEF ListedOK, DisconnectNext
<1>4. sync.stage = "done"
  BY <1>1, <1>3 DEF ListedOK
<1>5. AInv' /\ \A q \in Callers \ {Main} : call'[q] = call[q]
  BY <1>2, CallStepAInv, CallEffects
<1>6. TypeOK'
  BY <1>1, <1>2, <1>5 DEF TypeOK, AInv
<1>7. TasksOK' /\ CopiesOK'
  BY <1>1, <1>2, <1>3, <1>4, <1>5 DEF TasksOK, CopiesOK, Copying, NoTasks, AllStarted
<1>8. call'[Main] # Idle => call'[Main].kind = "disconnect" /\ call'[Main].stage = "closing"
  <2>1. CASE MainAnswered
    <3>1. call[Main] # Idle
      BY <2>1 DEF MainAnswered, Closed, CloseFails, Idle
    <3>2. call[Main].kind = "disconnect"
      BY <1>1, <3>1 DEF ListedOK
    <3> QED
      BY <1>2, <3>1, <3>2, CallEffects
  <2>2. ASSUME NEW a \in Account, DisconnectNext(a)
        PROVE  call'[Main] \in {Idle, Closing("disconnect", a, NoSession)}
    BY <2>2 DEF DisconnectNext, Disconnect, Enter, AInv, AccountsTypeOK
  <2> QED
    BY <2>1, <2>2 DEF Closing
<1>9. ASSUME NEW a \in Account, registry'[a] # NoClient
      PROVE  a \in todo' \cup pending \/ call'[Main].acct = a
  <2>1. CASE MainAnswered
    <3>1. call[Main] # Idle /\ call[Main].acct \in Account
      BY <2>1, CallTypes DEF MainAnswered, Closed, CloseFails
    <3>2. call[Main].acct # a
      BY <1>9, <2>1, <3>1 DEF MainAnswered, Closed, CloseFails, Unbind, AInv, AccountsTypeOK
    <3>3. registry[a] # NoClient
      BY <1>2, <1>9, <3>2, CallEffects
    <3> QED
      BY <1>1, <1>3, <2>1, <3>2, <3>3 DEF ListedOK, MainAnswered, runtimeVars, processVars
  <2>2. CASE \E b \in Account : DisconnectNext(b)
    <3>1. PICK b \in Account : DisconnectNext(b)
      BY <2>2
    <3>2. call[Main] = Idle /\ registry' = registry /\ todo' = todo \ {b}
      BY <3>1 DEF DisconnectNext, Disconnect, Enter
    <3>3. a \in todo \cup pending
      BY <1>1, <1>3, <1>9, <3>2, CallTypes DEF ListedOK
    <3>4. a = b => call'[Main] = Closing("disconnect", a, NoSession)
      BY <1>9, <3>1, <3>2 DEF DisconnectNext, Disconnect, Enter, AInv, AccountsTypeOK
    <3> QED
      BY <3>2, <3>3, <3>4 DEF Closing
  <2> QED
    BY <2>1, <2>2
<1>10. ListedOK'
  <2>1. AllGathered'
    BY <1>1, <1>2, <1>3, DoneMeans DEF ListedOK, NoTasks, AllDone
  <2> QED
    BY <1>1, <1>2, <1>3, <1>4, <1>5, <1>8, <1>9, <2>1 DEF ListedOK
<1> QED
  BY <1>1, <1>2, <1>6, <1>7, <1>10 DEF PInv

\* A handler of an account update: it takes one while the admin bot polls, and
\* is then inside one call, on the account of the row it has changed.
LEMMA RoutePInv ==
  ASSUME AInv, PInv, NEW r \in Routes, RouteStep(r)
  PROVE  PInv' /\ CallStep(r)
<1> USE Distinct
<1>1. TypeOK /\ sync \in RoundType /\ TasksOK /\ ListedOK /\ CopiesOK
  BY DEF PInv
<1> DEFINE Effects == /\ CallStep(r) /\ UNCHANGED <<processVars, sync, pending>>
                      /\ RouteAnswered(r) \/ Accepts(r)
                      /\ \/ UNCHANGED <<table, edited>>
                         \/ \E a \in Account, row \in Row : Commit(a, row)
<1>2. Effects
  <2>1. ASSUME NEW a \in Account
        PROVE  table[a].session \in Sessions \cup {NoSession} /\ [table[a] EXCEPT !.active = FALSE] \in Row
    <3>1. table[a] \in Row
      BY <1>1 DEF TypeOK
    <3>2. \A w \in Row : w.session \in Sessions \cup {NoSession} /\ [w EXCEPT !.active = FALSE] \in Row
      BY DEF Row
    <3> QED
      BY <3>1, <3>2
  <2>2. \A s \in Sessions : [active |-> TRUE, session |-> s] \in Row
    BY DEF Row
  <2>3. CASE RouteAnswered(r)
    BY <2>3 DEF RouteAnswered, CallStep, runtimeVars
  <2>4. ASSUME NEW a \in Account, RouteDisables(r, a) \/ RouteTests(r, a)
        PROVE  Effects
    BY <2>1, <2>4 DEF RouteDisables, RouteTests, CallStep, Accepts
  <2>5. ASSUME NEW a \in Account, NEW s \in Sessions, RouteAssigns(r, a, s)
        PROVE  Effects
    BY <2>2, <2>5 DEF RouteAssigns, CallStep, Accepts
  <2> QED
    BY <2>3, <2>4, <2>5 DEF RouteStep
<1>3. AInv'
  BY <1>2, CallStepAInv
<1>4. /\ edited \subseteq edited' /\ edited' \subseteq Account /\ table' \in [Account -> Row]
      /\ \A a \in Account : Copying /\ a \notin edited' => table'[a] = table[a]
  BY <1>1, <1>2 DEF Commit, TypeOK, Copying
<1>5. TypeOK'
  <2>1. updates' \in 0 .. MaxUpdates
    BY <1>1, <1>2, RuntimeAssumption DEF RouteAnswered, Accepts, TypeOK, runtimeVars
  <2> QED
    BY <1>1, <1>2, <1>3, <1>4, <2>1 DEF TypeOK, AInv, processVars
<1>6. call'[Sync] = call[Sync] /\ call'[Main] = call[Main]
  BY <1>2, CallEffects
<1>7. TasksOK'
  BY <1>1, <1>2, <1>6 DEF TasksOK, NoTasks, AllStarted, processVars
<1>8. ListedOK'
  <2>1. CASE phase \notin {"disconnecting", "ended"}
    BY <1>1, <1>2, <1>6, <2>1 DEF ListedOK, processVars
  <2>2. CASE phase \in {"disconnecting", "ended"}
    <3>1. RouteAnswered(r)
      BY <1>1, <1>2, <2>2, NothingLeft DEF Accepts
    <3>2. call[r] # Idle
      BY <3>1 DEF RouteAnswered, Started, StartFails, Closed, CloseFails, Idle
    <3>3. call[r].acct \in pending
      BY <1>1, <2>2, <3>2 DEF ListedOK
    <3>4. \A q \in Routes : call'[q] # Idle => call'[q].acct \in pending
      BY <1>1, <1>2, <2>2, <3>2, <3>3, CallEffects DEF ListedOK
    <3>5. \A a \in Account : registry'[a] # NoClient => registry[a] # NoClient \/ a \in pending
      BY <1>2, <3>3, CallEffects
    <3>6. AllGathered'
      BY <1>1, <1>2, <2>2, DoneMeans DEF ListedOK, NoTasks, AllDone, processVars
    <3> QED
      BY <1>1, <1>2, <1>6, <2>2, <3>4, <3>5, <3>6 DEF ListedOK, processVars
  <2> QED
    BY <2>1, <2>2
<1>9. CopiesOK'
  <2> SUFFICES ASSUME Copying, NEW a \in Account, a \notin edited'
               PROVE  /\ a \in sync.drop => ~table'[a].active
                      /\ sync.stage = "loaded" /\ a \notin sync.visit => ~table'[a].active
                      /\ a \in sync.visit =>
                           table'[a].active /\ sync.rows[a] = table'[a].session
                      /\ call[Sync].stage = "closing" /\ call[Sync].acct = a /\ a \notin raced' =>
                           IF call[Sync].kind = "disconnect" THEN ~table'[a].active
                           ELSE /\ table'[a].session = call[Sync].session
                                /\ refs'[a] # call[Sync].session
    BY <1>2, <1>6 DEF CopiesOK, Copying
  <2>1. table'[a] = table[a] /\ a \notin edited
    BY <1>4
  <2>2. call[Sync].acct = a /\ a \notin raced' => refs'[a] = refs[a] /\ a \notin raced
    <3>1. raced \subseteq raced' /\ (refs'[a] # refs[a] => call[r] # Idle /\ call[r].acct = a)
      BY <1>2, CallEffects
    <3> QED
      BY <3>1 DEF AInv, NotAlone
  <2> QED
    BY <1>1, <2>1, <2>2 DEF CopiesOK, Copying
<1> QED
  BY <1>1, <1>2, <1>5, <1>7, <1>8, <1>9 DEF PInv

-----------------------------------------------------------------------------
(* The invariant of the whole, and what follows from it.                    *)

\* The process starts, or starts again, with no client, no task and no call.
LEMMA InitPInv == Init => AInv /\ PInv
<1> SUFFICES ASSUME Init PROVE AInv /\ PInv
  OBVIOUS
<1> USE Distinct
<1>1. AInv
  BY InitAInv DEF Init
<1>2. sync \in RoundType
  BY DEF Init, RoundType, Between, Round, NoRows
<1>3. TypeOK
  BY <1>1, <1>2, RuntimeAssumption DEF Init, TypeOK, AInv, RoundType
<1>4. TasksOK /\ ListedOK /\ CopiesOK
  BY DEF Init, AccountsInit, TasksOK, ListedOK, CopiesOK, Copying, NoTasks, Between, Round
<1> QED
  BY <1>1, <1>2, <1>3, <1>4 DEF PInv

\* Every step keeps both invariants; it leaves the clients alone or is a step of
\* one caller, and the loop's own calls are those of a round.
LEMMA NextPInv ==
  ASSUME AInv, PInv, [Next]_vars
  PROVE  /\ AInv' /\ PInv'
         /\ UNCHANGED accountVars \/ \E p \in Callers : CallStep(p)
<1> USE Distinct
<1>1. CASE Next
  <2>1. CASE Load \/ SessionCloses \/ LoadFails \/ RoundDone \/ SyncWakes
    BY <2>1, LoopPInv, IdleAInv
  <2>2. CASE SyncAnswered \/ \E a \in Account : Drop(a) \/ Visit(a)
    BY <2>2, RoundPInv, CallStepAInv
  <2>3. CASE WorkerStops \/ \E b \in Bots : BotStep(b)
    BY <2>3, SupervisorPInv, IdleAInv
  <2>4. CASE \E t \in Tasks : Delivered(t)
    BY <2>4, DeliveredPInv, CancelledSync, IdleAInv, CallStepAInv
  <2>5. CASE Interrupt
    BY <2>5, InterruptPInv, CancelledSync, IdleAInv, CallStepAInv
  <2>6. CASE Unwind \/ CancelTasks \/ Gathered \/ End \/ \E b \in Bots : CloseBot(b)
    BY <2>6, ShutdownPInv, IdleAInv
  <2>7. CASE MainAnswered \/ \E a \in Account : DisconnectNext(a)
    BY <2>7, DisconnectingPInv, CallStepAInv
  <2>8. CASE \E r \in Routes : RouteStep(r)
    BY <2>8, RoutePInv, CallStepAInv
  <2> QED
    BY <1>1, <2>1, <2>2, <2>3, <2>4, <2>5, <2>6, <2>7, <2>8 DEF Next, SyncStep, MainStep
<1>2. CASE UNCHANGED vars
  <2>1. UNCHANGED accountVars /\ UNCHANGED <<table, phase, bot, worker, sync, asked, todo, edited, pending, updates>>
    BY <1>2 DEF vars, runtimeVars, processVars
  <2>2. AInv'
    BY <2>1, IdleAInv
  <2>3. /\ call' = call /\ registry' = registry /\ refs' = refs /\ raced' = raced
        /\ (AllGathered <=> NoTasks \/ AllDone) /\ (AllGathered <=> NoTasks \/ AllDone)'
    BY <2>1, DoneMeans DEF accountVars
  <2>4. TypeOK'
    BY <2>1, <2>2 DEF PInv, TypeOK, AInv
  <2>5. TasksOK' /\ ListedOK' /\ CopiesOK'
    BY <2>1, <2>3 DEF PInv, TasksOK, ListedOK, CopiesOK, Copying, NoTasks, AllStarted, AllDone
  <2> QED
    BY <2>1, <2>2, <2>4, <2>5 DEF PInv
<1> QED
  BY <1>1, <1>2

\* The two invariants hold of every behaviour.
THEOREM ProcessInvariant == Spec => [](AInv /\ PInv)
<1>1. Init => AInv /\ PInv
  BY InitPInv
<1>2. (AInv /\ PInv) /\ [Next]_vars => (AInv /\ PInv)'
  BY NextPInv
<1> QED
  BY <1>1, <1>2, PTL DEF Spec

\* Every variable of the process and of its clients has its type: a caller is in
\* one call at most, with a client of its account (main.py, runtime.py,
\* account_runtime.py).
THEOREM RuntimeTypeCorrect == Spec => []TypeOK
<1>1. PInv => TypeOK
  BY DEF PInv
<1> QED
  BY <1>1, ProcessInvariant, PTL

\* connect() decides from the remembered session alone whether the registered
\* client will do: for any number of calls that overlap, fail or are cancelled,
\* the client that is registered is connected on that session
\* (account_runtime.py:41-69).
THEOREM RegistryIsTrueCorrect == Spec => []RegistryIsTrue
<1>1. AInv => RegistryIsTrue
  BY DEF AInv
<1> QED
  BY <1>1, ProcessInvariant, PTL

\* A client that a connect() or disconnect() replaces, drops or shuts down is
\* closed before it is forgotten, whatever else runs: for any number of calls, one
\* is left connected with nobody to close it only by a call that raised or was
\* cancelled at its await, or in an account two calls were in (account_runtime.py:41-86).
THEOREM ClientsAccountedForCorrect == Spec => []ClientsAccountedFor
<1>1. AInv => ClientsAccountedFor
  BY DEF AInv
<1> QED
  BY <1>1, ProcessInvariant, PTL

\* However the process stops, a shutdown() that reaches its end leaves no task
\* running and no client registered that a handler was not at work on
\* (runtime.py, shutdown).
THEOREM EndsCleanCorrect == Spec => []EndsClean
<1>1. AInv /\ PInv => EndsClean
  <2> SUFFICES ASSUME AInv, PInv, phase = "ended"
               PROVE  /\ NoTasks \/ \A t \in Tasks : TaskDone(t)
                      /\ \A a \in Account : registry[a] # NoClient => a \in pending
    BY DEF EndsClean
  <2>1. ListedOK
    BY DEF PInv
  <2>2. call[Main] = Idle
    BY <2>1 DEF ListedOK
  <2>3. NoTasks \/ \A t \in Tasks : TaskDone(t)
    BY <2>1, DoneMeans DEF ListedOK
  <2>4. \A a \in Account : call[Main].acct # a
    BY <2>2, CallTypes
  <2> QED
    BY <2>1, <2>3, <2>4 DEF ListedOK
<1> QED
  BY <1>1, ProcessInvariant, PTL

\* A step of the loop takes no client away that serves its account as the row
\* says, except when the row was changed since the round loaded it or another
\* call was in the account: in a round the copy decides, and only an answer to
\* the loop's own await changes the registry (runtime.py, _sync_accounts_once).
THEOREM SyncSparesHealthyCorrect == Spec => SyncSparesHealthy
<1> DEFINE Spares == \A a \in Account :
             HasItsClient(a) /\ registry'[a] # registry[a] /\ call'[Sync] # call[Sync]
               => a \in edited \cup raced'
<1>1. ASSUME AInv, PInv, [Next]_vars PROVE Spares
  <2> SUFFICES ASSUME NEW a \in Account, HasItsClient(a), registry'[a] # registry[a],
                      call'[Sync] # call[Sync]
               PROVE  a \in edited \cup raced'
    OBVIOUS
  <2>1. ~UNCHANGED accountVars
    BY DEF accountVars
  <2>2. PICK p \in Callers : CallStep(p)
    BY <1>1, <2>1, NextPInv
  <2>3. p = Sync
    BY <1>1, <2>2, CallEffects, Distinct
  <2>4. call[Sync] # Idle /\ call[Sync].acct = a /\ raced \subseteq raced'
    BY <1>1, <2>2, <2>3, CallEffects
  <2>5. CallOK(call[Sync]) /\ CopiesOK /\ sync.stage = "round"
    BY <1>1, <2>4, Distinct DEF AInv, PInv, TasksOK
  <2>6. CASE call[Sync].stage = "starting"
    BY <2>4, <2>5, <2>6 DEF CallOK, HasItsClient
  <2>7. CASE call[Sync].stage = "closing"
    <3>1. table[a].active /\ table[a].session = refs[a]
      BY DEF HasItsClient
    <3> QED
      BY <2>4, <2>5, <2>7, <3>1 DEF CopiesOK, Copying
  <2> QED
    BY <1>1, <2>4, <2>6, <2>7, CallTypes, Distinct
<1>2. (AInv /\ PInv) /\ [Next]_vars => [Spares]_vars
  BY <1>1
<1>3. Spec => [][Spares]_vars
  BY <1>2, ProcessInvariant, PTL DEF Spec
<1> QED
  BY <1>3 DEF SyncSparesHealthy
===============================================================================
