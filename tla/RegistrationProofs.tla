------------------------- MODULE RegistrationProofs -------------------------
(***************************************************************************)
(* Proofs about Registration, for any number of services, clients,         *)
(* requests in flight, calls and failures.  TypeOK and RegisteredBeats are *)
(* inductive together: the first needs the second where a heartbeat copies *)
(* server_, the second needs the first where a value is written.           *)
(***************************************************************************)
EXTENDS Registration, TLAPS

Inv == TypeOK /\ RegisteredBeats

\* What a step may do to the requests in flight and to the threads.
LinkOK ==
  /\ flight \in [Slots -> Request \cup {NoRequest}]
  /\ node \in [Services -> Content]
  /\ fallbacks \in [Services -> Content \cup {NoRequest}]
ThreadOK ==
  /\ owner \in Threads \cup {NoThread}
  /\ pc \in [Clients -> {"idle", "register_reply", "unregister_reply", "unregister", "destroy"}]
  /\ todo \in [Clients -> SUBSET Services]
  /\ gone \in [Clients -> SUBSET Services]
CountOK == calls \in Nat /\ failures \in Nat
LocalOK ==
  /\ servers \in [Services -> Content]
  /\ timer \in SUBSET Services
  /\ beat \in Services \cup {NoService}
  /\ beat_value \in IF beat = NoService THEN {NoServer} ELSE Values
  /\ RegisteredBeats

\* The inductive invariant by the part of the state it speaks of.
LEMMA InvParts == Inv <=> LinkOK /\ ThreadOK /\ CountOK /\ LocalOK
BY DEF Inv, TypeOK, LinkOK, ThreadOK, CountOK, LocalOK

\* The KVClient sends only well-formed requests.
LEMMA SendType ==
  ASSUME LinkOK, NEW s \in Services, NEW v \in Content, NEW w \in Clients \cup {NoThread},
         Send(s, v, w)
  PROVE  flight' \in [Slots -> Request \cup {NoRequest}]
<1>1. [service |-> s, value |-> v, waiter |-> w, phase |-> "sent"] \in Request
  BY DEF Request
<1>2. QED BY <1>1 DEF Send, LinkOK

\* A call of the Router counts itself and nothing else.
LEMMA CallType ==
  ASSUME CountOK, NEW c, NEW op, Call(c, op)
  PROVE  calls' \in Nat /\ calls' = calls + 1 /\ LockFree
BY DEF CountOK, Call

\* Keeping a server, new or known, leaves it with exactly one heartbeat ahead.
LEMMA KeepLocal ==
  ASSUME LocalOK, NEW s \in Services, NEW v \in Values, Keep(s, v), UNCHANGED <<beat, beat_value>>
  PROVE  LocalOK'
<1>1. NoServer \notin Values /\ NoService \notin Services
  BY ConstantsAssumption
<1>2. CASE servers[s] = NoServer
  <2>1. servers' = [servers EXCEPT ![s] = v] /\ timer' = timer \cup {s}
    BY <1>2 DEF Keep, LocalOK
  <2>2. beat # s
    BY <1>2 DEF LocalOK, RegisteredBeats
  <2>3. QED BY <1>1, <2>1, <2>2 DEF LocalOK, RegisteredBeats, Content
<1>3. CASE servers[s] # NoServer
  <2>1. servers' = servers /\ timer' = timer
    BY <1>3 DEF Keep, LocalOK
  <2>2. QED BY <2>1 DEF LocalOK, RegisteredBeats
<1>4. QED BY <1>2, <1>3

\* A step that leaves servers_, the timers and the heartbeat alone.
LEMMA SameLocal == ASSUME LocalOK, UNCHANGED local PROVE LocalOK'
BY DEF LocalOK, RegisteredBeats, local

\* A step that leaves the threads alone.
LEMMA SameThreads == ASSUME ThreadOK, UNCHANGED ctl PROVE ThreadOK'
BY DEF ThreadOK, ctl

\* The answer of a request moves only the client that waits for it.
LEMMA ResumeType ==
  ASSUME ThreadOK, NEW r \in Request, NEW ok \in BOOLEAN, Resume(r, ok)
  PROVE  ThreadOK'
<1>1. r.service \in Services /\ r.waiter \in Clients \cup {NoThread}
  BY DEF Request
<1>2. CASE r.waiter = NoThread
  BY <1>2, SameThreads DEF Resume
<1>3. CASE r.waiter # NoThread /\ ok /\ r.value = NoServer
  BY <1>1, <1>3 DEF Resume, ThreadOK
<1>4. CASE r.waiter # NoThread /\ ~(ok /\ r.value = NoServer)
  BY <1>1, <1>4 DEF Resume, ThreadOK
<1>5. QED BY <1>2, <1>3, <1>4

\* Each call of the Router preserves the invariant.
LEMMA CallStep ==
  ASSUME Inv, NEW c \in Clients, ClientCall(c)
  PROVE  Inv'
<1>1. LinkOK /\ ThreadOK /\ CountOK /\ LocalOK
  BY InvParts
<1>2. NoServer \in Content /\ \A v \in Values : v \in Content
  BY DEF Content
<1>3. c \in Threads
  BY DEF Threads
<1>4. ASSUME NEW s \in Services, NEW v \in Values, RegisterServer(c, s, v) PROVE Inv'
  <2>1. LinkOK'
    BY <1>1, <1>2, <1>4, SendType DEF RegisterServer, LinkOK
  <2>2. ThreadOK'
    BY <1>1, <1>4, SameThreads DEF RegisterServer
  <2>3. CountOK'
    BY <1>1, <1>4, CallType DEF RegisterServer, CountOK
  <2>4. LocalOK'
    BY <1>1, <1>4, KeepLocal DEF RegisterServer
  <2>5. QED BY <2>1, <2>2, <2>3, <2>4, InvParts
       DEF Inv, TypeOK, LinkOK, ThreadOK, CountOK, LocalOK
<1>5. ASSUME NEW s \in Services, NEW v \in Values, RegisterServerSync(c, s, v) PROVE Inv'
  <2>1. LinkOK'
    BY <1>1, <1>2, <1>5, SendType DEF RegisterServerSync, LinkOK
  <2>2. ThreadOK'
    BY <1>1, <1>3, <1>5 DEF RegisterServerSync, ThreadOK
  <2>3. CountOK'
    BY <1>1, <1>5, CallType DEF RegisterServerSync, CountOK
  <2>4. LocalOK'
    BY <1>1, <1>5, KeepLocal DEF RegisterServerSync
  <2>5. QED BY <2>1, <2>2, <2>3, <2>4 DEF Inv, TypeOK, LinkOK, ThreadOK, CountOK, LocalOK
<1>6. ASSUME NEW s \in Services, NEW v \in Values, SetWeight(c, s, v) PROVE Inv'
  <2>1. LinkOK' /\ ThreadOK'
    BY <1>1, <1>6, SameThreads DEF SetWeight, LinkOK
  <2>2. CountOK'
    BY <1>1, <1>6, CallType DEF SetWeight, CountOK
  <2>3. LocalOK'
    BY <1>1, <1>6, ConstantsAssumption DEF SetWeight, LocalOK, RegisteredBeats, Content
  <2>4. QED BY <2>1, <2>2, <2>3 DEF Inv, TypeOK, LinkOK, ThreadOK, CountOK, LocalOK
<1>7. ASSUME NEW s \in Services, UnregisterServerSync(c, s) PROVE Inv'
  <2>1. LinkOK'
    BY <1>1, <1>2, <1>7, SendType DEF UnregisterServerSync, LinkOK
  <2>2. ThreadOK'
    BY <1>1, <1>3, <1>7 DEF UnregisterServerSync, ThreadOK
  <2>3. CountOK'
    BY <1>1, <1>7, CallType DEF UnregisterServerSync, CountOK
  <2>4. LocalOK'
    BY <1>1, <1>7, SameLocal DEF UnregisterServerSync
  <2>5. QED BY <2>1, <2>2, <2>3, <2>4 DEF Inv, TypeOK, LinkOK, ThreadOK, CountOK, LocalOK
<1>8. ASSUME NEW ss \in SUBSET Services, NEW op, Call(c, op), UnregisterServers(c, ss) PROVE Inv'
  <2>1. LinkOK'
    BY <1>1, <1>8 DEF UnregisterServers, LinkOK
  <2>2. ThreadOK'
    BY <1>1, <1>3, <1>8 DEF UnregisterServers, ThreadOK
  <2>3. CountOK'
    BY <1>1, <1>8, CallType DEF UnregisterServers, CountOK
  <2>4. LocalOK'
    BY <1>1, <1>8, SameLocal DEF UnregisterServers
  <2>5. QED BY <2>1, <2>2, <2>3, <2>4 DEF Inv, TypeOK, LinkOK, ThreadOK, CountOK, LocalOK
<1>9. ASSUME NEW s \in Services, UnregisterServer(c, s) PROVE Inv'
  BY <1>8, <1>9 DEF UnregisterServer
<1>10. CASE UnregisterAll(c)
  <2>1. {s \in Services : servers[s] # NoServer} \in SUBSET Services
    OBVIOUS
  <2>2. QED BY <1>8, <1>10, <2>1 DEF UnregisterAll
<1>11. QED BY <1>4, <1>5, <1>6, <1>7, <1>9, <1>10 DEF ClientCall

\* The steps of a client inside unregisterServer, unregisterAll and the
\* destructor of ServerWithHeartbeat preserve the invariant.
LEMMA InsideStep ==
  ASSUME Inv, NEW c \in Clients, ClientStep(c)
  PROVE  Inv'
<1>1. LinkOK /\ ThreadOK /\ CountOK /\ LocalOK
  BY InvParts
<1>2. CASE DeleteNode(c)
  <2>1. LocalOK' /\ CountOK'
    BY <1>1, <1>2, SameLocal DEF DeleteNode, CountOK
  <2>2. ASSUME NEW s \in todo[c], Send(s, NoServer, NoThread),
               todo' = [todo EXCEPT ![c] = @ \ {s}],
               gone' = [gone EXCEPT ![c] = @ \cup {s}], UNCHANGED pc
        PROVE  LinkOK' /\ ThreadOK'
    <3>1. s \in Services
      BY <1>1 DEF ThreadOK
    <3>2. LinkOK'
      BY <1>1, <1>2, <2>2, <3>1, SendType DEF DeleteNode, LinkOK, Content
    <3>3. QED BY <1>1, <1>2, <2>2, <3>1, <3>2 DEF DeleteNode, ThreadOK
  <2>3. ASSUME pc' = [pc EXCEPT ![c] = "destroy"], UNCHANGED <<todo, gone, flight>>
        PROVE  LinkOK' /\ ThreadOK'
    <3>1. UNCHANGED <<owner, node, fallbacks>>
      BY <1>2 DEF DeleteNode
    <3>2. QED BY <1>1, <2>3, <3>1 DEF LinkOK, ThreadOK
  <2>4. QED BY <1>2, <2>1, <2>2, <2>3
       DEF DeleteNode, Inv, TypeOK, LinkOK, ThreadOK, CountOK, LocalOK
<1>3. CASE DestroyServer(c)
  <2>1. LinkOK' /\ CountOK'
    BY <1>1, <1>3 DEF DestroyServer, LinkOK, CountOK
  <2>2. ASSUME NEW s \in gone[c], beat = NoService,
               servers' = [servers EXCEPT ![s] = NoServer], timer' = timer \ {s},
               gone' = [gone EXCEPT ![c] = @ \ {s}], UNCHANGED <<owner, pc>>
        PROVE  ThreadOK' /\ LocalOK'
    <3>1. s \in Services
      BY <1>1 DEF ThreadOK
    <3>2. ThreadOK'
      BY <1>1, <1>3, <2>2, <3>1 DEF DestroyServer, ThreadOK
    <3>3. NoService \notin Services
      BY ConstantsAssumption
    <3>4. QED BY <1>1, <1>3, <2>2, <3>1, <3>2, <3>3
         DEF DestroyServer, LocalOK, RegisteredBeats, Content
  <2>3. ASSUME owner' = NoThread, pc' = [pc EXCEPT ![c] = "idle"],
               UNCHANGED <<servers, timer, gone>>
        PROVE  ThreadOK' /\ LocalOK'
    <3>1. UNCHANGED <<beat, beat_value, todo>>
      BY <1>3 DEF DestroyServer
    <3>2. ThreadOK'
      BY <1>1, <2>3, <3>1 DEF ThreadOK
    <3>3. QED BY <1>1, <2>3, <3>1, <3>2 DEF LocalOK, RegisteredBeats
  <2>4. QED BY <1>3, <2>1, <2>2, <2>3
       DEF DestroyServer, Inv, TypeOK, LinkOK, ThreadOK, CountOK, LocalOK
<1>4. QED BY <1>2, <1>3 DEF ClientStep

\* The steps of the event base thread preserve the invariant.
LEMMA EventBaseStep ==
  ASSUME Inv, (\E s \in Services : EvbStep(s)) \/ HeartbeatRegister
  PROVE  Inv'
<1>1. LinkOK /\ ThreadOK /\ CountOK /\ LocalOK
  BY InvParts
<1>2. NoServer \notin Values /\ NoService \notin Services
  BY ConstantsAssumption
<1>3. ASSUME NEW s \in Services, Heartbeat(s) PROVE Inv'
  <2>1. servers[s] \in Values
    BY <1>1, <1>3 DEF Heartbeat, LocalOK, RegisteredBeats, Content
  <2>2. LocalOK'
    BY <1>1, <1>2, <1>3, <2>1 DEF Heartbeat, LocalOK, RegisteredBeats
  <2>3. LinkOK' /\ ThreadOK' /\ CountOK'
    BY <1>1, <1>3, SameThreads DEF Heartbeat, LinkOK, CountOK
  <2>4. QED BY <2>2, <2>3 DEF Inv, TypeOK, LinkOK, ThreadOK, CountOK, LocalOK
<1>4. ASSUME NEW s \in Services, Fallback(s) PROVE Inv'
  <2>1. fallbacks[s] \in Content
    BY <1>1, <1>4 DEF Fallback, LinkOK
  <2>2. flight' \in [Slots -> Request \cup {NoRequest}]
    BY <1>1, <1>4, <2>1, SendType DEF Fallback
  <2>3. LinkOK'
    BY <1>1, <1>4, <2>2 DEF Fallback, LinkOK
  <2>4. LocalOK' /\ ThreadOK' /\ CountOK'
    BY <1>1, <1>4, SameLocal, SameThreads DEF Fallback, CountOK
  <2>5. QED BY <2>3, <2>4 DEF Inv, TypeOK, LinkOK, ThreadOK, CountOK, LocalOK
<1>5. CASE HeartbeatRegister
  <2>1. beat \in Services /\ beat_value \in Values /\ servers[beat] # NoServer
    BY <1>1, <1>5 DEF HeartbeatRegister, LocalOK, RegisteredBeats
  <2>2. servers' = servers
    BY <1>1, <1>5, <2>1 DEF HeartbeatRegister, LocalOK
  <2>3. LocalOK'
    BY <1>1, <1>2, <1>5, <2>1, <2>2 DEF HeartbeatRegister, LocalOK, RegisteredBeats
  <2>4. LinkOK'
    BY <1>1, <1>5, <2>1, SendType DEF HeartbeatRegister, LinkOK, Content
  <2>5. ThreadOK' /\ CountOK'
    BY <1>1, <1>5, SameThreads DEF HeartbeatRegister, CountOK
  <2>6. QED BY <2>3, <2>4, <2>5 DEF Inv, TypeOK, LinkOK, ThreadOK, CountOK, LocalOK
<1>6. QED BY <1>3, <1>4, <1>5 DEF EvbStep

\* Whatever consul and the network do to a request preserves the invariant.
LEMMA LinkStep ==
  ASSUME Inv, NEW i \in Slots, ConsulStep(i)
  PROVE  Inv'
<1>1. LinkOK /\ ThreadOK /\ CountOK /\ LocalOK
  BY InvParts
<1>2. flight[i] \in Request
  BY <1>1 DEF ConsulStep, Apply, Lose, Succeed, Fail, LinkOK
<1>3. flight[i].service \in Services /\ flight[i].value \in Content
  BY <1>2 DEF Request
<1>4. LocalOK'
  BY <1>1, SameLocal DEF ConsulStep, Apply, Lose, Succeed, Fail
<1>5. CASE Apply(i)
  <2>1. [flight[i] EXCEPT !.phase = "applied"] \in Request
    BY <1>2 DEF Request
  <2>2. LinkOK'
    BY <1>1, <1>3, <1>5, <2>1 DEF Apply, LinkOK
  <2>3. ThreadOK' /\ CountOK'
    BY <1>1, <1>5, SameThreads DEF Apply, CountOK
  <2>4. QED BY <1>4, <2>2, <2>3 DEF Inv, TypeOK, LinkOK, ThreadOK, CountOK, LocalOK
<1>6. CASE Lose(i)
  <2>1. LinkOK' /\ ThreadOK' /\ CountOK'
    BY <1>1, <1>6, SameThreads DEF Lose, LinkOK, CountOK
  <2>2. QED BY <1>4, <2>1 DEF Inv, TypeOK, LinkOK, ThreadOK, CountOK, LocalOK
<1>7. CASE Succeed(i)
  <2>1. ThreadOK'
    BY <1>1, <1>2, <1>7, ResumeType DEF Succeed
  <2>2. LinkOK' /\ CountOK'
    BY <1>1, <1>7 DEF Succeed, LinkOK, CountOK
  <2>3. QED BY <1>4, <2>1, <2>2 DEF Inv, TypeOK, LinkOK, ThreadOK, CountOK, LocalOK
<1>8. CASE Fail(i)
  <2>1. [flight[i] EXCEPT !.phase = "late", !.waiter = NoThread] \in Request
    BY <1>2 DEF Request
  <2>2. LinkOK'
    BY <1>1, <1>3, <1>8, <2>1 DEF Fail, LinkOK
  <2>3. ThreadOK'
    BY <1>1, <1>2, <1>8, ResumeType DEF Fail
  <2>4. CountOK'
    BY <1>1, <1>8 DEF Fail, CountOK
  <2>5. QED BY <1>4, <2>2, <2>3, <2>4 DEF Inv, TypeOK, LinkOK, ThreadOK, CountOK, LocalOK
<1>9. QED BY <1>5, <1>6, <1>7, <1>8 DEF ConsulStep

\* The invariant holds in every reachable state.
THEOREM Invariance == Spec => []Inv
<1>1. Init => Inv
  BY ConstantsAssumption DEF Init, Inv, TypeOK, RegisteredBeats, Content
<1>2. Inv /\ [Next]_vars => Inv'
  <2>1. SUFFICES ASSUME Inv, [Next]_vars PROVE Inv'
    OBVIOUS
  <2>2. CASE UNCHANGED vars
    BY <2>1, <2>2 DEF vars, local, ctl, Inv, TypeOK, RegisteredBeats
  <2>3. CASE Next
    BY <2>1, <2>3, CallStep, InsideStep, EventBaseStep, LinkStep DEF Next
  <2>4. QED BY <2>1, <2>2, <2>3
<1>3. QED BY <1>1, <1>2, PTL DEF Spec

\* A registered server always has exactly one heartbeat ahead of it, and no
\* heartbeat belongs to a destroyed one, however calls, heartbeats, answers and
\* fallbacks interleave (service_info_puller.cc:9, service_info_puller.h:114).
THEOREM AlwaysBeats == Spec => []RegisteredBeats
<1>1. Inv => RegisteredBeats
  BY DEF Inv
<1>2. QED BY <1>1, Invariance, PTL

\* Every variable keeps its type; in particular a running heartbeat carries the
\* settings of a server that exists.
THEOREM RegistrationTypes == Spec => []TypeOK
<1>1. Inv => TypeOK
  BY DEF Inv
<1>2. QED BY <1>1, Invariance, PTL

\* No heartbeat brings an unregistered server back into servers_.
THEOREM NeverRevives == Spec => HeartbeatNeverRevives
<1> DEFINE Step ==
             \A s \in Services : servers[s] = NoServer /\ servers'[s] # NoServer => calls' = calls + 1
<1>1. Inv /\ [Next]_vars => [Step]_vars
  <2>1. SUFFICES ASSUME Inv, Next, NEW s \in Services,
                        servers[s] = NoServer, servers'[s] # NoServer
                 PROVE  calls' = calls + 1
    OBVIOUS
  <2>2. servers \in [Services -> Content]
    BY <2>1 DEF Inv, TypeOK
  <2>3. ASSUME NEW c \in Clients, ClientCall(c) PROVE calls' = calls + 1
    BY <2>3 DEF ClientCall, RegisterServer, RegisterServerSync, SetWeight, UnregisterServer,
                UnregisterServerSync, UnregisterAll, Call
  <2>4. ASSUME NEW c \in Clients, ClientStep(c) PROVE FALSE
    BY <2>1, <2>2, <2>4 DEF ClientStep, DeleteNode, DestroyServer, local
  <2>5. ASSUME NEW q \in Services, EvbStep(q) PROVE FALSE
    BY <2>1, <2>5 DEF EvbStep, Heartbeat, Fallback, local
  <2>6. CASE HeartbeatRegister
    <3>1. beat \in Services /\ servers[beat] # NoServer
      BY <2>1, <2>6 DEF HeartbeatRegister, Inv, TypeOK, RegisteredBeats
    <3>2. servers' = servers
      BY <2>2, <2>6, <3>1 DEF HeartbeatRegister
    <3>3. QED BY <2>1, <3>2
  <2>7. ASSUME NEW i \in Slots, ConsulStep(i) PROVE FALSE
    BY <2>1, <2>7 DEF ConsulStep, Apply, Lose, Succeed, Fail, local
  <2>8. QED BY <2>1, <2>3, <2>4, <2>5, <2>6, <2>7 DEF Next
<1>2. QED BY <1>1, Invariance, PTL DEF Spec, HeartbeatNeverRevives
=============================================================================
