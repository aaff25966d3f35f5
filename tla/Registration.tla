---------------------------- MODULE Registration ----------------------------
(***************************************************************************)
(* How a server of this process gets into consul, stays there and leaves:  *)
(* Router::servers_ with its lock, the ServerWithHeartbeat objects in it,  *)
(* the one event base thread that runs their timers, and ConsulRegistry,   *)
(* which sends the requests and keeps a fallback for the ones that fail.   *)
(*                                                                         *)
(* Every request has a TCP connection of its own (HttpConnection::call),   *)
(* so consul may apply them in any order; a request may fail before or     *)
(* after consul has applied it, and a request that timed out may still be  *)
(* applied later.                                                          *)
(***************************************************************************)
EXTENDS Integers

CONSTANTS
  Services,     \* services registered by this process, one node each
  Values,       \* what a Server entity says of a node (status, weight, ...)
  Clients,      \* threads that call the Router
  Ops,          \* the operations they call
  Slots,        \* bound: requests in flight
  MaxCalls,     \* bound: calls of the Router
  MaxFailures,  \* bound: requests that fail
  NoServer, NoService, NoRequest, NoThread, Evb

Threads == Clients \cup {Evb}
Content == Values \cup {NoServer}

\* A write of a node: value NoServer deletes it.  The sync variants name the
\* client that waits for the answer.
Request == [service : Services, value : Content, waiter : Clients \cup {NoThread},
            phase : {"sent", "applied", "late"}]

ASSUME ConstantsAssumption ==
  /\ NoServer \notin Values /\ NoService \notin Services
  /\ Evb \notin Clients /\ NoThread \notin Threads
  /\ NoRequest \notin Request
  /\ Ops \subseteq {"register", "register_sync", "unregister", "unregister_sync",
                    "unregister_all", "set_weight"}
  /\ MaxCalls \in Nat /\ MaxFailures \in Nat

VARIABLES
  servers,    \* servers_: server_ of the ServerWithHeartbeat, or NoServer
  timer,      \* services whose heartbeat timeout is scheduled
  owner,      \* thread that blocks inside servers_.withWLock
  beat,       \* service whose heartbeat callback the event base runs, or NoService
  beat_value, \* the copy of server_ that callback passes to registerServer
  pc,         \* of each client
  todo, gone, \* of each client: servers to delete in consul, to destroy
  flight,     \* requests in flight
  node,       \* consul: content of each node
  fallbacks,  \* fallbacks_ of each registry: content to write again, or NoRequest
  calls, failures

local == <<servers, timer, beat, beat_value>>
ctl   == <<owner, pc, todo, gone>>
vars  == <<local, ctl, flight, node, fallbacks, calls, failures>>

TypeOK ==
  /\ servers \in [Services -> Content]
  /\ timer \in SUBSET Services
  /\ owner \in Threads \cup {NoThread}
  /\ beat \in Services \cup {NoService}
  /\ beat_value \in IF beat = NoService THEN {NoServer} ELSE Values
  /\ pc \in [Clients -> {"idle", "register_reply", "unregister_reply", "unregister", "destroy"}]
  /\ todo \in [Clients -> SUBSET Services]
  /\ gone \in [Clients -> SUBSET Services]
  /\ flight \in [Slots -> Request \cup {NoRequest}]
  /\ node \in [Services -> Content]
  /\ fallbacks \in [Services -> Content \cup {NoRequest}]
  /\ calls \in Nat /\ failures \in Nat

Init ==
  /\ servers = [s \in Services |-> NoServer]
  /\ timer = {}
  /\ owner = NoThread
  /\ beat = NoService /\ beat_value = NoServer
  /\ pc = [c \in Clients |-> "idle"]
  /\ todo = [c \in Clients |-> {}]
  /\ gone = [c \in Clients |-> {}]
  /\ flight = [i \in Slots |-> NoRequest]
  /\ node = [s \in Services |-> NoServer]
  /\ fallbacks = [s \in Services |-> NoRequest]
  /\ calls = 0 /\ failures = 0

-----------------------------------------------------------------------------
LockFree == owner = NoThread

\* setValue or deleteValue of the KVClient: the request is on its way.
Send(s, v, waiter) ==
  \E i \in Slots :
    /\ flight[i] = NoRequest
    /\ \A j \in Slots : j < i => flight[j] # NoRequest
    /\ flight' = [flight EXCEPT ![i] =
         [service |-> s, value |-> v, waiter |-> waiter, phase |-> "sent"]]

\* A server that is not in servers_ yet gets a ServerWithHeartbeat, which
\* schedules its heartbeat; one that is there is kept as it is.
Keep(s, v) ==
  /\ servers' = [servers EXCEPT ![s] = IF @ = NoServer THEN v ELSE @]
  /\ timer' = IF servers[s] = NoServer THEN timer \cup {s} ELSE timer

Call(c, op) ==
  /\ op \in Ops
  /\ pc[c] = "idle"
  /\ calls < MaxCalls
  /\ calls' = calls + 1
  /\ LockFree

-----------------------------------------------------------------------------
(* Calls of the Router *)

RegisterServer(c, s, v) ==
  /\ Call(c, "register")
  /\ Keep(s, v)
  /\ Send(s, v, NoThread)
  /\ UNCHANGED <<ctl, beat, beat_value, node, fallbacks, failures>>

\* The lock is held until the answer is there.
RegisterServerSync(c, s, v) ==
  /\ Call(c, "register_sync")
  /\ Keep(s, v)
  /\ Send(s, v, c)
  /\ owner' = c
  /\ pc' = [pc EXCEPT ![c] = "register_reply"]
  /\ UNCHANGED <<beat, beat_value, todo, gone, node, fallbacks, failures>>

UnregisterServerSync(c, s) ==
  /\ Call(c, "unregister_sync")
  /\ servers[s] # NoServer
  /\ Send(s, NoServer, c)
  /\ owner' = c
  /\ pc' = [pc EXCEPT ![c] = "unregister_reply"]
  /\ UNCHANGED <<local, todo, gone, node, fallbacks, failures>>

\* unregisterServer and unregisterAll: delete the nodes, then destroy the objects.
UnregisterServers(c, ss) ==
  /\ ss # {}
  /\ owner' = c
  /\ pc' = [pc EXCEPT ![c] = "unregister"]
  /\ todo' = [todo EXCEPT ![c] = ss]
  /\ UNCHANGED <<local, gone, flight, node, fallbacks, failures>>

UnregisterServer(c, s) ==
  /\ Call(c, "unregister")
  /\ servers[s] # NoServer
  /\ UnregisterServers(c, {s})

UnregisterAll(c) ==
  /\ Call(c, "unregister_all")
  /\ UnregisterServers(c, {s \in Services : servers[s] # NoServer})

SetWeight(c, s, v) ==
  /\ Call(c, "set_weight")
  /\ servers[s] # NoServer
  /\ servers' = [servers EXCEPT ![s] = v]
  /\ UNCHANGED <<ctl, timer, beat, beat_value, flight, node, fallbacks, failures>>

DeleteNode(c) ==
  /\ pc[c] = "unregister"
  /\ \/ \E s \in todo[c] :
          /\ Send(s, NoServer, NoThread)
          /\ todo' = [todo EXCEPT ![c] = @ \ {s}]
          /\ gone' = [gone EXCEPT ![c] = @ \cup {s}]
          /\ UNCHANGED pc
     \/ /\ todo[c] = {}
        /\ pc' = [pc EXCEPT ![c] = "destroy"]
        /\ UNCHANGED <<todo, gone, flight>>
  /\ UNCHANGED <<local, owner, node, fallbacks, calls, failures>>

\* Faulty: the timeout is left alone, its callback still refers to the object.
DestroyServerKeepsTimer(c) ==
  /\ pc[c] = "destroy"
  /\ \/ \E s \in gone[c] :
          /\ beat = NoService
          /\ servers' = [servers EXCEPT ![s] = NoServer]
          /\ gone' = [gone EXCEPT ![c] = @ \ {s}]
          /\ UNCHANGED <<timer, owner, pc>>
     \/ /\ gone[c] = {}
        /\ owner' = NoThread
        /\ pc' = [pc EXCEPT ![c] = "idle"]
        /\ UNCHANGED <<servers, timer, gone>>
  /\ UNCHANGED <<beat, beat_value, todo, flight, node, fallbacks, calls, failures>>

\* Faulty: the destructor does not wait for the event base thread.
DestroyServerUnsynced(c) ==
  /\ pc[c] = "destroy"
  /\ \/ \E s \in gone[c] :
          /\ servers' = [servers EXCEPT ![s] = NoServer]
          /\ timer' = timer \ {s}
          /\ gone' = [gone EXCEPT ![c] = @ \ {s}]
          /\ UNCHANGED <<owner, pc>>
     \/ /\ gone[c] = {}
        /\ owner' = NoThread
        /\ pc' = [pc EXCEPT ![c] = "idle"]
        /\ UNCHANGED <<servers, timer, gone>>
  /\ UNCHANGED <<beat, beat_value, todo, flight, node, fallbacks, calls, failures>>

\* ~ServerWithHeartbeat waits, with servers_ locked, until the event base thread
\* has cancelled the timeout.
DestroyServer(c) ==
  /\ pc[c] = "destroy"
  /\ \/ \E s \in gone[c] :
          /\ beat = NoService
          /\ servers' = [servers EXCEPT ![s] = NoServer]
          /\ timer' = timer \ {s}
          /\ gone' = [gone EXCEPT ![c] = @ \ {s}]
          /\ UNCHANGED <<owner, pc>>
     \/ /\ gone[c] = {}
        /\ owner' = NoThread
        /\ pc' = [pc EXCEPT ![c] = "idle"]
        /\ UNCHANGED <<servers, timer, gone>>
  /\ UNCHANGED <<beat, beat_value, todo, flight, node, fallbacks, calls, failures>>

-----------------------------------------------------------------------------
(* The event base thread *)

\* The timeout of a heartbeat expires: its callback copies server_ ...
Heartbeat(s) ==
  /\ beat = NoService
  /\ s \in timer
  /\ beat' = s /\ beat_value' = servers[s]
  /\ timer' = timer \ {s}
  /\ UNCHANGED <<servers, ctl, flight, node, fallbacks, calls, failures>>

\* Faulty: the timeout is not scheduled again.
HeartbeatRegisterOnce ==
  /\ beat # NoService
  /\ LockFree
  /\ servers' = [servers EXCEPT ![beat] = IF @ = NoServer THEN beat_value ELSE @]
  /\ timer' = timer
  /\ Send(beat, beat_value, NoThread)
  /\ beat' = NoService /\ beat_value' = NoServer
  /\ UNCHANGED <<ctl, node, fallbacks, calls, failures>>

\* ... registers it like any client, and schedules the next heartbeat.
HeartbeatRegister ==
  /\ beat # NoService
  /\ LockFree
  /\ servers' = [servers EXCEPT ![beat] = IF @ = NoServer THEN beat_value ELSE @]
  /\ timer' = timer \cup {beat}
  /\ Send(beat, beat_value, NoThread)
  /\ beat' = NoService /\ beat_value' = NoServer
  /\ UNCHANGED <<ctl, node, fallbacks, calls, failures>>

\* The fallback timer of a registry: take the failed write and send it again.
Fallback(s) ==
  /\ beat = NoService
  /\ fallbacks[s] # NoRequest
  /\ Send(s, fallbacks[s], NoThread)
  /\ fallbacks' = [fallbacks EXCEPT ![s] = NoRequest]
  /\ UNCHANGED <<local, ctl, node, calls, failures>>

-----------------------------------------------------------------------------
(* consul and the answers *)

\* consul writes or deletes the node.
Apply(i) ==
  /\ flight[i] # NoRequest
  /\ \/ /\ flight[i].phase = "sent"
        /\ flight' = [flight EXCEPT ![i].phase = "applied"]
     \/ /\ flight[i].phase = "late"
        /\ flight' = [flight EXCEPT ![i] = NoRequest]
  /\ node' = [node EXCEPT ![flight[i].service] = flight[i].value]
  /\ UNCHANGED <<local, ctl, fallbacks, calls, failures>>

\* A request that nobody waits for any more never reaches consul.
Lose(i) ==
  /\ flight[i] # NoRequest
  /\ flight[i].phase = "late"
  /\ flight' = [flight EXCEPT ![i] = NoRequest]
  /\ UNCHANGED <<local, ctl, node, fallbacks, calls, failures>>

\* The waiting client of a sync call goes on: a registration is over, so is a
\* deregistration that failed; one that succeeded destroys its server.
Resume(r, ok) ==
  IF r.waiter = NoThread THEN UNCHANGED ctl
  ELSE IF ok /\ r.value = NoServer
    THEN /\ pc' = [pc EXCEPT ![r.waiter] = "destroy"]
         /\ gone' = [gone EXCEPT ![r.waiter] = {r.service}]
         /\ UNCHANGED <<owner, todo>>
    ELSE /\ pc' = [pc EXCEPT ![r.waiter] = "idle"]
         /\ owner' = NoThread
         /\ UNCHANGED <<todo, gone>>

\* The callback of a request that consul has answered with true.
Succeed(i) ==
  /\ flight[i] # NoRequest
  /\ flight[i].phase = "applied"
  /\ flight' = [flight EXCEPT ![i] = NoRequest]
  /\ Resume(flight[i], TRUE)
  /\ UNCHANGED <<local, node, fallbacks, calls, failures>>

\* The callback of a request that timed out, was refused or got another answer:
\* its write becomes the fallback of the node, whatever was there.
Fail(i) ==
  /\ flight[i] # NoRequest
  /\ flight[i].phase \in {"sent", "applied"}
  /\ failures < MaxFailures
  /\ failures' = failures + 1
  /\ flight' = [flight EXCEPT ![i] =
       IF @.phase = "sent" THEN [@ EXCEPT !.phase = "late", !.waiter = NoThread] ELSE NoRequest]
  /\ fallbacks' = [fallbacks EXCEPT ![flight[i].service] = flight[i].value]
  /\ Resume(flight[i], FALSE)
  /\ UNCHANGED <<local, node, calls>>

-----------------------------------------------------------------------------
ClientCall(c) ==
  \/ \E s \in Services, v \in Values :
       RegisterServer(c, s, v) \/ RegisterServerSync(c, s, v) \/ SetWeight(c, s, v)
  \/ \E s \in Services : UnregisterServer(c, s) \/ UnregisterServerSync(c, s)
  \/ UnregisterAll(c)

ClientStep(c) == DeleteNode(c) \/ DestroyServer(c)

EvbStep(s) == Heartbeat(s) \/ Fallback(s)

ConsulStep(i) == Apply(i) \/ Lose(i) \/ Succeed(i) \/ Fail(i)

Next ==
  \/ \E c \in Clients : ClientCall(c) \/ ClientStep(c)
  \/ \E s \in Services : EvbStep(s)
  \/ HeartbeatRegister
  \/ \E i \in Slots : ConsulStep(i)

Spec == Init /\ [][Next]_vars

\* Every timer that expires is served, a thread that waits for a lock or for a
\* free slot gets it, and every request is answered or times out (500 ms).
Fairness ==
  /\ \A c \in Clients : SF_vars(ClientStep(c))
  /\ \A s \in Services : SF_vars(Heartbeat(s)) /\ SF_vars(Fallback(s))
  /\ SF_vars(HeartbeatRegister)
  /\ \A i \in Slots : WF_vars(ConsulStep(i))

FairSpec == Spec /\ Fairness

-----------------------------------------------------------------------------
(* Properties *)

\* A server in servers_ always has exactly one heartbeat ahead of it, scheduled
\* or running, and a heartbeat never belongs to a server that was destroyed
\* (~ServerWithHeartbeat, service_info_puller.h:114).
RegisteredBeats ==
  /\ \A s \in Services : servers[s] # NoServer <=> s \in timer \/ beat = s
  /\ beat \notin timer

\* A server enters servers_ only through a call of the Router: a heartbeat that
\* has been waiting for the lock never brings an unregistered server back,
\* although Router::registerServer creates what it does not find.
HeartbeatNeverRevives ==
  [][\A s \in Services : servers[s] = NoServer /\ servers'[s] # NoServer => calls' = calls + 1]_vars

\* Once the clients are done and nobody is stuck in servers_, consul ends with
\* the latest settings of every server that is registered, however many writes
\* and deletions have failed, come late or come out of order.
Published ==
  <>[](LockFree => \A s \in Services : servers[s] # NoServer => node[s] = servers[s])

-----------------------------------------------------------------------------
(* What comments of the repository say and the code does not do *)

\* "always the final state" (registry.cc:174): when every request has been
\* answered and no fallback is left, consul holds no node of a server that is
\* no longer registered.
SettledFinal ==
  (\A i \in Slots : flight[i] = NoRequest) /\ (\A s \in Services : fallbacks[s] = NoRequest)
    /\ owner = NoThread =>
      \A s \in Services : servers[s] = NoServer => node[s] = NoServer

\* "done unregistering all services" (http_service.cc:178): an unregistration
\* that destroys its servers gets to an end.
UnregistrationEnds == \A c \in Clients : pc[c] = "destroy" ~> pc[c] = "idle"
=============================================================================
