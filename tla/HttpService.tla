---------------------------- MODULE HttpService ----------------------------
(***************************************************************************)
(* The control plane of one predictor server: HttpService, its maps, its   *)
(* handlers and the jobs they hand to http_cpu_thread_pool_.               *)
(*                                                                         *)
(* The content service posts the set of services this host must serve,     *)
(* each with its weight and its model records.  loadAndRegister compares   *)
(* the post with model_map_ and service_map_, queues jobs (unregister and  *)
(* unload what is no longer wanted, load what is new, register every       *)
(* service once its models are loaded) and answers at once.  Every         *)
(* critical section of a folly::Synchronized map is one step here, so the  *)
(* steps of handler threads and pool threads interleave between them.      *)
(***************************************************************************)
EXTENDS Integers, Sequences

CONSTANTS
  Services,       \* service names
  Models,         \* model names, as integers ordered like their full names (ModelRecord::operator<)
  Versions,       \* timestamps of a model
  Posts,          \* /load_and_register bodies the content service may post
  Handlers,       \* HTTP worker threads (http_server_work_thread_num)
  Workers,        \* threads of http_cpu_thread_pool_ (http_cpu_thread_num)
  LoadOutcomes,   \* outcomes of ModelManager::loadModel that may occur
  AdminOps,       \* the other endpoints that are in use
  DefaultWeight,  \* default_server_weight_
  StaticWeights,  \* weights /set_server_static_weight is called with (0 left out: it marks absence)
  AlwaysTrust,    \* FLAGS_always_trust_content_service
  ClientWaits,    \* the content service posts only once a post is worked off
  MaxCalls,       \* bound: number of HTTP calls
  NoService, NoVersion, NoRecord, NoSet, NoThread, NoPost

Threads == Handlers \cup Workers
Record  == [name : Models, timestamp : Versions]
Entry   == [service : Services, weight : Int, records : SUBSET Record]
Post    == [entries : SUBSET Entry, config : {"none", "a", "b"}, locked : BOOLEAN]
Weight  == Nat \ {0}

ASSUME ConstantsAssumption ==
  /\ Handlers \cap Workers = {}
  /\ Models \subseteq Int /\ Versions \subseteq Int
  /\ Posts \subseteq Post
  /\ LoadOutcomes \subseteq BOOLEAN
  /\ AdminOps \subseteq {"register", "unregister", "weight", "work_mode", "stress", "shutdown"}
  /\ DefaultWeight \in Weight /\ StaticWeights \subseteq Weight
  /\ AlwaysTrust \in BOOLEAN /\ ClientWaits \in BOOLEAN
  /\ MaxCalls \in Nat
  /\ NoService \notin Services /\ NoVersion \notin Versions
  /\ NoThread \notin Threads /\ NoPost \notin Posts
  /\ NoRecord \notin [timestamp : Versions, state : {"loading", "loaded", "failed"}]

VARIABLES
  model_map,           \* model_map_: record of each model name, or NoRecord
  service_map,         \* keys of service_map_
  service_models_map,  \* service_models_map_: model names of a service, or NoSet
  service_weight_map,  \* service_weight_map_: weight of a service, 0 when absent
  service_map_owner,   \* thread that blocks inside service_map_.wlock()
  configs,             \* service config applied by reset_service_config
  framework,           \* ModelFramework::models_: version served, or NoVersion
  router,              \* servers_ of the Router: weight published, 0 when absent
  router_config,       \* services whose router config has been pulled
  work_mode,           \* FLAGS_work_mode
  queue,               \* FIFO of http_cpu_thread_pool_
  pc, job,             \* of each thread: where it is and what it works on
  calls,               \* HTTP calls so far
  last,                \* history: the last post accepted
  status               \* "up", "stopping" (signal caught) or "aborted"

maps  == <<model_map, service_map, service_models_map, service_weight_map, service_map_owner>>
outer == <<framework, router, router_config>>
env   == <<configs, work_mode, calls, last, status>>
vars  == <<maps, outer, env, queue, pc, job>>

JobKinds == {"none", "post", "unregister", "load", "register", "register_name",
             "unregister_name", "stress"}
PCs == {"idle", "read_services", "load_models", "register_services",
        "unregister", "erase_weight", "erase_models", "unload",
        "load", "loaded", "failed",
        "poll", "register", "wait_config", "init_models", "set_weight", "bind",
        "stress_poll", "stress_set"}
Job == [kind : JobKinds, service : Services \cup {NoService}, weight : Int,
        records : SUBSET Record, services : SUBSET Services,
        models : SUBSET Models, entries : SUBSET Entry, config : {"none", "a", "b"}]
NoJob ==
  [kind |-> "none", service |-> NoService, weight |-> 0, records |-> {},
   services |-> {}, models |-> {}, entries |-> {}, config |-> "none"]
PostJob(recs, ms, p) ==
  [kind |-> "post", service |-> NoService, weight |-> 0, records |-> recs,
   services |-> {}, models |-> ms, entries |-> p.entries, config |-> p.config]
UnregisterJob(k, ss, ms) ==
  [kind |-> k, service |-> NoService, weight |-> 0, records |-> {},
   services |-> ss, models |-> ms, entries |-> {}, config |-> "none"]
LoadJob(r) ==
  [kind |-> "load", service |-> NoService, weight |-> 0, records |-> {r},
   services |-> {}, models |-> {}, entries |-> {}, config |-> "none"]
RegisterJob(e) ==
  [kind |-> "register", service |-> e.service, weight |-> e.weight, records |-> e.records,
   services |-> {}, models |-> {}, entries |-> {}, config |-> "none"]
ServiceJob(k, s) ==
  [kind |-> k, service |-> s, weight |-> 0, records |-> {},
   services |-> {}, models |-> {}, entries |-> {}, config |-> "none"]

TypeOK ==
  /\ model_map \in [Models -> [timestamp : Versions, state : {"loading", "loaded", "failed"}]
                              \cup {NoRecord}]
  /\ service_map \in SUBSET Services
  /\ service_models_map \in [Services -> (SUBSET Models) \cup {NoSet}]
  /\ service_weight_map \in [Services -> Nat]
  /\ service_map_owner \in Threads \cup {NoThread}
  /\ configs \in {"none", "a", "b"}
  /\ framework \in [Models -> Versions \cup {NoVersion}]
  /\ router \in [Services -> Nat]
  /\ router_config \in SUBSET Services
  /\ work_mode \in {"ServerMode", "RouterMode", ""}
  /\ queue \in Seq(Job)
  /\ pc \in [Threads -> PCs]
  /\ job \in [Threads -> Job]
  /\ calls \in Nat
  /\ last \in Posts \cup {NoPost}
  /\ status \in {"up", "stopping", "aborted"}

Init ==
  /\ model_map = [m \in Models |-> NoRecord]
  /\ service_map = {}
  /\ service_models_map = [s \in Services |-> NoSet]
  /\ service_weight_map = [s \in Services |-> 0]
  /\ service_map_owner = NoThread
  /\ configs = "none"
  /\ framework = [m \in Models |-> NoVersion]
  /\ router = [s \in Services |-> 0]
  /\ router_config = {}
  /\ work_mode = "ServerMode"
  /\ queue = <<>>
  /\ pc = [t \in Threads |-> "idle"]
  /\ job = [t \in Threads |-> NoJob]
  /\ calls = 0
  /\ last = NoPost
  /\ status = "up"

-----------------------------------------------------------------------------
(* Control of threads *)

\* An abort of the process stops every thread where it is.
At(t, label)   == pc[t] = label /\ status # "aborted"
Goto(t, label) == pc' = [pc EXCEPT ![t] = label]
Finish(t)      == Goto(t, "idle") /\ job' = [job EXCEPT ![t] = NoJob]
SubmitFront(j) == queue' = <<j>> \o queue   \* faulty: last in, first out
Submit(j)      == queue' = Append(queue, j)

\* service_map_ can be locked; model_map_ can be locked for writing (a handler
\* in read_services still holds the read lock it took in LoadAndRegister).
ServiceMapFree == service_map_owner = NoThread
ModelMapFree   == \A h \in Handlers : pc[h] # "read_services"

\* No job is queued or running and no handler is busy.
Quiescent == queue = <<>> /\ \A t \in Threads : pc[t] = "idle"

\* An HTTP worker thread takes a request.
Call(h) ==
  /\ At(h, "idle")
  /\ calls < MaxCalls
  /\ ClientWaits => Quiescent
  /\ calls' = calls + 1

\* Faulty: only the default (zero) is replaced, a negative weight is taken.
EffectiveWeightZeroOnly(w) == IF w = 0 THEN DefaultWeight ELSE w

EffectiveWeight(w) == IF w <= 0 THEN DefaultWeight ELSE w

-----------------------------------------------------------------------------
(* loadAndRegister *)

Requested(p) == UNION {e.records : e \in p.entries}
NamesOf(recs) == {r.name : r \in recs}
ServicesOf(p) == {e.service : e \in p.entries}

\* Faulty: a record that is known and has not failed is never loaded again.
NeedsLoadUnknown(r, locked) ==
  model_map[r.name] = NoRecord \/ model_map[r.name].state = "failed"

\* comp_models: the posted records that have to be loaded.
NeedsLoad(r, locked) ==
  LET known == model_map[r.name] IN
  \/ known = NoRecord
  \/ /\ known # NoRecord
     /\ \/ known.state = "failed"
        \/ AlwaysTrust /\ r.timestamp # known.timestamp
        \/ ~AlwaysTrust /\ \/ r.timestamp > known.timestamp
                           \/ locked /\ r.timestamp < known.timestamp

\* Under model_map_.rlock(): what to load, which names are useless.
LoadAndRegister(h, p) ==
  /\ Call(h)
  /\ last' = p
  /\ job' = [job EXCEPT ![h] =
       PostJob({r \in Requested(p) : NeedsLoad(r, p.locked)},
               {m \in Models : model_map[m] # NoRecord} \ NamesOf(Requested(p)), p)]
  /\ Goto(h, "read_services")
  /\ UNCHANGED <<maps, outer, configs, work_mode, status, queue>>

\* A body that does not parse is answered with code -1 and changes nothing.
RejectPost(h) ==
  /\ Call(h)
  /\ UNCHANGED <<maps, outer, configs, work_mode, last, status, queue, pc, job>>

\* Under both read locks: the useless services, and whether the config is
\* dropped; then, the locks released, reset_service_config and the first job.
ReadServices(h) ==
  LET useless == service_map \ {e.service : e \in job[h].entries}
      keep    == service_map = {} \/ useless # {}
  IN
  /\ At(h, "read_services")
  /\ ServiceMapFree
  /\ configs' = IF keep /\ job[h].config # "none" THEN job[h].config ELSE configs
  /\ Submit(UnregisterJob("unregister", useless, job[h].models))
  /\ Goto(h, "load_models")
  /\ UNCHANGED <<maps, outer, work_mode, calls, last, status, job>>

\* Faulty: the load is queued and the record is left as it is.
LoadModelsUnmarked(h) ==
  /\ At(h, "load_models")
  /\ \/ \E r \in job[h].records :
          /\ ModelMapFree
          /\ Submit(LoadJob(r))
          /\ job' = [job EXCEPT ![h].records = @ \ {r}]
          /\ UNCHANGED pc
     \/ /\ job[h].records = {}
        /\ Goto(h, "register_services")
        /\ UNCHANGED <<queue, job>>
  /\ UNCHANGED <<maps, outer, env>>

\* load_models: mark one record as loading and queue its load.  The records are
\* taken in any order here, the code takes them in the order of their std::set.
LoadModels(h) ==
  /\ At(h, "load_models")
  /\ \/ \E r \in job[h].records :
          /\ ModelMapFree
          /\ model_map' = [model_map EXCEPT ![r.name] =
                             [timestamp |-> r.timestamp, state |-> "loading"]]
          /\ Submit(LoadJob(r))
          /\ job' = [job EXCEPT ![h].records = @ \ {r}]
          /\ UNCHANGED pc
     \/ /\ job[h].records = {}
        /\ Goto(h, "register_services")
        /\ UNCHANGED <<model_map, queue, job>>
  /\ UNCHANGED <<service_map, service_models_map, service_weight_map, service_map_owner, outer, env>>

\* register_services: queue one job per posted service, then answer.
RegisterServices(h) ==
  /\ At(h, "register_services")
  /\ \/ \E e \in job[h].entries :
          /\ Submit(RegisterJob(e))
          /\ job' = [job EXCEPT ![h].entries = @ \ {e}]
          /\ UNCHANGED pc
     \/ job[h].entries = {} /\ Finish(h) /\ UNCHANGED queue
  /\ UNCHANGED <<maps, outer, env>>

-----------------------------------------------------------------------------
(* Jobs of the thread pool *)

EntryPoint(kind) ==
  CASE kind = "unregister" -> "unregister"
    [] kind = "load"       -> "load"
    [] kind = "register"   -> "poll"
    [] OTHER               -> "stress_poll"

\* An idle pool thread takes the oldest job.
TakeJob(w) ==
  /\ At(w, "idle")
  /\ queue # <<>>
  /\ job' = [job EXCEPT ![w] = Head(queue)]
  /\ queue' = Tail(queue)
  /\ Goto(w, EntryPoint(Head(queue).kind))
  /\ UNCHANGED <<maps, outer, env>>

\* Faulty: the result of loadModel is not looked at.
LoadModelUnchecked(w) ==
  /\ At(w, "load")
  /\ \E r \in job[w].records, ok \in LoadOutcomes :
       framework' = IF ok THEN [framework EXCEPT ![r.name] = r.timestamp] ELSE framework
  /\ Goto(w, "loaded")
  /\ UNCHANGED <<maps, router, router_config, env, queue, job>>

\* The load job: ModelManager::loadModel, which on success replaces the model
\* in ModelFramework::models_ whatever version was there.
LoadModel(w) ==
  /\ At(w, "load")
  /\ \E r \in job[w].records, ok \in LoadOutcomes :
       /\ framework' = IF ok THEN [framework EXCEPT ![r.name] = r.timestamp] ELSE framework
       /\ Goto(w, IF ok THEN "loaded" ELSE "failed")
  /\ UNCHANGED <<maps, router, router_config, env, queue, job>>

\* The load job writes the outcome back, whatever model_map_ holds by now.
StoreRecord(w) ==
  /\ At(w, "loaded") \/ At(w, "failed")
  /\ ModelMapFree
  /\ \E r \in job[w].records :
       model_map' = [model_map EXCEPT ![r.name] = [timestamp |-> r.timestamp, state |-> pc[w]]]
  /\ Finish(w)
  /\ UNCHANGED <<service_map, service_models_map, service_weight_map, service_map_owner, outer, env, queue>>

\* Faulty: a record counts as loaded as soon as its load is queued.
StateOfQueued(m) ==
  IF model_map[m] = NoRecord THEN "absent"
  ELSE IF model_map[m].state = "failed" THEN "failed" ELSE "loaded"

StateOf(m) == IF model_map[m] = NoRecord THEN "absent" ELSE model_map[m].state

\* The register job checks its models in the order of the std::set: all loaded,
\* register; the first one that is not loaded has failed, give up; otherwise
\* sleep 200 ms and look again (a step that changes nothing).
Poll(w) ==
  LET recs == job[w].records IN
  /\ At(w, "poll")
  /\ \/ /\ \A r \in recs : StateOf(r.name) = "loaded"
        /\ Goto(w, "register")
        /\ UNCHANGED job
     \/ /\ \E r \in recs :
             /\ StateOf(r.name) = "failed"
             /\ \A q \in recs : q.name < r.name => StateOf(q.name) = "loaded"
        /\ Finish(w)
  /\ UNCHANGED <<maps, outer, env, queue>>

\* Faulty: the name is inserted, the lock is released before registerServer.
RegisterServiceNameUnlocked(t) ==
  LET s == job[t].service IN
  /\ At(t, "register")
  /\ ServiceMapFree
  /\ service_map' = service_map \cup {s}
  /\ Goto(t, IF s \in service_map THEN "set_weight" ELSE "wait_config")
  /\ UNCHANGED <<model_map, service_models_map, service_weight_map, service_map_owner, outer, env, queue, job>>

\* register_service_name, first critical section: a new name is inserted and
\* the thread stays inside service_map_.wlock() for the rest of it.
RegisterServiceName(t) ==
  LET s == job[t].service IN
  /\ At(t, "register")
  /\ ServiceMapFree
  /\ \/ /\ s \in service_map
        /\ Goto(t, "set_weight")
        /\ UNCHANGED <<service_map, service_map_owner>>
     \/ /\ s \notin service_map
        /\ service_map' = service_map \cup {s}
        /\ service_map_owner' = t
        /\ Goto(t, "wait_config")
  /\ UNCHANGED <<model_map, service_models_map, service_weight_map, outer, env, queue, job>>

\* Faulty: service_map_ stays locked when registerServer has returned.
RegisterServerKeepsLock(t) ==
  LET s == job[t].service IN
  /\ At(t, "wait_config")
  /\ s \in router_config
  /\ router' = [router EXCEPT ![s] = 1]
  /\ Goto(t, "init_models")
  /\ UNCHANGED <<model_map, service_map, service_models_map, service_weight_map, service_map_owner,
                 framework, router_config, env, queue, job>>

\* service_router::registerServer(server, 0): wait, without a timeout, for the
\* router config of the service; then Router::registerServer creates the entry
\* with the weight of a fresh Server (1).
RegisterServer(t) ==
  LET s == job[t].service IN
  /\ At(t, "wait_config")
  /\ s \in router_config
  /\ router' = [router EXCEPT ![s] = IF @ = 0 THEN 1 ELSE @]
  /\ service_map_owner' = NoThread
  /\ Goto(t, "init_models")
  /\ UNCHANGED <<model_map, service_map, service_models_map, service_weight_map,
                 framework, router_config, env, queue, job>>

\* register_service_name, second critical section (only when newly registered).
InitServiceModels(t) ==
  LET s == job[t].service IN
  /\ At(t, "init_models")
  /\ service_models_map' = [service_models_map EXCEPT ![s] = IF @ = NoSet THEN {} ELSE @]
  /\ Goto(t, "set_weight")
  /\ UNCHANGED <<model_map, service_map, service_weight_map, service_map_owner, outer, env, queue, job>>

\* Router::setWeight changes the weight only of a registered server.
PublishWeight(s, w) == router' = [router EXCEPT ![s] = IF @ = 0 THEN 0 ELSE w]

\* register_service_name, third critical section.
SetWeight(t) ==
  LET s == job[t].service
      w == EffectiveWeight(job[t].weight)
  IN
  /\ At(t, "set_weight")
  /\ IF service_weight_map[s] # w
       THEN PublishWeight(s, w) /\ service_weight_map' = [service_weight_map EXCEPT ![s] = w]
       ELSE UNCHANGED <<router, service_weight_map>>
  /\ IF job[t].kind = "register" THEN Goto(t, "bind") /\ UNCHANGED job ELSE Finish(t)
  /\ UNCHANGED <<model_map, service_map, service_models_map, service_map_owner,
                 framework, router_config, env, queue>>

\* The register job records the models of its service.
BindModels(w) ==
  /\ At(w, "bind")
  /\ service_models_map' = [service_models_map EXCEPT ![job[w].service] = NamesOf(job[w].records)]
  /\ Finish(w)
  /\ UNCHANGED <<model_map, service_map, service_weight_map, service_map_owner, outer, env, queue>>

\* unregister_service_name for the next service of the job: service_map_ first;
\* when none is left, unload_models (a job) or the answer (a handler).
UnregisterServiceName(t) ==
  /\ At(t, "unregister")
  /\ \/ \E s \in job[t].services :
          /\ ServiceMapFree
          /\ service_map' = service_map \ {s}
          /\ router' = [router EXCEPT ![s] = IF s \in service_map THEN 0 ELSE @]
          /\ job' = [job EXCEPT ![t].service = s, ![t].services = @ \ {s}]
          /\ Goto(t, "erase_weight")
     \/ /\ job[t].services = {}
        /\ IF job[t].kind = "unregister" THEN Goto(t, "unload") /\ UNCHANGED job ELSE Finish(t)
        /\ UNCHANGED <<service_map, router>>
  /\ UNCHANGED <<model_map, service_models_map, service_weight_map, service_map_owner,
                 framework, router_config, env, queue>>

\* Faulty: service_weight_map_ is forgotten, as unregisterAll forgets it.
EraseWeightForgotten(t) ==
  /\ At(t, "erase_weight")
  /\ Goto(t, "erase_models")
  /\ UNCHANGED <<maps, outer, env, queue, job>>

EraseWeight(t) ==
  /\ At(t, "erase_weight")
  /\ service_weight_map' = [service_weight_map EXCEPT ![job[t].service] = 0]
  /\ Goto(t, "erase_models")
  /\ UNCHANGED <<model_map, service_map, service_models_map, service_map_owner, outer, env, queue, job>>

EraseModels(t) ==
  /\ At(t, "erase_models")
  /\ service_models_map' = [service_models_map EXCEPT ![job[t].service] = NoSet]
  /\ Goto(t, "unregister")
  /\ UNCHANGED <<model_map, service_map, service_weight_map, service_map_owner, outer, env, queue, job>>

\* Faulty: the unload is physical, whoever is bound to the model.
UnloadModelsPhysical(w) ==
  /\ At(w, "unload")
  /\ ModelMapFree
  /\ model_map' = [m \in Models |-> IF m \in job[w].models THEN NoRecord ELSE model_map[m]]
  /\ framework' = [m \in Models |-> IF m \in job[w].models THEN NoVersion ELSE framework[m]]
  /\ Finish(w)
  /\ UNCHANGED <<service_map, service_models_map, service_weight_map, service_map_owner,
                 router, router_config, env, queue>>

\* unload_models is logical: the record goes, ModelFramework::models_ keeps the model.
UnloadModels(w) ==
  /\ At(w, "unload")
  /\ ModelMapFree
  /\ model_map' = [m \in Models |-> IF m \in job[w].models THEN NoRecord ELSE model_map[m]]
  /\ Finish(w)
  /\ UNCHANGED <<service_map, service_models_map, service_weight_map, service_map_owner, outer, env, queue>>

-----------------------------------------------------------------------------
(* The other endpoints.  A list of names is worked off name by name with no *)
(* lock held in between, so one call per name stands for the list.          *)

RegisterNameCall(h, s) ==
  /\ "register" \in AdminOps
  /\ Call(h)
  /\ job' = [job EXCEPT ![h] = ServiceJob("register_name", s)]
  /\ Goto(h, "register")
  /\ UNCHANGED <<maps, outer, configs, work_mode, last, status, queue>>

UnregisterNameCall(h, s) ==
  /\ "unregister" \in AdminOps
  /\ Call(h)
  /\ job' = [job EXCEPT ![h] = UnregisterJob("unregister_name", {s}, {})]
  /\ Goto(h, "unregister")
  /\ UNCHANGED <<maps, outer, configs, work_mode, last, status, queue>>

\* /set_server_static_weight publishes a weight and leaves service_weight_map_ alone.
SetServerStaticWeight(h, s, w) ==
  /\ "weight" \in AdminOps
  /\ Call(h)
  /\ PublishWeight(s, w)
  /\ UNCHANGED <<maps, framework, router_config, configs, work_mode, last, status, queue, pc, job>>

\* unregisterAll clears service_map_ and nothing else.
UnregisterAll ==
  /\ ServiceMapFree
  /\ service_map' = {}
  /\ router' = [s \in Services |-> IF s \in service_map THEN 0 ELSE router[s]]
  /\ UNCHANGED <<model_map, service_models_map, service_weight_map, service_map_owner,
                 framework, router_config>>

\* /set_work_mode; an empty parameter is logged as an error and then taken.
SetWorkMode(h, mode) ==
  /\ "work_mode" \in AdminOps
  /\ Call(h)
  /\ \/ mode = work_mode /\ UNCHANGED <<maps, outer, work_mode>>
     \/ mode # work_mode /\ UnregisterAll /\ work_mode' = mode
  /\ UNCHANGED <<configs, last, status, queue, pc, job>>

\* The signal handler of the server: unregisterAll, then sleep, then exit.
Shutdown ==
  /\ "shutdown" \in AdminOps
  /\ status = "up"
  /\ UnregisterAll
  /\ status' = "stopping"
  /\ UNCHANGED <<configs, work_mode, calls, last, queue, pc, job>>

SetStressParams(h, s) ==
  /\ "stress" \in AdminOps
  /\ Call(h)
  /\ Submit(ServiceJob("stress", s))
  /\ UNCHANGED <<maps, outer, configs, work_mode, last, status, pc, job>>

\* setStressInfos: wait under the read lock until the service is registered ...
StressPoll(w) ==
  /\ At(w, "stress_poll")
  /\ ServiceMapFree
  /\ job[w].service \in service_map
  /\ Goto(w, "stress_set")
  /\ UNCHANGED <<maps, outer, env, queue, job>>

\* ... then lock again and dereference the entry, which operator[] has created
\* as a null pointer when the service is gone by now.
StressSet(w) ==
  /\ At(w, "stress_set")
  /\ ServiceMapFree
  /\ status' = IF job[w].service \in service_map THEN status ELSE "aborted"
  /\ Finish(w)
  /\ UNCHANGED <<maps, outer, configs, work_mode, calls, last, queue>>

\* The config puller of the Router gets the config of a service.
ConfigArrives(s) ==
  /\ status # "aborted"
  /\ s \notin router_config
  /\ router_config' = router_config \cup {s}
  /\ UNCHANGED <<maps, framework, router, env, queue, pc, job>>

-----------------------------------------------------------------------------
HandlerCall(h) ==
  \/ \E p \in Posts : LoadAndRegister(h, p)
  \/ RejectPost(h)
  \/ \E s \in Services : RegisterNameCall(h, s)
  \/ \E s \in Services : UnregisterNameCall(h, s)
  \/ \E s \in Services, w \in StaticWeights : SetServerStaticWeight(h, s, w)
  \/ \E mode \in {"ServerMode", "RouterMode", ""} : SetWorkMode(h, mode)
  \/ \E s \in Services : SetStressParams(h, s)

\* The critical sections of register_service_name and unregister_service_name,
\* which handlers and pool threads share.
SharedStep(t) ==
  \/ RegisterServiceName(t)
  \/ RegisterServer(t)
  \/ InitServiceModels(t)
  \/ SetWeight(t)
  \/ UnregisterServiceName(t)
  \/ EraseWeight(t)
  \/ EraseModels(t)

HandlerStep(h) ==
  \/ ReadServices(h)
  \/ LoadModels(h)
  \/ RegisterServices(h)
  \/ SharedStep(h)

WorkerStep(w) ==
  \/ TakeJob(w)
  \/ LoadModel(w)
  \/ StoreRecord(w)
  \/ Poll(w)
  \/ BindModels(w)
  \/ UnloadModels(w)
  \/ StressPoll(w)
  \/ StressSet(w)
  \/ SharedStep(w)

Next ==
  \/ \E h \in Handlers : HandlerCall(h) \/ HandlerStep(h)
  \/ \E w \in Workers : WorkerStep(w)
  \/ \E s \in Services : ConfigArrives(s)
  \/ Shutdown

Spec == Init /\ [][Next]_vars

\* Threads are scheduled by the OS and no critical section is endless; the
\* router config of every service arrives.  No HTTP call is ever owed.
Fairness ==
  /\ \A h \in Handlers : WF_vars(HandlerStep(h))
  /\ \A w \in Workers : WF_vars(WorkerStep(w))
  /\ \A s \in Services : WF_vars(ConfigArrives(s))

FairSpec == Spec /\ Fairness

-----------------------------------------------------------------------------
(* Properties *)

\* What http_service.cc:285 relies on: the models service_models_map_ lists for
\* a service have been loaded, so ModelFramework::predict finds each of them.
BoundModelsServable ==
  \A s \in Services : service_models_map[s] # NoSet =>
    \A m \in service_models_map[s] : framework[m] # NoVersion

\* The Router publishes exactly the names of service_map_, except for the one
\* name whose registration still waits inside service_map_.wlock().
RouterMatchesServiceMap ==
  {s \in Services : router[s] # 0} =
    service_map \ {job[t].service : t \in {u \in Threads : pc[u] = "wait_config"}}

\* Once a post has been worked off (and the content service waits for that),
\* the server serves what was posted: no other service and no other record is
\* left; every posted record was tried, a loaded one is the version that the
\* framework serves; a service whose models all loaded is registered, bound to
\* them and published with its weight.
Converged ==
  Quiescent /\ last # NoPost =>
    /\ service_map \subseteq ServicesOf(last)
    /\ {m \in Models : model_map[m] # NoRecord} = NamesOf(Requested(last))
    /\ \A r \in Requested(last) :
         /\ model_map[r.name].timestamp = r.timestamp
         /\ model_map[r.name].state \in {"loaded", "failed"}
         /\ model_map[r.name].state = "loaded" => framework[r.name] = r.timestamp
    /\ \A e \in last.entries :
         (\A r \in e.records : model_map[r.name].state = "loaded") =>
           /\ e.service \in service_map
           /\ service_models_map[e.service] = NamesOf(e.records)
           /\ router[e.service] = EffectiveWeight(e.weight)

\* At every moment, what model_map_ reports as loaded is the version that
\* ModelFramework serves, also while a newer version is being loaded (the
\* content service waits for its posts to be worked off).
ReportedVersionServed ==
  \A m \in Models : StateOf(m) = "loaded" => framework[m] = model_map[m].timestamp

\* Every post is worked off, even by a pool of one thread: FIFO order puts the
\* loads of a post before the register jobs that wait for them.
JobsFinish == []<>Quiescent

\* Every HTTP call is worked off: no handler blocks for ever on a map that a
\* register job holds (service_map_.wlock() is held over the wait for the
\* router config, and loadAndRegister asks for service_map_ with model_map_
\* locked), whatever the pool threads are stuck in.
HandlersAnswer ==
  \A h \in Handlers : pc[h] # "idle" ~> (pc[h] = "idle" \/ status = "aborted")

\* The control plane implements what the prediction path relies on.
Serving == INSTANCE ModelServing WITH
  servable <- {m \in Models : framework[m] # NoVersion},
  bound    <- service_models_map
ServingSpec == Serving!Spec

-----------------------------------------------------------------------------
(* What comments and flags of the repository say.  The code keeps to         *)
(* PostedVersionServed, RegistersPostedVersion and ReportedWeightPublished    *)
(* only while posts do not overlap and no other endpoint is used.            *)

\* "always accept what content service has posted" (http_service.cc:20): when
\* all work is done and model_map_ reports a posted version as loaded, so that
\* posting it again changes nothing, that version is the one served.
PostedVersionServed ==
  Quiescent /\ last # NoPost => \A r \in Requested(last) :
    model_map[r.name] = [timestamp |-> r.timestamp, state |-> "loaded"] =>
      framework[r.name] = r.timestamp

\* "wait for all models associated with this service name to be loaded, then
\* register the service name" (http_service.cc:247): a register job of the last
\* post goes on only when the version it was posted with is the loaded one.
RegistersPostedVersion ==
  [][\A w \in Workers : pc[w] = "poll" /\ pc'[w] = "register" =>
       \A r \in job[w].records \cap Requested(last) :
         model_map[r.name].timestamp = r.timestamp]_vars

\* "all of above are valid states, break and wait for next round of check"
\* (http_service.cc:257): a register job that waits gets to an end.
RegisterJobsEnd == \A w \in Workers : pc[w] = "poll" ~> pc[w] # "poll"

\* "if server weight not set or server weight changed then set server weight"
\* (http_service.cc:349): a registered service is published with the weight
\* that service_weight_map_ reports for it.
ReportedWeightPublished ==
  Quiescent => \A s \in service_map : router[s] = service_weight_map[s]

\* "which will unregister all service" (predictor_server.cc:91): once the
\* signal handler has unregistered everything, nothing is published again.
StoppingUnregisters == status = "stopping" => \A s \in Services : router[s] = 0

\* "no param of work_mode" (http_service.cc:860): a call without the parameter
\* is an error and does not change the mode.
WorkModeGiven == work_mode # ""
=============================================================================
