------------------------- MODULE HttpServiceProofs -------------------------
(***************************************************************************)
(* Proofs about HttpService, for any number of services, models, versions, *)
(* posts, handler threads and pool threads.                                *)
(***************************************************************************)
EXTENDS HttpService, SequenceTheorems, TLAPS

\* Where a thread stands when it works on one service name.
ServicePCs == {"register", "wait_config", "init_models", "set_weight", "bind"}
ErasePCs   == {"erase_weight", "erase_models"}
LoadPCs    == {"load", "loaded", "failed"}

\* What a job carries, by its kind: a load job exactly one record, a register
\* or stress job a service name, a service name job no record to wait for.
JobOK(j) ==
  /\ j.kind = "load" => \E r \in Record : j.records = {r}
  /\ j.kind \in {"register", "stress"} => j.service \in Services

\* The job of a thread suits the place where the thread stands.
ThreadOK(t) ==
  /\ pc[t] \in LoadPCs => \E r \in Record : job[t].records = {r}
  /\ pc[t] \in ServicePCs \cup ErasePCs \cup {"poll"} => job[t].service \in Services

JobsOK ==
  /\ \A i \in 1..Len(queue) : JobOK(queue[i])
  /\ \A t \in Threads : ThreadOK(t)

\* A model that can be served.
Servable(m) == framework[m] # NoVersion

\* A record says "loaded" only after the framework took the model.
RecordsServable ==
  \A m \in Models : StateOf(m) = "loaded" => Servable(m)

\* So does a thread that is about to write such a record, and a thread past
\* its poll has seen all of its models loaded.
ThreadServable(t) ==
  pc[t] \in ServicePCs \cup {"loaded"} => \A r \in job[t].records : Servable(r.name)

ServingInv ==
  /\ RecordsServable
  /\ \A t \in Threads : ThreadServable(t)
  /\ BoundModelsServable

-----------------------------------------------------------------------------
(* Types of the jobs *)

\* The jobs that handlers create are jobs, with the fields they are given.
LEMMA NoJobType == NoJob \in Job
BY DEF NoJob, Job, JobKinds

LEMMA PostJobType ==
  ASSUME NEW recs \in SUBSET Record, NEW ms \in SUBSET Models, NEW p \in Post
  PROVE  PostJob(recs, ms, p) \in Job
BY DEF PostJob, Job, JobKinds, Post

LEMMA UnregisterJobType ==
  ASSUME NEW k \in {"unregister", "unregister_name"},
         NEW ss \in SUBSET Services, NEW ms \in SUBSET Models
  PROVE  UnregisterJob(k, ss, ms) \in Job /\ JobOK(UnregisterJob(k, ss, ms))
BY DEF UnregisterJob, Job, JobKinds, JobOK

LEMMA LoadJobType ==
  ASSUME NEW r \in Record
  PROVE  LoadJob(r) \in Job /\ JobOK(LoadJob(r))
BY DEF LoadJob, Job, JobKinds, JobOK

LEMMA RegisterJobType ==
  ASSUME NEW e \in Entry
  PROVE  RegisterJob(e) \in Job /\ JobOK(RegisterJob(e))
BY DEF RegisterJob, Job, JobKinds, Entry, JobOK

LEMMA ServiceJobType ==
  ASSUME NEW k \in {"register_name", "stress"}, NEW s \in Services
  PROVE  /\ ServiceJob(k, s) \in Job /\ JobOK(ServiceJob(k, s))
         /\ ServiceJob(k, s).service = s /\ ServiceJob(k, s).records = {}
BY DEF ServiceJob, Job, JobKinds, JobOK

-----------------------------------------------------------------------------
(* Types, and jobs that suit their threads *)

\* A thread moves to another place with another job.
LEMMA MoveThread ==
  ASSUME TypeOK, JobsOK, NEW t \in Threads, NEW l \in PCs, NEW j \in Job,
         l \in LoadPCs => \E r \in Record : j.records = {r},
         l \in ServicePCs \cup ErasePCs \cup {"poll"} => j.service \in Services,
         pc' = [pc EXCEPT ![t] = l], job' = [job EXCEPT ![t] = j]
  PROVE  /\ pc' \in [Threads -> PCs] /\ job' \in [Threads -> Job]
         /\ \A u \in Threads : ThreadOK(u)'
<1>1. pc' \in [Threads -> PCs] /\ job' \in [Threads -> Job]
  BY DEF TypeOK
<1>2. ASSUME NEW u \in Threads PROVE ThreadOK(u)'
  <2>1. CASE u = t
    <3>1. pc'[u] = l /\ job'[u] = j
      BY <2>1 DEF TypeOK
    <3>2. QED BY <3>1 DEF ThreadOK
  <2>2. CASE u # t
    <3>1. pc'[u] = pc[u] /\ job'[u] = job[u] /\ ThreadOK(u)
      BY <2>2 DEF TypeOK, JobsOK
    <3>2. QED BY <3>1 DEF ThreadOK
  <2>3. QED BY <2>1, <2>2
<1>3. QED BY <1>1, <1>2

\* A thread moves to another place with the job it has.
LEMMA KeepJob ==
  ASSUME TypeOK, JobsOK, NEW t \in Threads, NEW l \in PCs,
         l \in LoadPCs => \E r \in Record : job[t].records = {r},
         l \in ServicePCs \cup ErasePCs \cup {"poll"} => job[t].service \in Services,
         pc' = [pc EXCEPT ![t] = l], job' = job
  PROVE  /\ pc' \in [Threads -> PCs] /\ job' \in [Threads -> Job]
         /\ \A u \in Threads : ThreadOK(u)'
<1>1. job[t] \in Job /\ job' = [job EXCEPT ![t] = job[t]]
  BY DEF TypeOK
<1>2. QED BY <1>1, MoveThread

\* A thread ends its job.
LEMMA EndJob ==
  ASSUME TypeOK, JobsOK, NEW t \in Threads, Finish(t)
  PROVE  /\ pc' \in [Threads -> PCs] /\ job' \in [Threads -> Job]
         /\ \A u \in Threads : ThreadOK(u)'
<1>1. "idle" \in PCs /\ "idle" \notin LoadPCs \cup ServicePCs \cup ErasePCs \cup {"poll"}
  BY DEF PCs, LoadPCs, ServicePCs, ErasePCs
<1>2. QED BY <1>1, NoJobType, MoveThread DEF Finish, Goto

\* No thread moves.
LEMMA NoMove ==
  ASSUME TypeOK, JobsOK, UNCHANGED <<pc, job>>
  PROVE  /\ pc' \in [Threads -> PCs] /\ job' \in [Threads -> Job]
         /\ \A u \in Threads : ThreadOK(u)'
BY DEF TypeOK, JobsOK, ThreadOK

\* The queue takes a well-formed job.
LEMMA SubmitJob ==
  ASSUME TypeOK, JobsOK, NEW j \in Job, JobOK(j), Submit(j)
  PROVE  queue' \in Seq(Job) /\ \A i \in 1..Len(queue') : JobOK(queue'[i])
<1>1. queue \in Seq(Job) /\ queue' = Append(queue, j)
  BY DEF TypeOK, Submit
<1>2. /\ queue' \in Seq(Job) /\ Len(queue') = Len(queue) + 1
      /\ \A i \in 1..Len(queue) : queue'[i] = queue[i]
      /\ queue'[Len(queue) + 1] = j
  BY <1>1, AppendProperties
<1>3. Len(queue) \in Nat
  BY <1>1, LenProperties
<1>4. \A i \in 1..Len(queue') : i \in 1..Len(queue) \/ i = Len(queue) + 1
  BY <1>2, <1>3
<1>5. QED BY <1>2, <1>4 DEF JobsOK

\* The queue is left alone.
LEMMA SameQueue ==
  ASSUME TypeOK, JobsOK, UNCHANGED queue
  PROVE  queue' \in Seq(Job) /\ \A i \in 1..Len(queue') : JobOK(queue'[i])
BY DEF TypeOK, JobsOK

-----------------------------------------------------------------------------
\* A call is counted.
LEMMA CallType ==
  ASSUME TypeOK, NEW h, Call(h)
  PROVE  calls' \in Nat
<1>1. calls \in Nat
  BY DEF TypeOK
<1>2. calls' = calls + 1
  BY DEF Call
<1>3. QED BY <1>1, <1>2

\* Every step preserves the types and the fit of jobs and threads.
LEMMA TypeStep == TypeOK /\ JobsOK /\ [Next]_vars => TypeOK' /\ JobsOK'
<1> SUFFICES ASSUME TypeOK, JobsOK, [Next]_vars
             PROVE  TypeOK' /\ JobsOK'
  OBVIOUS
<1> DEFINE
      ThreadsOK == /\ pc \in [Threads -> PCs] /\ job \in [Threads -> Job]
                   /\ \A u \in Threads : ThreadOK(u)
      QueueOK == queue \in Seq(Job) /\ \A i \in 1..Len(queue) : JobOK(queue[i])
<1>1. ASSUME NEW h \in Threads, NEW p \in Posts, LoadAndRegister(h, p)
      PROVE  TypeOK' /\ JobsOK'
  <2>1. {r \in Requested(p) : NeedsLoad(r, p.locked)} \in SUBSET Record
    BY ConstantsAssumption DEF Requested, Post, Entry
  <2>2. ThreadsOK'
    BY <1>1, <2>1, ConstantsAssumption, PostJobType, MoveThread
    DEF LoadAndRegister, Goto, PCs, LoadPCs, ServicePCs, ErasePCs
  <2>3. QueueOK'
    BY <1>1, SameQueue DEF LoadAndRegister
  <2>4. QED BY <1>1, <2>2, <2>3, CallType DEF LoadAndRegister, TypeOK, JobsOK, maps, outer
<1>2. ASSUME NEW h \in Threads, RejectPost(h)
      PROVE  TypeOK' /\ JobsOK'
  BY <1>2, CallType, NoMove, SameQueue DEF RejectPost, TypeOK, JobsOK, maps, outer
<1>3. ASSUME NEW h \in Threads, NEW s \in Services, RegisterNameCall(h, s)
      PROVE  TypeOK' /\ JobsOK'
  <2>1. ServiceJob("register_name", s) \in Job /\ ServiceJob("register_name", s).service = s
    BY ServiceJobType
  <2>2. /\ pc' = [pc EXCEPT ![h] = "register"]
        /\ job' = [job EXCEPT ![h] = ServiceJob("register_name", s)]
    BY <1>3 DEF RegisterNameCall, Goto
  <2>3. "register" \in PCs /\ "register" \notin LoadPCs
    BY DEF PCs, LoadPCs
  <2>4. ThreadsOK'
    BY <2>1, <2>2, <2>3, MoveThread
  <2>5. QED BY <1>3, <2>4, CallType, SameQueue DEF RegisterNameCall, TypeOK, JobsOK, maps, outer
<1>4. ASSUME NEW h \in Threads, NEW s \in Services, UnregisterNameCall(h, s)
      PROVE  TypeOK' /\ JobsOK'
  <2>1. ThreadsOK'
    BY <1>4, UnregisterJobType, MoveThread
    DEF UnregisterNameCall, Goto, PCs, LoadPCs, ServicePCs, ErasePCs
  <2>2. QED BY <1>4, <2>1, CallType, SameQueue DEF UnregisterNameCall, TypeOK, JobsOK, maps, outer
<1>5. ASSUME NEW h \in Threads, NEW s \in Services, NEW w \in StaticWeights,
             SetServerStaticWeight(h, s, w)
      PROVE  TypeOK' /\ JobsOK'
  BY <1>5, ConstantsAssumption, CallType, NoMove, SameQueue
  DEF Weight, SetServerStaticWeight, PublishWeight, TypeOK, JobsOK, maps
<1>6. ASSUME NEW h \in Threads, NEW mode \in {"ServerMode", "RouterMode", ""}, SetWorkMode(h, mode)
      PROVE  TypeOK' /\ JobsOK'
  <2>1. ThreadsOK' /\ QueueOK'
    BY <1>6, NoMove, SameQueue DEF SetWorkMode
  <2>2. calls' \in Nat
    BY <1>6, CallType DEF SetWorkMode
  <2>3. CASE UNCHANGED <<maps, outer, work_mode>>
    BY <1>6, <2>1, <2>2, <2>3 DEF SetWorkMode, TypeOK, JobsOK, maps, outer
  <2>4. CASE UnregisterAll /\ work_mode' = mode
    BY <1>6, <2>1, <2>2, <2>4 DEF SetWorkMode, UnregisterAll, TypeOK, JobsOK
  <2>5. QED BY <1>6, <2>3, <2>4 DEF SetWorkMode
<1>7. ASSUME NEW h \in Threads, NEW s \in Services, SetStressParams(h, s)
      PROVE  TypeOK' /\ JobsOK'
  <2>1. QueueOK'
    BY <1>7, ServiceJobType, SubmitJob DEF SetStressParams
  <2>2. QED BY <1>7, <2>1, CallType, NoMove DEF SetStressParams, TypeOK, JobsOK, maps, outer
<1>8. ASSUME NEW h \in Threads, ReadServices(h)
      PROVE  TypeOK' /\ JobsOK'
  <2>1. job[h] \in Job /\ job[h].models \in SUBSET Models /\ job[h].config \in {"none", "a", "b"}
    BY DEF TypeOK, Job
  <2>2. QueueOK'
    BY <1>8, <2>1, UnregisterJobType, SubmitJob DEF ReadServices, TypeOK
  <2>3. ThreadsOK'
    BY <1>8, KeepJob DEF ReadServices, Goto, PCs, LoadPCs, ServicePCs, ErasePCs
  <2>4. QED BY <1>8, <2>1, <2>2, <2>3 DEF ReadServices, TypeOK, JobsOK, maps, outer
<1>9. ASSUME NEW h \in Threads, LoadModels(h)
      PROVE  TypeOK' /\ JobsOK'
  <2>1. job[h] \in Job /\ job[h].records \in SUBSET Record /\ pc[h] = "load_models"
    BY <1>9 DEF TypeOK, Job, LoadModels, At
  <2>2. CASE job[h].records = {} /\ Goto(h, "register_services") /\ UNCHANGED <<model_map, queue, job>>
    <3>1. ThreadsOK'
      BY <2>2, KeepJob DEF Goto, PCs, LoadPCs, ServicePCs, ErasePCs
    <3>2. QED BY <1>9, <2>2, <3>1, SameQueue DEF LoadModels, TypeOK, JobsOK, outer, env
  <2>3. ASSUME NEW r \in job[h].records, Submit(LoadJob(r)), UNCHANGED pc,
               model_map' = [model_map EXCEPT ![r.name] = [timestamp |-> r.timestamp, state |-> "loading"]],
               job' = [job EXCEPT ![h].records = @ \ {r}]
        PROVE  TypeOK' /\ JobsOK'
    <3>1. r \in Record /\ r.name \in Models /\ r.timestamp \in Versions
      BY <2>1 DEF Record
    <3>2. QueueOK'
      BY <2>3, <3>1, LoadJobType, SubmitJob
    <3>3. /\ pc' = [pc EXCEPT ![h] = "load_models"]
          /\ job' = [job EXCEPT ![h] = [job[h] EXCEPT !.records = @ \ {r}]]
      BY <2>1, <2>3 DEF TypeOK
    <3>4. [job[h] EXCEPT !.records = @ \ {r}] \in Job
      BY <2>1 DEF Job
    <3>5. ThreadsOK'
      BY <3>3, <3>4, MoveThread DEF PCs, LoadPCs, ServicePCs, ErasePCs
    <3>6. QED BY <1>9, <2>3, <3>1, <3>2, <3>5 DEF LoadModels, TypeOK, JobsOK, outer, env
  <2>4. QED BY <1>9, <2>2, <2>3 DEF LoadModels
<1>10. ASSUME NEW h \in Threads, RegisterServices(h)
       PROVE  TypeOK' /\ JobsOK'
  <2>1. job[h] \in Job /\ job[h].entries \in SUBSET Entry /\ pc[h] = "register_services"
    BY <1>10 DEF TypeOK, Job, RegisterServices, At
  <2>2. CASE Finish(h) /\ UNCHANGED queue
    BY <1>10, <2>2, EndJob, SameQueue DEF RegisterServices, TypeOK, JobsOK, maps, outer, env
  <2>3. ASSUME NEW e \in job[h].entries, Submit(RegisterJob(e)), UNCHANGED pc,
               job' = [job EXCEPT ![h].entries = @ \ {e}]
        PROVE  TypeOK' /\ JobsOK'
    <3>1. QueueOK'
      BY <2>1, <2>3, RegisterJobType, SubmitJob
    <3>2. /\ pc' = [pc EXCEPT ![h] = "register_services"]
          /\ job' = [job EXCEPT ![h] = [job[h] EXCEPT !.entries = @ \ {e}]]
      BY <2>1, <2>3 DEF TypeOK
    <3>3. [job[h] EXCEPT !.entries = @ \ {e}] \in Job
      BY <2>1 DEF Job
    <3>4. ThreadsOK'
      BY <3>2, <3>3, MoveThread DEF PCs, LoadPCs, ServicePCs, ErasePCs
    <3>5. QED BY <1>10, <3>1, <3>4 DEF RegisterServices, TypeOK, JobsOK, maps, outer, env
  <2>4. QED BY <1>10, <2>2, <2>3 DEF RegisterServices
<1>11. ASSUME NEW w \in Threads, TakeJob(w)
       PROVE  TypeOK' /\ JobsOK'
  <2>1. queue \in Seq(Job) /\ queue # <<>>
    BY <1>11 DEF TakeJob, TypeOK
  <2>2. /\ Tail(queue) \in Seq(Job) /\ Len(Tail(queue)) = Len(queue) - 1
        /\ \A i \in 1..Len(Tail(queue)) : Tail(queue)[i] = queue[i + 1]
        /\ Head(queue) = queue[1] /\ Len(queue) \in Nat /\ Len(queue) >= 1
    BY <2>1, HeadTailProperties, EmptySeq, LenProperties
  <2>3. QueueOK'
    BY <1>11, <2>2 DEF TakeJob, JobsOK
  <2>4. Head(queue) \in Job /\ JobOK(Head(queue))
    BY <2>1, <2>2, ElementOfSeq DEF JobsOK
  <2>5. ThreadsOK'
    BY <1>11, <2>4, MoveThread
    DEF TakeJob, EntryPoint, JobOK, Goto, PCs, LoadPCs, ServicePCs, ErasePCs
  <2>6. QED BY <1>11, <2>3, <2>5 DEF TakeJob, TypeOK, JobsOK, maps, outer, env
<1>12. ASSUME NEW w \in Threads, LoadModel(w)
       PROVE  TypeOK' /\ JobsOK'
  <2>1. pc[w] = "load" /\ ThreadOK(w) /\ job[w] \in Job
    BY <1>12 DEF LoadModel, At, JobsOK, TypeOK
  <2>2. PICK r \in job[w].records, ok \in LoadOutcomes :
          /\ framework' = IF ok THEN [framework EXCEPT ![r.name] = r.timestamp] ELSE framework
          /\ Goto(w, IF ok THEN "loaded" ELSE "failed")
    BY <1>12 DEF LoadModel
  <2>3. r.name \in Models /\ r.timestamp \in Versions
    BY <2>1, <2>2 DEF Job, Record
  <2>4. \E q \in Record : job[w].records = {q}
    BY <2>1 DEF ThreadOK, LoadPCs
  <2>5. ThreadsOK'
    BY <1>12, <2>2, <2>4, KeepJob DEF LoadModel, Goto, PCs, LoadPCs, ServicePCs, ErasePCs
  <2>6. QED BY <1>12, <2>2, <2>3, <2>5, SameQueue DEF LoadModel, TypeOK, JobsOK, maps, env
<1>13. ASSUME NEW w \in Threads, StoreRecord(w)
       PROVE  TypeOK' /\ JobsOK'
  <2>1. pc[w] \in {"loaded", "failed"} /\ job[w] \in Job
    BY <1>13 DEF StoreRecord, At, TypeOK
  <2>2. PICK r \in job[w].records :
          model_map' = [model_map EXCEPT ![r.name] = [timestamp |-> r.timestamp, state |-> pc[w]]]
    BY <1>13 DEF StoreRecord
  <2>3. r.name \in Models /\ r.timestamp \in Versions
    BY <2>1, <2>2 DEF Job, Record
  <2>4. ThreadsOK'
    BY <1>13, EndJob DEF StoreRecord
  <2>5. QED BY <1>13, <2>1, <2>2, <2>3, <2>4, SameQueue
            DEF StoreRecord, TypeOK, JobsOK, outer, env
<1>14. ASSUME NEW w \in Threads, Poll(w)
       PROVE  TypeOK' /\ JobsOK'
  <2>1. pc[w] = "poll" /\ job[w].service \in Services
    BY <1>14 DEF Poll, At, JobsOK, ThreadOK
  <2>2. ThreadsOK'
    <3>1. CASE Goto(w, "register") /\ UNCHANGED job
      <4>1. "register" \in PCs /\ "register" \notin LoadPCs
        BY DEF PCs, LoadPCs
      <4>2. QED BY <2>1, <3>1, <4>1, KeepJob DEF Goto
    <3>2. CASE Finish(w)
      BY <3>2, EndJob
    <3>3. QED BY <1>14, <3>1, <3>2 DEF Poll
  <2>3. QED BY <1>14, <2>2, SameQueue DEF Poll, TypeOK, JobsOK, maps, outer, env
<1>15. ASSUME NEW t \in Threads, RegisterServiceName(t)
       PROVE  TypeOK' /\ JobsOK'
  <2>1. pc[t] = "register" /\ job[t].service \in Services
    BY <1>15 DEF RegisterServiceName, At, JobsOK, ThreadOK, ServicePCs
  <2>2. ThreadsOK'
    BY <1>15, <2>1, KeepJob DEF RegisterServiceName, Goto, PCs, LoadPCs
  <2>3. QED BY <1>15, <2>1, <2>2, SameQueue DEF RegisterServiceName, TypeOK, JobsOK, outer, env
<1>16. ASSUME NEW t \in Threads, RegisterServer(t)
       PROVE  TypeOK' /\ JobsOK'
  <2>1. pc[t] = "wait_config" /\ job[t].service \in Services
    BY <1>16 DEF RegisterServer, At, JobsOK, ThreadOK, ServicePCs
  <2>2. ThreadsOK'
    BY <1>16, <2>1, KeepJob DEF RegisterServer, Goto, PCs, LoadPCs
  <2>3. QED BY <1>16, <2>1, <2>2, SameQueue DEF RegisterServer, TypeOK, JobsOK, env
<1>17. ASSUME NEW t \in Threads, InitServiceModels(t)
       PROVE  TypeOK' /\ JobsOK'
  <2>1. pc[t] = "init_models" /\ job[t].service \in Services
    BY <1>17 DEF InitServiceModels, At, JobsOK, ThreadOK, ServicePCs
  <2>2. ThreadsOK'
    BY <1>17, <2>1, KeepJob DEF InitServiceModels, Goto, PCs, LoadPCs
  <2>3. QED BY <1>17, <2>1, <2>2, SameQueue DEF InitServiceModels, TypeOK, JobsOK, outer, env
<1>18. ASSUME NEW t \in Threads, SetWeight(t)
       PROVE  TypeOK' /\ JobsOK'
  <2>1. pc[t] = "set_weight" /\ job[t] \in Job /\ job[t].service \in Services /\ job[t].weight \in Int
    BY <1>18 DEF SetWeight, At, JobsOK, ThreadOK, ServicePCs, TypeOK, Job
  <2>2. ThreadsOK'
    BY <1>18, <2>1, KeepJob, EndJob DEF SetWeight, Goto, PCs, LoadPCs
  <2>3. EffectiveWeight(job[t].weight) \in Nat
    BY <2>1, ConstantsAssumption DEF EffectiveWeight, Weight
  <2>4. router' \in [Services -> Nat] /\ service_weight_map' \in [Services -> Nat]
    BY <1>18, <2>1, <2>3 DEF SetWeight, PublishWeight, TypeOK
  <2>5. QED BY <1>18, <2>2, <2>4, SameQueue DEF SetWeight, TypeOK, JobsOK, env
<1>19. ASSUME NEW w \in Threads, BindModels(w)
       PROVE  TypeOK' /\ JobsOK'
  <2>1. job[w] \in Job /\ job[w].service \in Services
    BY <1>19 DEF BindModels, At, JobsOK, ThreadOK, ServicePCs, TypeOK
  <2>2. NamesOf(job[w].records) \in SUBSET Models
    BY <2>1 DEF NamesOf, Job, Record
  <2>3. ThreadsOK'
    BY <1>19, EndJob DEF BindModels
  <2>4. QED BY <1>19, <2>1, <2>2, <2>3, SameQueue DEF BindModels, TypeOK, JobsOK, outer, env
<1>20. ASSUME NEW t \in Threads, UnregisterServiceName(t)
       PROVE  TypeOK' /\ JobsOK'
  <2>1. pc[t] = "unregister" /\ job[t] \in Job /\ job[t].services \in SUBSET Services
    BY <1>20 DEF UnregisterServiceName, At, TypeOK, Job
  <2>2. CASE job[t].services = {}
    <3>1. ThreadsOK'
      BY <1>20, <2>2, KeepJob, EndJob
      DEF UnregisterServiceName, Goto, PCs, LoadPCs, ServicePCs, ErasePCs
    <3>2. QED BY <1>20, <2>2, <3>1, SameQueue DEF UnregisterServiceName, TypeOK, JobsOK, env
  <2>3. ASSUME NEW s \in job[t].services,
               service_map' = service_map \ {s},
               router' = [router EXCEPT ![s] = IF s \in service_map THEN 0 ELSE @],
               job' = [job EXCEPT ![t].service = s, ![t].services = @ \ {s}],
               Goto(t, "erase_weight")
        PROVE  TypeOK' /\ JobsOK'
    <3> DEFINE j == [job[t] EXCEPT !.service = s, !.services = @ \ {s}]
    <3>1. j \in Job /\ j.service = s /\ s \in Services
      BY <2>1, <2>3 DEF Job
    <3>2. pc' = [pc EXCEPT ![t] = "erase_weight"] /\ job' = [job EXCEPT ![t] = j]
      BY <2>1, <2>3 DEF Goto, TypeOK
    <3>3. "erase_weight" \in PCs /\ "erase_weight" \notin LoadPCs
      BY DEF PCs, LoadPCs
    <3> HIDE DEF j
    <3>4. ThreadsOK'
      BY <3>1, <3>2, <3>3, MoveThread
    <3>5. QED BY <1>20, <2>3, <3>1, <3>4, SameQueue DEF UnregisterServiceName, TypeOK, JobsOK, env
  <2>4. QED BY <1>20, <2>2, <2>3 DEF UnregisterServiceName
<1>21. ASSUME NEW t \in Threads, EraseWeight(t)
       PROVE  TypeOK' /\ JobsOK'
  <2>1. pc[t] = "erase_weight" /\ job[t].service \in Services
    BY <1>21 DEF EraseWeight, At, JobsOK, ThreadOK, ErasePCs
  <2>2. ThreadsOK'
    BY <1>21, <2>1, KeepJob DEF EraseWeight, Goto, PCs, LoadPCs
  <2>3. QED BY <1>21, <2>1, <2>2, SameQueue DEF EraseWeight, TypeOK, JobsOK, outer, env
<1>22. ASSUME NEW t \in Threads, EraseModels(t)
       PROVE  TypeOK' /\ JobsOK'
  <2>1. pc[t] = "erase_models" /\ job[t].service \in Services
    BY <1>22 DEF EraseModels, At, JobsOK, ThreadOK, ErasePCs
  <2>2. ThreadsOK'
    BY <1>22, <2>1, KeepJob DEF EraseModels, Goto, PCs, LoadPCs, ServicePCs, ErasePCs
  <2>3. QED BY <1>22, <2>1, <2>2, SameQueue DEF EraseModels, TypeOK, JobsOK, outer, env
<1>23. ASSUME NEW w \in Threads, UnloadModels(w)
       PROVE  TypeOK' /\ JobsOK'
  BY <1>23, EndJob, SameQueue DEF UnloadModels, TypeOK, JobsOK, outer, env
<1>24. CASE Shutdown
  BY <1>24, NoMove, SameQueue DEF Shutdown, UnregisterAll, TypeOK, JobsOK
<1>25. ASSUME NEW w \in Threads, StressPoll(w)
       PROVE  TypeOK' /\ JobsOK'
  <2>1. ThreadsOK'
    BY <1>25, KeepJob DEF StressPoll, Goto, PCs, LoadPCs, ServicePCs, ErasePCs
  <2>2. QED BY <1>25, <2>1, SameQueue DEF StressPoll, TypeOK, JobsOK, maps, outer, env
<1>26. ASSUME NEW w \in Threads, StressSet(w)
       PROVE  TypeOK' /\ JobsOK'
  BY <1>26, EndJob, SameQueue DEF StressSet, TypeOK, JobsOK, maps, outer
<1>27. ASSUME NEW s \in Services, ConfigArrives(s)
       PROVE  TypeOK' /\ JobsOK'
  BY <1>27, NoMove, SameQueue DEF ConfigArrives, TypeOK, JobsOK, maps, env
<1>28. CASE UNCHANGED vars
  BY <1>28, NoMove, SameQueue DEF vars, TypeOK, JobsOK, maps, outer, env
<1> HIDE DEF ThreadsOK, QueueOK
<1>29. ASSUME NEW t \in Threads, SharedStep(t)
       PROVE  TypeOK' /\ JobsOK'
  BY <1>29, <1>15, <1>16, <1>17, <1>18, <1>20, <1>21, <1>22 DEF SharedStep
<1>30. ASSUME NEW h \in Handlers, HandlerCall(h) \/ HandlerStep(h)
       PROVE  TypeOK' /\ JobsOK'
  <2>1. h \in Threads
    BY DEF Threads
  <2>2. QED BY <1>30, <2>1, <1>1, <1>2, <1>3, <1>4, <1>5, <1>6, <1>7, <1>8, <1>9, <1>10, <1>29
            DEF HandlerCall, HandlerStep
<1>31. ASSUME NEW w \in Workers, WorkerStep(w)
       PROVE  TypeOK' /\ JobsOK'
  <2>1. w \in Threads
    BY DEF Threads
  <2>2. QED BY <1>31, <2>1, <1>11, <1>12, <1>13, <1>14, <1>19, <1>23, <1>25, <1>26, <1>29
            DEF WorkerStep
<1>32. QED BY <1>24, <1>27, <1>28, <1>30, <1>31 DEF Next

\* The program starts well-formed.
LEMMA InitTypes == Init => TypeOK /\ JobsOK
<1> SUFFICES ASSUME Init PROVE TypeOK /\ JobsOK
  OBVIOUS
<1>1. queue = <<>> /\ queue \in Seq(Job) /\ Len(queue) = 0
  BY EmptySeq DEF Init
<1>2. \A t \in Threads : pc[t] = "idle"
  BY DEF Init
<1>3. TypeOK
  BY <1>1, NoJobType, ConstantsAssumption DEF Init, TypeOK, PCs
<1>4. QED BY <1>1, <1>2, <1>3 DEF JobsOK, ThreadOK, LoadPCs, ServicePCs, ErasePCs

\* Type correctness of the control plane: whatever the posts, the thread
\* counts and the interleaving, every map, job and thread stays well-formed.
THEOREM TypeCorrect == Spec => []TypeOK
BY InitTypes, TypeStep, PTL DEF Spec

-----------------------------------------------------------------------------
(* A service is bound only to models that can be served *)

\* Only a load job changes what the framework serves.
LEMMA FrameworkSteps ==
  ASSUME [Next]_vars, \A w \in Workers : ~LoadModel(w)
  PROVE  UNCHANGED framework
<1> USE DEF outer
<1>1. ASSUME NEW t, SharedStep(t) PROVE UNCHANGED framework
  BY <1>1 DEF SharedStep, RegisterServiceName, RegisterServer, InitServiceModels, SetWeight,
              UnregisterServiceName, EraseWeight, EraseModels
<1>2. ASSUME NEW h \in Handlers, HandlerStep(h) PROVE UNCHANGED framework
  BY <1>1, <1>2 DEF HandlerStep, ReadServices, LoadModels, RegisterServices
<1>3. ASSUME NEW h \in Handlers, HandlerCall(h) PROVE UNCHANGED framework
  BY <1>3 DEF HandlerCall, LoadAndRegister, RejectPost, RegisterNameCall, UnregisterNameCall,
              SetServerStaticWeight, SetWorkMode, UnregisterAll, SetStressParams
<1>4. ASSUME NEW w \in Workers, WorkerStep(w) PROVE UNCHANGED framework
  BY <1>1, <1>4 DEF WorkerStep, TakeJob, StoreRecord, Poll, BindModels, UnloadModels,
                    StressPoll, StressSet
<1>5. ASSUME NEW s \in Services, ConfigArrives(s) PROVE UNCHANGED framework
  BY <1>5 DEF ConfigArrives
<1>6. CASE Shutdown
  BY <1>6 DEF Shutdown, UnregisterAll
<1>7. CASE UNCHANGED vars
  BY <1>7 DEF vars
<1>8. QED BY <1>2, <1>3, <1>4, <1>5, <1>6, <1>7 DEF Next

\* A model that can be served stays so: an unload is logical.
LEMMA ServableStays ==
  ASSUME TypeOK, JobsOK, [Next]_vars, NEW m \in Models, Servable(m)
  PROVE  Servable(m)'
<1>1. CASE \A w \in Workers : ~LoadModel(w)
  BY <1>1, FrameworkSteps DEF Servable
<1>2. ASSUME NEW w \in Workers, LoadModel(w) PROVE Servable(m)'
  <2>1. job[w] \in Job
    BY DEF TypeOK, Threads
  <2>2. PICK r \in job[w].records, ok \in LoadOutcomes :
          framework' = IF ok THEN [framework EXCEPT ![r.name] = r.timestamp] ELSE framework
    BY <1>2 DEF LoadModel
  <2>3. r.timestamp \in Versions
    BY <2>1, <2>2 DEF Job, Record
  <2>4. QED BY <2>2, <2>3, ConstantsAssumption DEF Servable, TypeOK
<1>3. QED BY <1>1, <1>2

\* The records of a job name models.
LEMMA RecordNames ==
  ASSUME TypeOK, NEW t \in Threads
  PROVE  \A r \in job[t].records : r \in Record /\ r.name \in Models /\ r.timestamp \in Versions
<1>1. job[t] \in Job
  BY DEF TypeOK
<1>2. QED BY <1>1 DEF Job, Record

\* One thread moves, to a place where it may be with the job it has there.
LEMMA ServableMove ==
  ASSUME TypeOK, JobsOK, ServingInv, [Next]_vars, NEW t \in Threads, NEW l, NEW j,
         pc' = [pc EXCEPT ![t] = l], job' = [job EXCEPT ![t] = j],
         l \in ServicePCs \cup {"loaded"} => \A r \in j.records : framework'[r.name] # NoVersion
  PROVE  \A u \in Threads : ThreadServable(u)'
<1> SUFFICES ASSUME NEW u \in Threads PROVE ThreadServable(u)'
  OBVIOUS
<1>1. CASE u = t
  <2>1. pc'[u] = l /\ job'[u] = j
    BY <1>1 DEF TypeOK
  <2>2. QED BY <2>1 DEF ThreadServable, Servable
<1>2. CASE u # t
  <2>1. pc'[u] = pc[u] /\ job'[u] = job[u] /\ ThreadServable(u)
    BY <1>2 DEF TypeOK, ServingInv
  <2>2. \A r \in job[u].records : r.name \in Models
    BY RecordNames
  <2>3. QED BY <2>1, <2>2, ServableStays DEF ThreadServable
<1>3. QED BY <1>1, <1>2

\* The same for a thread that keeps its job, and for one that ends it.
LEMMA ServableKeep ==
  ASSUME TypeOK, JobsOK, ServingInv, [Next]_vars, NEW t \in Threads, NEW l,
         pc' = [pc EXCEPT ![t] = l], job' = job,
         l \notin ServicePCs \cup {"loaded"} \/ pc[t] \in ServicePCs
  PROVE  \A u \in Threads : ThreadServable(u)'
<1>1. job' = [job EXCEPT ![t] = job[t]]
  BY DEF TypeOK
<1>2. \A r \in job[t].records : r.name \in Models
  BY RecordNames
<1>3. ASSUME pc[t] \in ServicePCs PROVE \A r \in job[t].records : framework'[r.name] # NoVersion
  BY <1>2, <1>3, ServableStays DEF ServingInv, ThreadServable, Servable
<1>4. QED BY <1>1, <1>3, ServableMove

LEMMA ServableEnd ==
  ASSUME TypeOK, JobsOK, ServingInv, [Next]_vars, NEW t \in Threads, Finish(t)
  PROVE  \A u \in Threads : ThreadServable(u)'
<1>1. "idle" \notin ServicePCs \cup {"loaded"}
  BY DEF ServicePCs
<1>2. QED BY <1>1, ServableMove DEF Finish, Goto

LEMMA ServableNoMove ==
  ASSUME TypeOK, JobsOK, ServingInv, [Next]_vars, UNCHANGED <<pc, job>>
  PROVE  \A u \in Threads : ThreadServable(u)'
<1> SUFFICES ASSUME NEW u \in Threads PROVE ThreadServable(u)'
  OBVIOUS
<1>1. \A r \in job[u].records : r.name \in Models
  BY RecordNames
<1>2. QED BY <1>1, ServableStays DEF ServingInv, ThreadServable

\* What a step leaves alone keeps its part of the invariant.
LEMMA SameRecords ==
  ASSUME TypeOK, JobsOK, ServingInv, [Next]_vars, UNCHANGED model_map
  PROVE  RecordsServable'
BY ServableStays DEF ServingInv, RecordsServable, StateOf

LEMMA SameBindings ==
  ASSUME TypeOK, JobsOK, ServingInv, [Next]_vars, UNCHANGED service_models_map
  PROVE  BoundModelsServable'
<1> SUFFICES ASSUME NEW s \in Services, service_models_map[s] # NoSet, NEW m \in service_models_map[s]
             PROVE  framework'[m] # NoVersion
  BY DEF BoundModelsServable
<1>1. m \in Models /\ Servable(m)
  BY DEF TypeOK, ServingInv, BoundModelsServable, Servable
<1>2. QED BY <1>1, ServableStays DEF Servable

\* Every step preserves the serving invariant.
LEMMA ServingStep ==
  TypeOK /\ JobsOK /\ ServingInv /\ [Next]_vars => ServingInv'
<1> SUFFICES ASSUME TypeOK, JobsOK, ServingInv, [Next]_vars
             PROVE  ServingInv'
  OBVIOUS
<1> DEFINE MovesOK == \A u \in Threads : ThreadServable(u)
<1>1. ASSUME NEW h \in Threads, NEW p \in Posts, LoadAndRegister(h, p)
      PROVE  ServingInv'
  <2>1. MovesOK'
    BY <1>1, ServableMove DEF LoadAndRegister, Goto, ServicePCs
  <2>2. QED BY <1>1, <2>1, SameRecords, SameBindings DEF LoadAndRegister, maps, ServingInv
<1>2. ASSUME NEW h \in Threads, RejectPost(h)
      PROVE  ServingInv'
  BY <1>2, ServableNoMove, SameRecords, SameBindings DEF RejectPost, maps, ServingInv
<1>3. ASSUME NEW h \in Threads, NEW s \in Services, RegisterNameCall(h, s)
      PROVE  ServingInv'
  <2>1. ServiceJob("register_name", s).records = {}
    BY ServiceJobType
  <2>2. MovesOK'
    BY <1>3, <2>1, ServableMove DEF RegisterNameCall, Goto
  <2>3. QED BY <1>3, <2>2, SameRecords, SameBindings DEF RegisterNameCall, maps, ServingInv
<1>4. ASSUME NEW h \in Threads, NEW s \in Services, UnregisterNameCall(h, s)
      PROVE  ServingInv'
  <2>1. MovesOK'
    BY <1>4, ServableMove DEF UnregisterNameCall, Goto, ServicePCs
  <2>2. QED BY <1>4, <2>1, SameRecords, SameBindings DEF UnregisterNameCall, maps, ServingInv
<1>5. ASSUME NEW h \in Threads, NEW s \in Services, NEW w \in StaticWeights,
             SetServerStaticWeight(h, s, w)
      PROVE  ServingInv'
  BY <1>5, ServableNoMove, SameRecords, SameBindings DEF SetServerStaticWeight, maps, ServingInv
<1>6. ASSUME NEW h \in Threads, NEW mode \in {"ServerMode", "RouterMode", ""}, SetWorkMode(h, mode)
      PROVE  ServingInv'
  <2>1. UNCHANGED <<pc, job, model_map, service_models_map>>
    BY <1>6 DEF SetWorkMode, UnregisterAll, maps
  <2>2. QED BY <2>1, ServableNoMove, SameRecords, SameBindings DEF ServingInv
<1>7. ASSUME NEW h \in Threads, NEW s \in Services, SetStressParams(h, s)
      PROVE  ServingInv'
  BY <1>7, ServableNoMove, SameRecords, SameBindings DEF SetStressParams, maps, ServingInv
<1>8. ASSUME NEW h \in Threads, ReadServices(h)
      PROVE  ServingInv'
  <2>1. MovesOK'
    BY <1>8, ServableKeep DEF ReadServices, Goto, ServicePCs
  <2>2. QED BY <1>8, <2>1, SameRecords, SameBindings DEF ReadServices, maps, ServingInv
<1>9. ASSUME NEW h \in Threads, LoadModels(h)
      PROVE  ServingInv'
  <2>1. pc[h] = "load_models" /\ UNCHANGED service_models_map
    BY <1>9 DEF LoadModels, At
  <2>2. CASE Goto(h, "register_services") /\ UNCHANGED <<model_map, queue, job>>
    <3>1. MovesOK'
      BY <2>2, ServableKeep DEF Goto, ServicePCs
    <3>2. QED BY <2>1, <2>2, <3>1, SameRecords, SameBindings DEF ServingInv
  <2>3. ASSUME NEW r \in job[h].records, UNCHANGED pc,
               model_map' = [model_map EXCEPT ![r.name] = [timestamp |-> r.timestamp, state |-> "loading"]],
               job' = [job EXCEPT ![h].records = @ \ {r}]
        PROVE  ServingInv'
    <3>1. /\ pc' = [pc EXCEPT ![h] = "load_models"]
          /\ job' = [job EXCEPT ![h] = [job[h] EXCEPT !.records = @ \ {r}]]
      BY <2>1, <2>3 DEF TypeOK
    <3>2. MovesOK'
      BY <3>1, ServableMove DEF ServicePCs
    <3>3. ASSUME NEW m \in Models, StateOf(m)' = "loaded" PROVE Servable(m)'
      <4>1. StateOf(m) = "loaded"
        BY <2>3, <3>3 DEF StateOf, TypeOK
      <4>2. QED BY <4>1, ServableStays DEF ServingInv, RecordsServable
    <3>4. QED BY <2>1, <3>2, <3>3, SameBindings DEF ServingInv, RecordsServable
  <2>4. QED BY <1>9, <2>2, <2>3 DEF LoadModels
<1>10. ASSUME NEW h \in Threads, RegisterServices(h)
       PROVE  ServingInv'
  <2>1. MovesOK'
    <3>1. CASE Finish(h)
      BY <3>1, ServableEnd
    <3>2. ASSUME NEW e \in job[h].entries, UNCHANGED pc, job' = [job EXCEPT ![h].entries = @ \ {e}]
          PROVE  MovesOK'
      <4>1. /\ pc' = [pc EXCEPT ![h] = "register_services"]
            /\ job' = [job EXCEPT ![h] = [job[h] EXCEPT !.entries = @ \ {e}]]
        BY <1>10, <3>2 DEF TypeOK, RegisterServices, At
      <4>2. QED BY <4>1, ServableMove DEF ServicePCs
    <3>3. QED BY <1>10, <3>1, <3>2 DEF RegisterServices
  <2>2. QED BY <1>10, <2>1, SameRecords, SameBindings DEF RegisterServices, maps, ServingInv
<1>11. ASSUME NEW w \in Threads, TakeJob(w)
       PROVE  ServingInv'
  <2>1. EntryPoint(Head(queue).kind) \notin ServicePCs \cup {"loaded"}
    BY DEF EntryPoint, ServicePCs
  <2>2. MovesOK'
    BY <1>11, <2>1, ServableMove DEF TakeJob, Goto
  <2>3. QED BY <1>11, <2>2, SameRecords, SameBindings DEF TakeJob, maps, ServingInv
<1>12. ASSUME NEW w \in Threads, LoadModel(w)
       PROVE  ServingInv'
  <2>1. PICK r \in job[w].records, ok \in LoadOutcomes :
          /\ framework' = IF ok THEN [framework EXCEPT ![r.name] = r.timestamp] ELSE framework
          /\ Goto(w, IF ok THEN "loaded" ELSE "failed")
    BY <1>12 DEF LoadModel
  <2>2. r.name \in Models /\ r.timestamp \in Versions
    BY RecordNames
  <2>3. job[w].records = {r}
    BY <1>12 DEF LoadModel, At, JobsOK, ThreadOK, LoadPCs
  <2>4. pc' = [pc EXCEPT ![w] = IF ok THEN "loaded" ELSE "failed"] /\ job' = [job EXCEPT ![w] = job[w]]
    BY <1>12, <2>1 DEF LoadModel, Goto, TypeOK
  <2>5. ok => framework'[r.name] # NoVersion
    BY <2>1, <2>2, ConstantsAssumption DEF TypeOK
  <2>6. MovesOK'
    BY <2>3, <2>4, <2>5, ServableMove DEF ServicePCs
  <2>7. QED BY <1>12, <2>6, SameRecords, SameBindings DEF LoadModel, maps, ServingInv
<1>13. ASSUME NEW w \in Threads, StoreRecord(w)
       PROVE  ServingInv'
  <2>1. PICK r \in job[w].records :
          model_map' = [model_map EXCEPT ![r.name] = [timestamp |-> r.timestamp, state |-> pc[w]]]
    BY <1>13 DEF StoreRecord
  <2>2. ASSUME NEW m \in Models, StateOf(m)' = "loaded" PROVE Servable(m)'
    <3>1. CASE m = r.name /\ pc[w] = "loaded"
      BY <2>1, <3>1, ServableStays DEF ServingInv, ThreadServable
    <3>2. CASE m # r.name \/ pc[w] # "loaded"
      <4>1. StateOf(m) = "loaded"
        BY <2>1, <2>2, <3>2 DEF StateOf, TypeOK
      <4>2. QED BY <4>1, ServableStays DEF ServingInv, RecordsServable
    <3>3. QED BY <3>1, <3>2
  <2>3. QED BY <1>13, <2>2, ServableEnd, SameBindings DEF StoreRecord, ServingInv, RecordsServable
<1>14. ASSUME NEW w \in Threads, Poll(w)
       PROVE  ServingInv'
  <2>1. CASE Finish(w)
    BY <1>14, <2>1, ServableEnd, SameRecords, SameBindings DEF Poll, maps, ServingInv
  <2>2. CASE /\ \A r \in job[w].records : StateOf(r.name) = "loaded"
             /\ Goto(w, "register") /\ UNCHANGED job
    <3>1. \A r \in job[w].records : framework'[r.name] # NoVersion
      BY <2>2, RecordNames, ServableStays DEF ServingInv, RecordsServable, Servable
    <3>2. pc' = [pc EXCEPT ![w] = "register"] /\ job' = [job EXCEPT ![w] = job[w]]
      BY <2>2 DEF Goto, TypeOK
    <3>3. MovesOK'
      BY <3>1, <3>2, ServableMove
    <3>4. QED BY <1>14, <3>3, SameRecords, SameBindings DEF Poll, maps, ServingInv
  <2>3. QED BY <1>14, <2>1, <2>2 DEF Poll
<1>15. ASSUME NEW t \in Threads, RegisterServiceName(t)
       PROVE  ServingInv'
  <2>1. MovesOK'
    BY <1>15, ServableKeep DEF RegisterServiceName, At, Goto, ServicePCs
  <2>2. QED BY <1>15, <2>1, SameRecords, SameBindings DEF RegisterServiceName, ServingInv
<1>16. ASSUME NEW t \in Threads, RegisterServer(t)
       PROVE  ServingInv'
  <2>1. MovesOK'
    BY <1>16, ServableKeep DEF RegisterServer, At, Goto, ServicePCs
  <2>2. QED BY <1>16, <2>1, SameRecords, SameBindings DEF RegisterServer, ServingInv
<1>17. ASSUME NEW t \in Threads, InitServiceModels(t)
       PROVE  ServingInv'
  <2>1. MovesOK'
    BY <1>17, ServableKeep DEF InitServiceModels, At, Goto, ServicePCs
  <2>2. UNCHANGED framework
    BY <1>17 DEF InitServiceModels, outer
  <2>3. BoundModelsServable'
    BY <1>17, <2>2 DEF InitServiceModels, ServingInv, BoundModelsServable, TypeOK
  <2>4. QED BY <1>17, <2>1, <2>3, SameRecords DEF InitServiceModels, ServingInv
<1>18. ASSUME NEW t \in Threads, SetWeight(t)
       PROVE  ServingInv'
  <2>1. MovesOK'
    BY <1>18, ServableKeep, ServableEnd DEF SetWeight, At, Goto, ServicePCs
  <2>2. QED BY <1>18, <2>1, SameRecords, SameBindings DEF SetWeight, ServingInv
<1>19. ASSUME NEW w \in Threads, BindModels(w)
       PROVE  ServingInv'
  <2>1. UNCHANGED <<framework, model_map>> /\ pc[w] = "bind"
    BY <1>19 DEF BindModels, At, outer
  <2>2. \A m \in NamesOf(job[w].records) : framework[m] # NoVersion
    BY <2>1 DEF ServingInv, ThreadServable, ServicePCs, NamesOf, Servable
  <2>3. BoundModelsServable'
    BY <1>19, <2>1, <2>2 DEF BindModels, ServingInv, BoundModelsServable, TypeOK
  <2>4. QED BY <1>19, <2>1, <2>3, ServableEnd, SameRecords DEF BindModels, ServingInv
<1>20. ASSUME NEW t \in Threads, UnregisterServiceName(t)
       PROVE  ServingInv'
  <2>1. MovesOK'
    <3>1. CASE job[t].services = {}
      BY <1>20, <3>1, ServableKeep, ServableEnd DEF UnregisterServiceName, Goto, ServicePCs
    <3>2. ASSUME NEW s \in job[t].services, Goto(t, "erase_weight"),
                 job' = [job EXCEPT ![t].service = s, ![t].services = @ \ {s}]
          PROVE  MovesOK'
      <4>1. job' = [job EXCEPT ![t] = [job[t] EXCEPT !.service = s, !.services = @ \ {s}]]
        BY <3>2 DEF TypeOK
      <4>2. QED BY <3>2, <4>1, ServableMove DEF Goto, ServicePCs
    <3>3. QED BY <1>20, <3>1, <3>2 DEF UnregisterServiceName
  <2>2. QED BY <1>20, <2>1, SameRecords, SameBindings DEF UnregisterServiceName, ServingInv
<1>21. ASSUME NEW t \in Threads, EraseWeight(t)
       PROVE  ServingInv'
  <2>1. MovesOK'
    BY <1>21, ServableKeep DEF EraseWeight, Goto, ServicePCs
  <2>2. QED BY <1>21, <2>1, SameRecords, SameBindings DEF EraseWeight, ServingInv
<1>22. ASSUME NEW t \in Threads, EraseModels(t)
       PROVE  ServingInv'
  <2>1. MovesOK'
    BY <1>22, ServableKeep DEF EraseModels, Goto, ServicePCs
  <2>2. UNCHANGED framework
    BY <1>22 DEF EraseModels, outer
  <2>3. BoundModelsServable'
    BY <1>22, <2>2 DEF EraseModels, ServingInv, BoundModelsServable, TypeOK
  <2>4. QED BY <1>22, <2>1, <2>3, SameRecords DEF EraseModels, ServingInv
<1>23. ASSUME NEW w \in Threads, UnloadModels(w)
       PROVE  ServingInv'
  <2>1. ASSUME NEW m \in Models, StateOf(m)' = "loaded" PROVE Servable(m)'
    <3>1. StateOf(m) = "loaded"
      BY <1>23, <2>1 DEF UnloadModels, StateOf
    <3>2. QED BY <3>1, ServableStays DEF ServingInv, RecordsServable
  <2>2. QED BY <1>23, <2>1, ServableEnd, SameBindings DEF UnloadModels, ServingInv, RecordsServable
<1>24. CASE Shutdown
  BY <1>24, ServableNoMove, SameRecords, SameBindings DEF Shutdown, UnregisterAll, ServingInv
<1>25. ASSUME NEW w \in Threads, StressPoll(w)
       PROVE  ServingInv'
  <2>1. MovesOK'
    BY <1>25, ServableKeep DEF StressPoll, Goto, ServicePCs
  <2>2. QED BY <1>25, <2>1, SameRecords, SameBindings DEF StressPoll, maps, ServingInv
<1>26. ASSUME NEW w \in Threads, StressSet(w)
       PROVE  ServingInv'
  BY <1>26, ServableEnd, SameRecords, SameBindings DEF StressSet, maps, ServingInv
<1>27. ASSUME NEW s \in Services, ConfigArrives(s)
       PROVE  ServingInv'
  BY <1>27, ServableNoMove, SameRecords, SameBindings DEF ConfigArrives, maps, ServingInv
<1>28. CASE UNCHANGED vars
  BY <1>28, ServableNoMove, SameRecords, SameBindings DEF vars, maps, ServingInv
<1> HIDE DEF MovesOK
<1>29. ASSUME NEW t \in Threads, SharedStep(t)
       PROVE  ServingInv'
  BY <1>29, <1>15, <1>16, <1>17, <1>18, <1>20, <1>21, <1>22 DEF SharedStep
<1>30. ASSUME NEW h \in Handlers, HandlerCall(h) \/ HandlerStep(h)
       PROVE  ServingInv'
  <2>1. h \in Threads
    BY DEF Threads
  <2>2. QED BY <1>30, <2>1, <1>1, <1>2, <1>3, <1>4, <1>5, <1>6, <1>7, <1>8, <1>9, <1>10, <1>29
            DEF HandlerCall, HandlerStep
<1>31. ASSUME NEW w \in Workers, WorkerStep(w)
       PROVE  ServingInv'
  <2>1. w \in Threads
    BY DEF Threads
  <2>2. QED BY <1>31, <2>1, <1>11, <1>12, <1>13, <1>14, <1>19, <1>23, <1>25, <1>26, <1>29
            DEF WorkerStep
<1>32. QED BY <1>24, <1>27, <1>28, <1>30, <1>31 DEF Next

\* The three invariants hold from the start.
LEMMA InitServing == Init => ServingInv
<1> SUFFICES ASSUME Init PROVE ServingInv
  OBVIOUS
<1>1. RecordsServable
  BY DEF Init, RecordsServable, StateOf
<1>2. \A t \in Threads : ThreadServable(t)
  BY DEF Init, ThreadServable, ServicePCs
<1>3. BoundModelsServable
  BY DEF Init, BoundModelsServable
<1>4. QED BY <1>1, <1>2, <1>3 DEF ServingInv

\* A service is bound only to models that ModelFramework::predict finds
\* (http_service.cc:285): loads, unloads and registrations of overlapping posts
\* may interleave as they like.
THEOREM BoundServable == Spec => []BoundModelsServable
<1>1. ServingInv => BoundModelsServable
  BY DEF ServingInv
<1>2. QED BY <1>1, InitTypes, TypeStep, InitServing, ServingStep, PTL DEF Spec

-----------------------------------------------------------------------------
(* The control plane implements ModelServing *)

\* Only three steps change what a service is bound to.
LEMMA BindingSteps ==
  ASSUME [Next]_vars,
         \A t \in Threads : ~InitServiceModels(t) /\ ~BindModels(t) /\ ~EraseModels(t)
  PROVE  UNCHANGED service_models_map
<1> USE DEF maps
<1>1. ASSUME NEW t \in Threads, SharedStep(t) PROVE UNCHANGED service_models_map
  BY <1>1 DEF SharedStep, RegisterServiceName, RegisterServer, SetWeight,
              UnregisterServiceName, EraseWeight
<1>2. ASSUME NEW h \in Handlers, HandlerStep(h) PROVE UNCHANGED service_models_map
  BY <1>1, <1>2 DEF HandlerStep, ReadServices, LoadModels, RegisterServices, Threads
<1>3. ASSUME NEW h \in Handlers, HandlerCall(h) PROVE UNCHANGED service_models_map
  BY <1>3 DEF HandlerCall, LoadAndRegister, RejectPost, RegisterNameCall, UnregisterNameCall,
              SetServerStaticWeight, SetWorkMode, UnregisterAll, SetStressParams
<1>4. ASSUME NEW w \in Workers, WorkerStep(w) PROVE UNCHANGED service_models_map
  BY <1>1, <1>4 DEF WorkerStep, TakeJob, LoadModel, StoreRecord, Poll, UnloadModels,
                    StressPoll, StressSet, Threads
<1>5. ASSUME NEW s \in Services, ConfigArrives(s) PROVE UNCHANGED service_models_map
  BY <1>5 DEF ConfigArrives
<1>6. CASE Shutdown
  BY <1>6 DEF Shutdown, UnregisterAll
<1>7. CASE UNCHANGED vars
  BY <1>7 DEF vars
<1>8. QED BY <1>2, <1>3, <1>4, <1>5, <1>6, <1>7 DEF Next

\* Every step is a step of ModelServing, or changes nothing it can see.
LEMMA ServingSimulation ==
  ASSUME TypeOK, JobsOK, ServingInv, [Next]_vars
  PROVE  [Serving!Next]_<<{m \in Models : framework[m] # NoVersion}, service_models_map>>
<1> DEFINE Found == {m \in Models : framework[m] # NoVersion}
<1>1. ASSUME NEW w \in Workers, LoadModel(w)
      PROVE  [Serving!Next]_<<Found, service_models_map>>
  <2>1. w \in Threads /\ UNCHANGED service_models_map
    BY <1>1 DEF Threads, LoadModel, maps
  <2>2. PICK r \in job[w].records, ok \in LoadOutcomes :
          framework' = IF ok THEN [framework EXCEPT ![r.name] = r.timestamp] ELSE framework
    BY <1>1 DEF LoadModel
  <2>3. r.name \in Models /\ r.timestamp \in Versions
    BY <2>1, RecordNames
  <2>4. CASE ok
    <3>1. framework' = [framework EXCEPT ![r.name] = r.timestamp] /\ r.timestamp # NoVersion
      BY <2>2, <2>3, <2>4, ConstantsAssumption
    <3>2. \A m \in Models : framework'[m] # NoVersion <=> (framework[m] # NoVersion \/ m = r.name)
      BY <2>3, <3>1 DEF TypeOK
    <3>3. Found' = Found \cup {r.name}
      BY <2>3, <3>2
    <3>4. QED BY <2>1, <2>3, <3>3 DEF Serving!Next, Serving!Load
  <2>5. CASE ~ok
    BY <2>1, <2>2, <2>5
  <2>6. QED BY <2>4, <2>5
<1>2. ASSUME NEW t \in Threads, InitServiceModels(t)
      PROVE  [Serving!Next]_<<Found, service_models_map>>
  <2>1. /\ job[t].service \in Services /\ UNCHANGED framework
        /\ service_models_map' = [service_models_map EXCEPT ![job[t].service] = IF @ = NoSet THEN {} ELSE @]
    BY <1>2 DEF InitServiceModels, At, JobsOK, ThreadOK, ServicePCs, outer
  <2>2. CASE service_models_map[job[t].service] = NoSet
    <3>1. service_models_map' = [service_models_map EXCEPT ![job[t].service] = {}]
      BY <2>1, <2>2
    <3>2. Serving!Bind(job[t].service, {})
      BY <2>1, <3>1 DEF Serving!Bind
    <3>3. {} \in SUBSET Models
      OBVIOUS
    <3>4. QED BY <2>1, <3>2, <3>3 DEF Serving!Next
  <2>3. CASE service_models_map[job[t].service] # NoSet
    <3>1. UNCHANGED service_models_map
      BY <2>1, <2>3 DEF TypeOK
    <3>2. QED BY <2>1, <3>1
  <2>4. QED BY <2>2, <2>3
<1>3. ASSUME NEW t \in Threads, BindModels(t)
      PROVE  [Serving!Next]_<<Found, service_models_map>>
  <2>1. /\ job[t].service \in Services /\ UNCHANGED framework /\ pc[t] = "bind"
        /\ service_models_map' = [service_models_map EXCEPT ![job[t].service] = NamesOf(job[t].records)]
    BY <1>3 DEF BindModels, At, JobsOK, ThreadOK, ServicePCs, outer
  <2>2. NamesOf(job[t].records) \subseteq Found
    BY <2>1, RecordNames DEF ServingInv, ThreadServable, ServicePCs, NamesOf, Servable
  <2>3. QED BY <2>1, <2>2 DEF Serving!Next, Serving!Bind
<1>4. ASSUME NEW t \in Threads, EraseModels(t)
      PROVE  [Serving!Next]_<<Found, service_models_map>>
  <2>1. /\ job[t].service \in Services /\ UNCHANGED framework
        /\ service_models_map' = [service_models_map EXCEPT ![job[t].service] = NoSet]
    BY <1>4 DEF EraseModels, At, JobsOK, ThreadOK, ErasePCs, outer
  <2>2. QED BY <2>1 DEF Serving!Next, Serving!Unbind
<1>5. CASE /\ \A w \in Workers : ~LoadModel(w)
           /\ \A t \in Threads : ~InitServiceModels(t) /\ ~BindModels(t) /\ ~EraseModels(t)
  BY <1>5, FrameworkSteps, BindingSteps
<1>6. QED BY <1>1, <1>2, <1>3, <1>4, <1>5

\* The control plane keeps its promise to the prediction path: models become
\* servable and stay so, and a service is bound to servable models only.
THEOREM ImplementsServing == Spec => ServingSpec
<1>1. Init => Serving!Init
  BY DEF Init, Serving!Init
<1>2. QED
  BY <1>1, InitTypes, TypeStep, InitServing, ServingStep, ServingSimulation, PTL
  DEF Spec, ServingSpec, Serving!Spec

-----------------------------------------------------------------------------
(***************************************************************************)
(* The Router publishes exactly the names of service_map_: proof for any   *)
(* number of services, models, posts and threads.  What makes it true is   *)
(* the lock: a registration that waits for its router config stays inside  *)
(* service_map_.wlock(), so no other thread changes the map or unregisters *)
(* the name until the Router has the server.                               *)
(***************************************************************************)

\* The thread that waits for a router config is the one that owns the lock.
WaiterOwns ==
  \A t \in Threads : pc[t] = "wait_config" <=> service_map_owner = t

\* The name it registers is in the map already.
PendingRegistered ==
  \A t \in Threads : pc[t] = "wait_config" => job[t].service \in service_map

\* RouterMatchesServiceMap, name by name.
Published(s) ==
  router[s] # 0 <=>
    s \in service_map /\ \A t \in Threads : pc[t] = "wait_config" => job[t].service # s

RouterInv ==
  WaiterOwns /\ PendingRegistered /\ \A s \in Services : Published(s)

-----------------------------------------------------------------------------
\* The waiting threads and their jobs are the same after the step.
SameWaiters ==
  \A t \in Threads : /\ pc'[t] = "wait_config" <=> pc[t] = "wait_config"
                     /\ pc[t] = "wait_config" => job'[t].service = job[t].service

\* A step that leaves the maps, the lock and the waiting threads alone.
LEMMA Quiet ==
  ASSUME RouterInv, SameWaiters, UNCHANGED <<router, service_map, service_map_owner>>
  PROVE  RouterInv'
BY DEF RouterInv, SameWaiters, WaiterOwns, PendingRegistered, Published

\* A thread that neither waits nor starts to wait does not disturb the others.
LEMMA OtherMoves ==
  ASSUME TypeOK, NEW t \in Threads, NEW l, l # "wait_config", pc[t] # "wait_config",
         pc' = [pc EXCEPT ![t] = l],
         \A u \in Threads : u # t => job'[u] = job[u]
  PROVE  SameWaiters
BY DEF SameWaiters, TypeOK

LEMMA OtherStays ==
  ASSUME TypeOK, NEW t \in Threads, pc[t] # "wait_config", UNCHANGED pc,
         \A u \in Threads : u # t => job'[u] = job[u]
  PROVE  SameWaiters
BY DEF SameWaiters, TypeOK

LEMMA NobodyMoves ==
  ASSUME UNCHANGED <<pc, job>>
  PROVE  SameWaiters
BY DEF SameWaiters

\* While the lock is free nobody waits.
LEMMA FreeMeansNoWaiter ==
  ASSUME RouterInv, ServiceMapFree, NEW t \in Threads
  PROVE  pc[t] # "wait_config"
BY ConstantsAssumption DEF RouterInv, WaiterOwns, ServiceMapFree

\* unregisterAll takes every name off the map and off the Router at once.
LEMMA UnregisterAllKeeps ==
  ASSUME TypeOK, RouterInv, UnregisterAll, UNCHANGED <<pc, job>>
  PROVE  RouterInv'
<1>1. \A t \in Threads : pc[t] # "wait_config"
  BY FreeMeansNoWaiter DEF UnregisterAll
<1>2. ASSUME NEW s \in Services PROVE Published(s)'
  <2>1. router'[s] = IF s \in service_map THEN 0 ELSE router[s]
    BY DEF UnregisterAll
  <2>2. QED BY <2>1 DEF RouterInv, Published, UnregisterAll
<1>3. WaiterOwns' /\ PendingRegistered'
  BY <1>1 DEF RouterInv, WaiterOwns, PendingRegistered, UnregisterAll
<1>4. QED BY <1>2, <1>3 DEF RouterInv

-----------------------------------------------------------------------------
\* A handler that takes a call moves from idle; it holds no lock.
LEMMA CallKeeps ==
  ASSUME TypeOK, RouterInv, NEW h \in Handlers, HandlerCall(h)
  PROVE  RouterInv'
<1>1. h \in Threads
  BY DEF Threads
<1>2. ASSUME NEW p \in Posts, LoadAndRegister(h, p) PROVE RouterInv'
  <2>1. SameWaiters
    BY <1>1, <1>2, OtherMoves DEF LoadAndRegister, Call, At, Goto, TypeOK
  <2>2. QED BY <1>2, <2>1, Quiet DEF LoadAndRegister, maps, outer
<1>3. CASE RejectPost(h)
  BY <1>3, NobodyMoves, Quiet DEF RejectPost, maps, outer
<1>4. ASSUME NEW s \in Services, RegisterNameCall(h, s) PROVE RouterInv'
  <2>1. SameWaiters
    BY <1>1, <1>4, OtherMoves DEF RegisterNameCall, Call, At, Goto, TypeOK
  <2>2. QED BY <1>4, <2>1, Quiet DEF RegisterNameCall, maps, outer
<1>5. ASSUME NEW s \in Services, UnregisterNameCall(h, s) PROVE RouterInv'
  <2>1. SameWaiters
    BY <1>1, <1>5, OtherMoves DEF UnregisterNameCall, Call, At, Goto, TypeOK
  <2>2. QED BY <1>5, <2>1, Quiet DEF UnregisterNameCall, maps, outer
<1>6. ASSUME NEW s \in Services, NEW w \in StaticWeights, SetServerStaticWeight(h, s, w)
      PROVE  RouterInv'
  <2>1. router' = [router EXCEPT ![s] = IF @ = 0 THEN 0 ELSE w]
    BY <1>6 DEF SetServerStaticWeight, PublishWeight
  <2>2. \A q \in Services : router'[q] # 0 <=> router[q] # 0
    <3>1. router \in [Services -> Nat]
      BY DEF TypeOK
    <3>2. w # 0
      BY ConstantsAssumption DEF Weight
    <3>3. QED BY <2>1, <3>1, <3>2
  <2>3. UNCHANGED <<pc, job, service_map, service_map_owner>>
    BY <1>6 DEF SetServerStaticWeight, maps
  <2>4. QED BY <2>2, <2>3 DEF RouterInv, WaiterOwns, PendingRegistered, Published
<1>7. ASSUME NEW mode \in {"ServerMode", "RouterMode", ""}, SetWorkMode(h, mode) PROVE RouterInv'
  <2>1. UNCHANGED <<pc, job>>
    BY <1>7 DEF SetWorkMode
  <2>2. CASE UNCHANGED <<maps, outer, work_mode>>
    BY <2>1, <2>2, NobodyMoves, Quiet DEF maps, outer
  <2>3. CASE UnregisterAll
    BY <2>1, <2>3, UnregisterAllKeeps
  <2>4. QED BY <1>7, <2>2, <2>3 DEF SetWorkMode
<1>8. ASSUME NEW s \in Services, SetStressParams(h, s) PROVE RouterInv'
  BY <1>8, NobodyMoves, Quiet DEF SetStressParams, maps, outer
<1>9. QED BY <1>2, <1>3, <1>4, <1>5, <1>6, <1>7, <1>8 DEF HandlerCall

\* The steps of register_service_name and unregister_service_name.
LEMMA SharedKeeps ==
  ASSUME TypeOK, JobsOK, RouterInv, NEW t \in Threads, SharedStep(t)
  PROVE  RouterInv'
<1>1. CASE RegisterServiceName(t)
  <2> DEFINE s == job[t].service
  <2>1. /\ pc[t] = "register" /\ s \in Services /\ \A u \in Threads : pc[u] # "wait_config"
        /\ UNCHANGED <<job, router>>
    BY <1>1, FreeMeansNoWaiter
    DEF RegisterServiceName, At, JobsOK, ThreadOK, ServicePCs, outer
  <2>2. CASE Goto(t, "set_weight") /\ UNCHANGED <<service_map, service_map_owner>>
    BY <2>1, <2>2, OtherMoves, Quiet DEF Goto
  <2>3. CASE /\ s \notin service_map /\ service_map' = service_map \cup {s}
             /\ service_map_owner' = t /\ Goto(t, "wait_config")
    <3>1. \A u \in Threads : pc'[u] = "wait_config" <=> u = t
      BY <2>1, <2>3 DEF Goto, TypeOK
    <3>2. WaiterOwns' /\ PendingRegistered'
      BY <2>1, <2>3, <3>1 DEF WaiterOwns, PendingRegistered
    <3>3. \A q \in Services : Published(q)'
      BY <2>1, <2>3, <3>1 DEF RouterInv, Published
    <3>4. QED BY <3>2, <3>3 DEF RouterInv
  <2>4. QED BY <1>1, <2>2, <2>3 DEF RegisterServiceName
<1>2. CASE RegisterServer(t)
  <2> DEFINE s == job[t].service
  <2>1. /\ pc[t] = "wait_config" /\ s \in Services /\ service_map_owner = t
        /\ service_map_owner' = NoThread /\ UNCHANGED <<job, service_map>>
        /\ router' = [router EXCEPT ![s] = IF @ = 0 THEN 1 ELSE @]
        /\ pc' = [pc EXCEPT ![t] = "init_models"]
    BY <1>2 DEF RegisterServer, At, Goto, JobsOK, ThreadOK, ServicePCs, RouterInv, WaiterOwns
  <2>2. \A u \in Threads : pc[u] = "wait_config" <=> u = t
    BY <2>1 DEF RouterInv, WaiterOwns
  <2>3. \A u \in Threads : pc'[u] # "wait_config"
    BY <2>1, <2>2 DEF TypeOK
  <2>4. WaiterOwns' /\ PendingRegistered'
    BY <2>1, <2>3, ConstantsAssumption DEF WaiterOwns, PendingRegistered
  <2>5. ASSUME NEW q \in Services PROVE Published(q)'
    <3>1. CASE q = s
      <4>1. router \in [Services -> Nat]
        BY DEF TypeOK
      <4>2. router'[q] # 0
        BY <2>1, <3>1, <4>1
      <4>3. q \in service_map
        BY <2>1, <3>1 DEF RouterInv, PendingRegistered
      <4>4. QED BY <2>1, <2>3, <4>2, <4>3 DEF Published
    <3>2. CASE q # s
      <4>1. router'[q] = router[q]
        BY <2>1, <3>2 DEF TypeOK
      <4>2. QED BY <2>1, <2>2, <2>3, <3>2, <4>1 DEF RouterInv, Published
    <3>3. QED BY <3>1, <3>2
  <2>6. QED BY <2>4, <2>5 DEF RouterInv
<1>3. CASE InitServiceModels(t)
  <2>1. SameWaiters
    BY <1>3, OtherMoves DEF InitServiceModels, At, Goto
  <2>2. QED BY <1>3, <2>1, Quiet DEF InitServiceModels, outer
<1>4. CASE SetWeight(t)
  <2> DEFINE s == job[t].service
             w == EffectiveWeight(job[t].weight)
  <2>1. pc[t] = "set_weight" /\ s \in Services /\ job[t] \in Job
    BY <1>4 DEF SetWeight, At, JobsOK, ThreadOK, ServicePCs, TypeOK
  <2>2. w \in Nat /\ w # 0
    BY <2>1, ConstantsAssumption DEF EffectiveWeight, Weight, Job
  <2>3. SameWaiters
    BY <1>4, <2>1, OtherMoves DEF SetWeight, Goto, Finish, TypeOK
  <2>4. router' = [router EXCEPT ![s] = IF @ = 0 THEN 0 ELSE w] \/ UNCHANGED router
    BY <1>4 DEF SetWeight, PublishWeight
  <2> HIDE DEF w, s
  <2>5. \A q \in Services : router'[q] # 0 <=> router[q] # 0
    BY <2>1, <2>2, <2>4 DEF TypeOK
  <2>6. UNCHANGED <<service_map, service_map_owner>>
    BY <1>4 DEF SetWeight
  <2>7. QED BY <2>3, <2>5, <2>6 DEF SameWaiters, RouterInv, WaiterOwns, PendingRegistered, Published
<1>5. CASE UnregisterServiceName(t)
  <2>1. pc[t] = "unregister" /\ UNCHANGED service_map_owner /\ job[t] \in Job
    BY <1>5 DEF UnregisterServiceName, At, TypeOK
  <2>2. CASE job[t].services = {}
    <3>1. SameWaiters
      BY <1>5, <2>1, <2>2, OtherMoves DEF UnregisterServiceName, Goto, Finish, TypeOK
    <3>2. QED BY <1>5, <2>1, <2>2, <3>1, Quiet DEF UnregisterServiceName
  <2>3. ASSUME NEW s \in job[t].services, ServiceMapFree,
               service_map' = service_map \ {s},
               router' = [router EXCEPT ![s] = IF s \in service_map THEN 0 ELSE @],
               Goto(t, "erase_weight")
        PROVE  RouterInv'
    <3>1. s \in Services
      BY <2>1 DEF Job
    <3>2. \A u \in Threads : pc[u] # "wait_config" /\ pc'[u] # "wait_config"
      BY <2>1, <2>3, FreeMeansNoWaiter DEF Goto, TypeOK
    <3>3. WaiterOwns' /\ PendingRegistered'
      BY <2>1, <3>2 DEF RouterInv, WaiterOwns, PendingRegistered
    <3>4. ASSUME NEW q \in Services PROVE Published(q)'
      <4>1. router'[q] = IF q = s /\ s \in service_map THEN 0 ELSE router[q]
        BY <2>3, <3>1 DEF TypeOK
      <4>2. QED BY <2>3, <3>2, <4>1 DEF RouterInv, Published
    <3>5. QED BY <3>3, <3>4 DEF RouterInv
  <2>4. QED BY <1>5, <2>2, <2>3 DEF UnregisterServiceName
<1>6. CASE EraseWeight(t)
  <2>1. SameWaiters
    BY <1>6, OtherMoves DEF EraseWeight, At, Goto
  <2>2. QED BY <1>6, <2>1, Quiet DEF EraseWeight, outer
<1>7. CASE EraseModels(t)
  <2>1. SameWaiters
    BY <1>7, OtherMoves DEF EraseModels, At, Goto
  <2>2. QED BY <1>7, <2>1, Quiet DEF EraseModels, outer
<1>8. QED BY <1>1, <1>2, <1>3, <1>4, <1>5, <1>6, <1>7 DEF SharedStep

\* The other steps of loadAndRegister touch neither the Router nor the lock.
LEMMA HandlerKeeps ==
  ASSUME TypeOK, JobsOK, RouterInv, NEW h \in Handlers, HandlerStep(h)
  PROVE  RouterInv'
<1>1. h \in Threads
  BY DEF Threads
<1>2. CASE ReadServices(h)
  <2>1. SameWaiters
    BY <1>1, <1>2, OtherMoves DEF ReadServices, At, Goto
  <2>2. QED BY <1>2, <2>1, Quiet DEF ReadServices, maps, outer
<1>3. CASE LoadModels(h)
  <2>1. SameWaiters
    BY <1>1, <1>3, OtherMoves, OtherStays DEF LoadModels, At, Goto, TypeOK
  <2>2. QED BY <1>3, <2>1, Quiet DEF LoadModels, outer
<1>4. CASE RegisterServices(h)
  <2>1. SameWaiters
    BY <1>1, <1>4, OtherMoves, OtherStays DEF RegisterServices, At, Goto, Finish, TypeOK
  <2>2. QED BY <1>4, <2>1, Quiet DEF RegisterServices, maps, outer
<1>5. QED BY <1>1, <1>2, <1>3, <1>4, SharedKeeps DEF HandlerStep

\* Nor do the steps that only pool threads take.
LEMMA WorkerKeeps ==
  ASSUME TypeOK, JobsOK, RouterInv, NEW w \in Workers, WorkerStep(w)
  PROVE  RouterInv'
<1>1. w \in Threads
  BY DEF Threads
<1>2. CASE TakeJob(w)
  <2>1. EntryPoint(Head(queue).kind) # "wait_config"
    BY DEF EntryPoint
  <2>2. SameWaiters
    BY <1>1, <1>2, <2>1, OtherMoves DEF TakeJob, At, Goto, TypeOK
  <2>3. QED BY <1>2, <2>2, Quiet DEF TakeJob, maps, outer
<1>3. CASE LoadModel(w)
  <2>1. SameWaiters
    BY <1>1, <1>3, OtherMoves DEF LoadModel, At, Goto
  <2>2. QED BY <1>3, <2>1, Quiet DEF LoadModel, maps
<1>4. CASE StoreRecord(w)
  <2>1. SameWaiters
    BY <1>1, <1>4, OtherMoves DEF StoreRecord, At, Goto, Finish, TypeOK
  <2>2. QED BY <1>4, <2>1, Quiet DEF StoreRecord, outer
<1>5. CASE Poll(w)
  <2>1. SameWaiters
    BY <1>1, <1>5, OtherMoves DEF Poll, At, Goto, Finish, TypeOK
  <2>2. QED BY <1>5, <2>1, Quiet DEF Poll, maps, outer
<1>6. CASE BindModels(w)
  <2>1. SameWaiters
    BY <1>1, <1>6, OtherMoves DEF BindModels, At, Goto, Finish, TypeOK
  <2>2. QED BY <1>6, <2>1, Quiet DEF BindModels, outer
<1>7. CASE UnloadModels(w)
  <2>1. SameWaiters
    BY <1>1, <1>7, OtherMoves DEF UnloadModels, At, Goto, Finish, TypeOK
  <2>2. QED BY <1>7, <2>1, Quiet DEF UnloadModels, outer
<1>8. CASE StressPoll(w)
  <2>1. SameWaiters
    BY <1>1, <1>8, OtherMoves DEF StressPoll, At, Goto
  <2>2. QED BY <1>8, <2>1, Quiet DEF StressPoll, maps, outer
<1>9. CASE StressSet(w)
  <2>1. SameWaiters
    BY <1>1, <1>9, OtherMoves DEF StressSet, At, Goto, Finish, TypeOK
  <2>2. QED BY <1>9, <2>1, Quiet DEF StressSet, maps, outer
<1>10. QED BY <1>1, <1>2, <1>3, <1>4, <1>5, <1>6, <1>7, <1>8, <1>9, SharedKeeps DEF WorkerStep

-----------------------------------------------------------------------------
\* Every step preserves the invariant.
LEMMA RouterStep == TypeOK /\ JobsOK /\ RouterInv /\ [Next]_vars => RouterInv'
<1> SUFFICES ASSUME TypeOK, JobsOK, RouterInv, [Next]_vars PROVE RouterInv'
  OBVIOUS
<1>1. ASSUME NEW s \in Services, ConfigArrives(s) PROVE RouterInv'
  BY <1>1, NobodyMoves, Quiet DEF ConfigArrives, maps
<1>2. CASE Shutdown
  BY <1>2, UnregisterAllKeeps DEF Shutdown
<1>3. CASE UNCHANGED vars
  BY <1>3, NobodyMoves, Quiet DEF vars, maps, outer
<1>4. QED BY <1>1, <1>2, <1>3, CallKeeps, HandlerKeeps, WorkerKeeps DEF Next

\* Whatever calls, jobs, config arrivals and signals interleave, the Router
\* publishes exactly the names of service_map_, except for the one name whose
\* registration still waits inside service_map_.wlock().
THEOREM RouterMatches == Spec => []RouterMatchesServiceMap
<1>1. Init => RouterInv
  <2> SUFFICES ASSUME Init PROVE RouterInv
    OBVIOUS
  <2>1. WaiterOwns /\ PendingRegistered
    BY ConstantsAssumption DEF Init, WaiterOwns, PendingRegistered
  <2>2. \A s \in Services : Published(s)
    BY DEF Init, Published
  <2>3. QED BY <2>1, <2>2 DEF RouterInv
<1>2. TypeOK /\ RouterInv => RouterMatchesServiceMap
  BY DEF TypeOK, RouterInv, Published, RouterMatchesServiceMap
<1>3. QED BY <1>1, <1>2, InitTypes, TypeStep, RouterStep, PTL DEF Spec

-----------------------------------------------------------------------------
(***************************************************************************)
(* A content service that waits gets what it posted: proof of Converged    *)
(* for any posts, services, models, handler threads and pool threads.      *)
(* What a post still has to bring about is in one of four places: with the *)
(* handler, in the queue, with a pool thread, or done.                     *)
(***************************************************************************)

\* Posts that name a service once and a model in one version.
Consistent(p) ==
  /\ \A e, f \in p.entries : e.service = f.service => e = f
  /\ \A r, q \in Requested(p) : r.name = q.name => r = q

\* The content service posts when the last post is worked off, it is always
\* trusted, and nobody uses the other endpoints.
SerialPosts ==
  ClientWaits /\ AlwaysTrust /\ AdminOps = {} /\ \A p \in Posts : Consistent(p)

UnregisterPCs == {"unregister", "erase_weight", "erase_models", "unload"}
RegisterPCs   == ServicePCs \cup {"poll"}
PostPCs       == {"read_services", "load_models", "register_services"}

\* The jobs of the pool, queued or running (NoJob for an idle thread).
Pending == {queue[i] : i \in 1 .. Len(queue)} \cup {job[w] : w \in Workers}

Loads       == {r \in Record : LoadJob(r) \in Pending}
Registers   == {e \in Entry : RegisterJob(e) \in Pending}
Unregisters == {j \in Pending : j.kind = "unregister"}

\* What the handler of the post has not queued yet.
ToLoad     == UNION {job[h].records : h \in {g \in Handlers : pc[g] \in {"read_services", "load_models"}}}
ToRegister == UNION {job[h].entries : h \in {g \in Handlers : pc[g] \in PostPCs}}
ToUnload   == UNION {job[h].models : h \in {g \in Handlers : pc[g] = "read_services"}}
Reading    == \E h \in Handlers : pc[h] = "read_services"
Loading    == \E h \in Handlers : pc[h] \in {"read_services", "load_models"}

\* A model is about to be unloaded, a service about to be unregistered.
Going(m)   == m \in ToUnload \/ \E j \in Unregisters : m \in j.models
Leaving(s) == Reading \/ \E j \in Unregisters : s \in j.services

\* A thread stands where its job can bring it; one handler at most is busy.
KindOK(l, j) ==
  /\ l = "idle" <=> j = NoJob
  /\ l \in LoadPCs <=> j.kind = "load"
  /\ l \in RegisterPCs <=> j.kind = "register"
  /\ l \in UnregisterPCs <=> j.kind = "unregister"
  /\ l \in {"idle"} \cup LoadPCs \cup RegisterPCs \cup UnregisterPCs

PlacesInv ==
  /\ \A h \in Handlers : pc[h] \in {"idle"} \cup PostPCs
  /\ \A h, g \in Handlers : pc[h] # "idle" /\ pc[g] # "idle" => h = g
  /\ \A w \in Workers : KindOK(pc[w], job[w])
  /\ \A i \in 1 .. Len(queue) : queue[i].kind \in {"unregister", "load", "register"}
  /\ last = NoPost => Quiescent

\* A job of the post p, which leaves alone what p asks for unless it is told to.
JobOf(j, p) ==
  \/ j = NoJob
  \/ \E r \in Requested(p) : j = LoadJob(r)
  \/ \E e \in p.entries : j = RegisterJob(e)
  \/ /\ j.kind = "unregister" /\ j.service \notin ServicesOf(p)
     /\ j.services \cap ServicesOf(p) = {} /\ j.models \cap NamesOf(Requested(p)) = {}

HandlerOf(l, j, p) ==
  /\ l \in {"read_services", "load_models"} => j.entries = p.entries /\ j.records \subseteq Requested(p)
  /\ l = "register_services" => j.entries \subseteq p.entries
  /\ l = "read_services" => j.models \cap NamesOf(Requested(p)) = {}

JobsInv ==
  last # NoPost =>
    /\ \A j \in Pending : JobOf(j, last)
    /\ \A h \in Handlers : HandlerOf(pc[h], job[h], last)
    /\ Loading => Registers = {}

\* A record is loaded once for a post.
OnceInv ==
  /\ \A i, k \in 1 .. Len(queue) : queue[i].kind = "load" /\ queue[i] = queue[k] => i = k
  /\ \A i \in 1 .. Len(queue), w \in Workers : queue[i].kind = "load" => job[w] # queue[i]
  /\ \A v, w \in Workers : job[w].kind = "load" /\ job[w] = job[v] => v = w
  /\ ToLoad \cap Loads = {}

\* model_map_ has every record of the post, or the handler is about to write it;
\* it is loading as long as its load is under way, and loaded only if that is
\* the version the framework serves; other records are about to go.
RecordsInv ==
  /\ \A m \in Models : StateOf(m) = "loaded" => framework[m] = model_map[m].timestamp
  /\ \A w \in Workers : pc[w] = "loaded" => \A r \in job[w].records : framework[r.name] = r.timestamp
  /\ \A r \in Loads : model_map[r.name] = [timestamp |-> r.timestamp, state |-> "loading"]
  /\ \A m \in Models : StateOf(m) = "loading" => m \in NamesOf(Loads)
  /\ last # NoPost =>
       /\ \A r \in Requested(last) : r \in ToLoad \/
            (model_map[r.name] # NoRecord /\ model_map[r.name].timestamp = r.timestamp)
       /\ \A m \in Models : model_map[m] # NoRecord =>
            m \in NamesOf(Requested(last)) \/ Going(m)

\* Names that were not posted are about to go, and the weight of a name is the
\* one published unless it goes.
NamesInv ==
  /\ last # NoPost => \A s \in service_map : s \in ServicesOf(last) \/ Leaving(s)
  /\ \A s \in Services : service_weight_map[s] # 0 =>
       \/ router[s] = service_weight_map[s]
       \/ \E w \in Workers : pc[w] = "erase_weight" /\ job[w].service = s

\* How far a register job has come, and when an unregister job unloads.
ProgressInv ==
  \A w \in Workers :
    /\ pc[w] \in {"init_models", "set_weight", "bind"} =>
         job[w].service \in service_map /\ router[job[w].service] # 0
    /\ pc[w] = "bind" => router[job[w].service] = EffectiveWeight(job[w].weight)
    /\ pc[w] = "unload" => job[w].services = {}

Served(e) ==
  /\ e.service \in service_map
  /\ service_models_map[e.service] = NamesOf(e.records)
  /\ router[e.service] = EffectiveWeight(e.weight)

GivenUp(e) == ~Loading /\ \E r \in e.records : StateOf(r.name) = "failed"

EntriesInv ==
  last # NoPost =>
    \A e \in last.entries : e \in ToRegister \/ e \in Registers \/ Served(e) \/ GivenUp(e)

Control == PlacesInv /\ JobsInv /\ OnceInv
Effect  == RecordsInv /\ NamesInv /\ ProgressInv /\ EntriesInv
PostInv == TypeOK /\ JobsOK /\ RouterInv /\ Control /\ Effect

-----------------------------------------------------------------------------
(* Jobs and what is pending *)

\* Jobs of different records, entries or kinds are different jobs.
LEMMA JobsApart ==
  /\ \A r, q : LoadJob(r) = LoadJob(q) => r = q
  /\ \A e, f \in Entry : RegisterJob(e) = RegisterJob(f) => e = f
  /\ \A r : LoadJob(r).kind = "load" /\ LoadJob(r).records = {r}
  /\ \A e : /\ RegisterJob(e).kind = "register" /\ RegisterJob(e).service = e.service
            /\ RegisterJob(e).weight = e.weight /\ RegisterJob(e).records = e.records
  /\ NoJob.kind = "none"
<1>1. ASSUME NEW r, NEW q, LoadJob(r) = LoadJob(q) PROVE r = q
  <2>1. LoadJob(r).records = LoadJob(q).records
    BY <1>1
  <2>2. {r} = {q}
    BY <2>1 DEF LoadJob
  <2> QED
    BY <2>2
<1>2. ASSUME NEW e \in Entry, NEW f \in Entry, RegisterJob(e) = RegisterJob(f) PROVE e = f
  <2>1. /\ RegisterJob(e).service = RegisterJob(f).service
        /\ RegisterJob(e).weight = RegisterJob(f).weight
        /\ RegisterJob(e).records = RegisterJob(f).records
    BY <1>2
  <2>2. e.service = f.service /\ e.weight = f.weight /\ e.records = f.records
    BY <2>1 DEF RegisterJob
  <2> QED
    BY <2>2 DEF Entry
<1>3. \A r : LoadJob(r).kind = "load" /\ LoadJob(r).records = {r}
  BY DEF LoadJob
<1>4. \A e : /\ RegisterJob(e).kind = "register" /\ RegisterJob(e).service = e.service
             /\ RegisterJob(e).weight = e.weight /\ RegisterJob(e).records = e.records
  BY DEF RegisterJob
<1>5. NoJob.kind = "none"
  BY DEF NoJob
<1> QED
  BY <1>1, <1>2, <1>3, <1>4, <1>5

\* The last post is one of Posts.
LEMMA PostShape ==
  ASSUME SerialPosts, TypeOK, last # NoPost
  PROVE  /\ last \in Posts /\ last.entries \subseteq Entry /\ Consistent(last)
         /\ Requested(last) \subseteq Record /\ ServicesOf(last) \subseteq Services
         /\ NamesOf(Requested(last)) \subseteq Models
<1>1. last \in Posts /\ last \in Post
  BY ConstantsAssumption DEF TypeOK
<1>2. last.entries \subseteq Entry /\ Consistent(last)
  BY <1>1 DEF SerialPosts, Post
<1>3. Requested(last) \subseteq Record
  BY <1>2 DEF Requested, Entry
<1>4. ServicesOf(last) \subseteq Services
  BY <1>2 DEF ServicesOf, Entry
<1>5. NamesOf(Requested(last)) \subseteq Models
  BY <1>3 DEF NamesOf, Record
<1> QED
  BY <1>1, <1>2, <1>3, <1>4, <1>5

\* A step that leaves the work of the pool as it is.
SameWork ==
  /\ Loads' = Loads /\ Registers' = Registers /\ Unregisters' = Unregisters

\* A step that leaves what the handlers have in hand as it is.
SameHandlers ==
  /\ ToLoad' = ToLoad /\ ToRegister' = ToRegister /\ ToUnload' = ToUnload
  /\ Reading' = Reading /\ Loading' = Loading

\* Which jobs are pending decides what the pool still has to do.
LEMMA WorkKept ==
  ASSUME \A j : j.kind # "none" => (j \in Pending' <=> j \in Pending)
  PROVE  SameWork
BY JobsApart DEF SameWork, Loads, Registers, Unregisters

\* A step that moves no handler leaves what they have in hand.
LEMMA HandlersKept ==
  ASSUME \A h \in Handlers : pc'[h] = pc[h] /\ job'[h] = job[h]
  PROVE  SameHandlers
<1>1. {g \in Handlers : pc'[g] \in {"read_services", "load_models"}} = {g \in Handlers : pc[g] \in {"read_services", "load_models"}}
  OBVIOUS
<1>2. {g \in Handlers : pc'[g] \in PostPCs} = {g \in Handlers : pc[g] \in PostPCs}
  OBVIOUS
<1>3. {g \in Handlers : pc'[g] = "read_services"} = {g \in Handlers : pc[g] = "read_services"}
  OBVIOUS
<1>4. ToLoad' = ToLoad
  BY <1>1 DEF ToLoad
<1>5. ToRegister' = ToRegister
  BY <1>2 DEF ToRegister, PostPCs
<1>6. ToUnload' = ToUnload
  BY <1>3 DEF ToUnload
<1>7. Reading' = Reading /\ Loading' = Loading
  <2>1. Reading' <=> Reading
    BY DEF Reading
  <2>2. Loading' <=> Loading
    BY DEF Loading
  <2> QED
    BY <2>1, <2>2, Zenon DEF Reading, Loading
<1> QED
  BY <1>4, <1>5, <1>6, <1>7 DEF SameHandlers

\* Only pool threads move: the handlers keep what they have.
LEMMA WorkerMoves ==
  ASSUME TypeOK, NEW w \in Workers, NEW l, pc' = [pc EXCEPT ![w] = l],
         \A u \in Threads : u # w => job'[u] = job[u]
  PROVE  /\ \A h \in Handlers : pc'[h] = pc[h] /\ job'[h] = job[h]
         /\ \A v \in Workers : v # w => pc'[v] = pc[v] /\ job'[v] = job[v]
         /\ pc'[w] = l
         /\ SameHandlers
<1>1. \A h \in Handlers : h # w
  BY ConstantsAssumption
<1>2. \A h \in Handlers : pc'[h] = pc[h] /\ job'[h] = job[h]
  BY <1>1 DEF TypeOK, Threads
<1>3. \A v \in Workers : v # w => pc'[v] = pc[v] /\ job'[v] = job[v]
  BY DEF TypeOK, Threads
<1>4. pc'[w] = l
  BY DEF TypeOK, Threads
<1> QED
  BY <1>2, <1>3, <1>4, HandlersKept

-----------------------------------------------------------------------------
(* Steps of a pool thread: its job goes on, ends or begins *)

\* A thread is busy only after a post.
LEMMA Busy ==
  ASSUME PlacesInv, NEW t \in Threads, pc[t] # "idle"
  PROVE  last # NoPost
BY DEF PlacesInv, Quiescent

\* A pool thread moves on within its job.
LEMMA MoveControl ==
  ASSUME TypeOK, Control, NEW w \in Workers, NEW l, pc[w] # "idle",
         pc' = [pc EXCEPT ![w] = l], KindOK(l, job[w]), UNCHANGED <<job, queue, last>>
  PROVE  Control' /\ SameWork /\ SameHandlers
<1>1. /\ \A h \in Handlers : pc'[h] = pc[h] /\ job'[h] = job[h]
      /\ \A v \in Workers : v # w => pc'[v] = pc[v]
      /\ pc'[w] = l
      /\ SameHandlers
  BY WorkerMoves
<1>2. Pending' = Pending
  BY DEF Pending
<1>3. SameWork
  BY <1>2, WorkKept
<1>4. last # NoPost
  BY Busy DEF Control, Threads
<1>5. PlacesInv'
  <2>1. \A v \in Workers : KindOK(pc'[v], job'[v])
    BY <1>1 DEF Control, PlacesInv
  <2> QED
    BY <1>1, <1>4, <2>1 DEF Control, PlacesInv
<1>6. JobsInv'
  BY <1>1, <1>2, <1>3 DEF Control, JobsInv, SameWork, SameHandlers
<1>7. OnceInv'
  BY <1>1, <1>3 DEF Control, OnceInv, SameWork, SameHandlers
<1> QED
  BY <1>1, <1>3, <1>5, <1>6, <1>7 DEF Control

\* The job of w is gone, and with it the only load of its record.
LEMMA EndControl ==
  ASSUME TypeOK, Control, NEW w \in Workers, pc[w] # "idle", Finish(w), UNCHANGED <<queue, last>>
  PROVE  /\ Control' /\ SameHandlers
         /\ Loads' = {r \in Loads : LoadJob(r) # job[w]}
         /\ Registers' \subseteq Registers
         /\ \A e \in Registers : RegisterJob(e) # job[w] => e \in Registers'
         /\ Unregisters' \subseteq Unregisters
         /\ \A j \in Unregisters : j # job[w] => j \in Unregisters'
         /\ \A v \in Workers : v # w => pc'[v] = pc[v] /\ job'[v] = job[v]
         /\ pc'[w] = "idle" /\ job'[w] = NoJob
<1>1. pc' = [pc EXCEPT ![w] = "idle"] /\ job' = [job EXCEPT ![w] = NoJob]
  BY DEF Finish, Goto
<1>2. job'[w] = NoJob /\ \A u \in Threads : u # w => job'[u] = job[u]
  BY <1>1 DEF TypeOK, Threads
<1>3. /\ \A h \in Handlers : pc'[h] = pc[h] /\ job'[h] = job[h]
      /\ \A v \in Workers : v # w => pc'[v] = pc[v] /\ job'[v] = job[v]
      /\ pc'[w] = "idle"
      /\ SameHandlers
  BY <1>1, <1>2, WorkerMoves
<1>4. /\ \A j \in Pending' : j = NoJob \/ j \in Pending
      /\ \A j \in Pending : j # job[w] => j \in Pending'
  BY <1>2, <1>3 DEF Pending
<1>5. ASSUME job[w].kind = "load" PROVE job[w] \notin Pending'
  <2>1. job[w] # NoJob
    BY <1>5, JobsApart
  <2>2. \A i \in 1 .. Len(queue) : queue[i] # job[w]
    BY <1>5 DEF Control, OnceInv
  <2>3. \A v \in Workers : v # w => job[v] # job[w]
    BY <1>5 DEF Control, OnceInv
  <2> QED
    BY <1>2, <1>3, <2>1, <2>2, <2>3 DEF Pending
<1>6. Loads' = {r \in Loads : LoadJob(r) # job[w]}
  <2>1. \A r : LoadJob(r) # NoJob
    BY JobsApart
  <2>2. \A r : LoadJob(r) \in Pending' => LoadJob(r) # job[w]
    BY <1>5, JobsApart
  <2> QED
    BY <1>4, <2>1, <2>2 DEF Loads
<1>7. /\ Registers' \subseteq Registers
      /\ \A e \in Registers : RegisterJob(e) # job[w] => e \in Registers'
  <2>1. \A e : RegisterJob(e) # NoJob
    BY JobsApart
  <2> QED
    BY <1>4, <2>1 DEF Registers
<1>8. /\ Unregisters' \subseteq Unregisters
      /\ \A j \in Unregisters : j # job[w] => j \in Unregisters'
  BY <1>4, JobsApart DEF Unregisters
<1>9. last # NoPost
  BY Busy DEF Control, Threads
<1>10. PlacesInv'
  <2>1. KindOK("idle", NoJob)
    BY JobsApart DEF KindOK, LoadPCs, RegisterPCs, ServicePCs, UnregisterPCs
  <2>2. \A v \in Workers : KindOK(pc'[v], job'[v])
    BY <1>2, <1>3, <2>1 DEF Control, PlacesInv
  <2> QED
    BY <1>3, <1>9, <2>2 DEF Control, PlacesInv
<1>11. JobsInv'
  <2>1. \A j \in Pending' : JobOf(j, last)
    BY <1>4, <1>9 DEF Control, JobsInv, JobOf
  <2>2. \A h \in Handlers : HandlerOf(pc'[h], job'[h], last)
    BY <1>3, <1>9 DEF Control, JobsInv
  <2>3. Loading' => Registers' = {}
    BY <1>3, <1>7, <1>9 DEF Control, JobsInv, SameHandlers
  <2> QED
    BY <2>1, <2>2, <2>3 DEF JobsInv
<1>12. OnceInv'
  <2>1. ToLoad' \cap Loads' = {}
    BY <1>3, <1>6 DEF Control, OnceInv, SameHandlers
  <2>2. \A i \in 1 .. Len(queue), v \in Workers : queue[i].kind = "load" => job'[v] # queue[i]
    BY <1>2, <1>3, JobsApart DEF Control, OnceInv
  <2>3. \A u, v \in Workers : job'[v].kind = "load" /\ job'[v] = job'[u] => u = v
    BY <1>2, <1>3, JobsApart DEF Control, OnceInv
  <2> QED
    BY <2>1, <2>2, <2>3 DEF Control, OnceInv
<1> QED
  BY <1>2, <1>3, <1>6, <1>7, <1>8, <1>10, <1>11, <1>12 DEF Control

\* A pool thread takes the oldest job: what is pending stays pending.
LEMMA TakeControl ==
  ASSUME TypeOK, Control, NEW w \in Workers, TakeJob(w)
  PROVE  /\ Control' /\ SameWork /\ SameHandlers
         /\ \A v \in Workers : v # w => pc'[v] = pc[v] /\ job'[v] = job[v]
         /\ pc[w] = "idle" /\ pc'[w] \in {"unregister", "load", "poll"}
<1> DEFINE j == Head(queue)
           n == Len(queue)
<1>1. /\ pc[w] = "idle" /\ queue # << >> /\ job' = [job EXCEPT ![w] = j]
      /\ queue' = Tail(queue) /\ pc' = [pc EXCEPT ![w] = EntryPoint(j.kind)] /\ last' = last
  BY DEF TakeJob, At, Goto, env
<1>2. /\ n \in Nat /\ n >= 1 /\ j = queue[1] /\ Len(queue') = n - 1
      /\ \A i \in 1 .. n - 1 : queue'[i] = queue[i + 1]
  <2>1. queue \in Seq(Job)
    BY DEF TypeOK
  <2>2. n \in Nat /\ n >= 1 /\ j = queue[1] /\ Len(Tail(queue)) = n - 1
    BY <1>1, <2>1
  <2>3. \A i \in 1 .. n - 1 : Tail(queue)[i] = queue[i + 1]
    BY <1>1, <2>1
  <2> QED
    BY <1>1, <2>2, <2>3
<1>3. job'[w] = j /\ \A u \in Threads : u # w => job'[u] = job[u]
  BY <1>1 DEF TypeOK, Threads
<1>4. /\ \A h \in Handlers : pc'[h] = pc[h] /\ job'[h] = job[h]
      /\ \A v \in Workers : v # w => pc'[v] = pc[v] /\ job'[v] = job[v]
      /\ pc'[w] = EntryPoint(j.kind)
      /\ SameHandlers
  BY <1>1, <1>3, WorkerMoves
<1>5. job[w] = NoJob /\ j.kind \in {"unregister", "load", "register"}
  BY <1>1, <1>2 DEF Control, PlacesInv, KindOK
<1> HIDE DEF j, n
<1>6. \A k : k.kind # "none" => (k \in Pending' <=> k \in Pending)
  <2> SUFFICES ASSUME NEW k, k.kind # "none" PROVE k \in Pending' <=> k \in Pending
    OBVIOUS
  <2>1. ASSUME k \in Pending' PROVE k \in Pending
    <3>1. CASE \E v \in Workers : k = job'[v]
      BY <1>2, <1>3, <1>4, <3>1 DEF Pending, n
    <3>2. CASE \E i \in 1 .. Len(queue') : k = queue'[i]
      <4>1. PICK i \in 1 .. n - 1 : k = queue[i + 1]
        BY <1>2, <3>2
      <4>2. i + 1 \in 1 .. Len(queue)
        BY <1>2 DEF n
      <4> QED
        BY <4>1, <4>2 DEF Pending
    <3> QED
      BY <2>1, <3>1, <3>2 DEF Pending
  <2>2. ASSUME k \in Pending PROVE k \in Pending'
    <3>1. CASE \E v \in Workers : k = job[v]
      <4>1. PICK v \in Workers : k = job[v]
        BY <3>1
      <4>2. v # w
        BY <1>5, <4>1, JobsApart
      <4> QED
        BY <1>4, <4>1, <4>2 DEF Pending
    <3>2. CASE \E i \in 1 .. Len(queue) : k = queue[i]
      <4>1. PICK i \in 1 .. n : k = queue[i]
        BY <3>2 DEF n
      <4>2. CASE i = 1
        BY <1>2, <1>3, <4>1, <4>2 DEF Pending
      <4>3. CASE i # 1
        <5>1. i - 1 \in 1 .. Len(queue') /\ queue'[i - 1] = queue[i]
          BY <1>2, <4>3
        <5> QED
          BY <4>1, <5>1 DEF Pending
      <4> QED
        BY <4>2, <4>3
    <3> QED
      BY <2>2, <3>1, <3>2 DEF Pending
  <2> QED
    BY <2>1, <2>2
<1>7. SameWork
  BY <1>6, WorkKept
<1>8. last # NoPost
  BY <1>1 DEF Control, PlacesInv, Quiescent
<1>9. KindOK(EntryPoint(j.kind), j) /\ EntryPoint(j.kind) \in {"unregister", "load", "poll"}
  BY <1>5, JobsApart DEF KindOK, EntryPoint, LoadPCs, RegisterPCs, ServicePCs, UnregisterPCs
<1>10. PlacesInv'
  <2>1. \A v \in Workers : KindOK(pc'[v], job'[v])
    BY <1>3, <1>4, <1>9 DEF Control, PlacesInv
  <2>2. \A i \in 1 .. Len(queue') : queue'[i].kind \in {"unregister", "load", "register"}
    <3> SUFFICES ASSUME NEW i \in 1 .. n - 1 PROVE queue[i + 1].kind \in {"unregister", "load", "register"}
      BY <1>2
    <3>1. i + 1 \in 1 .. Len(queue)
      BY <1>2 DEF n
    <3> QED
      BY <3>1 DEF Control, PlacesInv
  <2> QED
    BY <1>1, <1>4, <1>8, <2>1, <2>2 DEF Control, PlacesInv
<1>11. JobsInv'
  <2>1. \A k \in Pending' : JobOf(k, last)
    <3> SUFFICES ASSUME NEW k \in Pending' PROVE JobOf(k, last)
      OBVIOUS
    <3>1. k \in Pending
      <4>1. CASE k.kind # "none"
        BY <1>6, <4>1
      <4>2. CASE k.kind = "none"
        <5>1. \A i \in 1 .. Len(queue') : queue'[i].kind # "none"
          BY <1>10 DEF PlacesInv
        <5>2. PICK v \in Workers : k = job'[v]
          BY <4>2, <5>1 DEF Pending
        <5>3. v # w
          BY <1>3, <1>5, <4>2, <5>2
        <5> QED
          BY <1>4, <5>2, <5>3 DEF Pending
      <4> QED
        BY <4>1, <4>2
    <3> QED
      BY <1>8, <3>1 DEF Control, JobsInv
  <2> QED
    BY <1>1, <1>4, <1>7, <1>8, <2>1 DEF Control, JobsInv, SameWork, SameHandlers
<1>12. OnceInv'
  <2>1. \A i \in 1 .. n - 1 : i + 1 \in 1 .. Len(queue) /\ i + 1 # 1 /\ 1 \in 1 .. Len(queue)
    BY <1>2 DEF n
  <2>2. \A i, k \in 1 .. n - 1 : queue[i + 1].kind = "load" /\ queue[i + 1] = queue[k + 1] => i = k
    <3> SUFFICES ASSUME NEW i \in 1 .. n - 1, NEW k \in 1 .. n - 1,
                        queue[i + 1].kind = "load", queue[i + 1] = queue[k + 1]
                 PROVE  i = k
      OBVIOUS
    <3>1. i + 1 = k + 1
      BY <2>1 DEF Control, OnceInv
    <3> QED
      BY <1>2, <3>1
  <2>3. \A i \in 1 .. n - 1, v \in Workers : queue[i + 1].kind = "load" => job'[v] # queue[i + 1]
    <3> SUFFICES ASSUME NEW i \in 1 .. n - 1, NEW v \in Workers, queue[i + 1].kind = "load"
                 PROVE  job'[v] # queue[i + 1]
      OBVIOUS
    <3>1. CASE v = w
      BY <1>2, <1>3, <2>1, <3>1 DEF Control, OnceInv
    <3>2. CASE v # w
      BY <1>4, <2>1, <3>2 DEF Control, OnceInv
    <3> QED
      BY <3>1, <3>2
  <2>4. \A u, v \in Workers : job'[v].kind = "load" /\ job'[v] = job'[u] => u = v
    <3>1. ASSUME j.kind = "load", NEW v \in Workers PROVE job[v] # j
      BY <1>2, <2>1, <3>1 DEF Control, OnceInv, n
    <3> QED
      BY <1>3, <1>4, <3>1 DEF Control, OnceInv
  <2>5. ToLoad' \cap Loads' = {}
    BY <1>4, <1>7 DEF Control, OnceInv, SameWork, SameHandlers
  <2> QED
    BY <1>2, <2>2, <2>3, <2>4, <2>5 DEF OnceInv
<1> QED
  BY <1>1, <1>4, <1>7, <1>9, <1>10, <1>11, <1>12 DEF Control

-----------------------------------------------------------------------------
(* Steps of the handler that works on the post *)

\* What is in the hands of the handlers if only h is busy.
InHand(l, j) ==
  /\ ToLoad = (IF l \in {"read_services", "load_models"} THEN j.records ELSE {})
  /\ ToRegister = (IF l \in PostPCs THEN j.entries ELSE {})
  /\ ToUnload = (IF l = "read_services" THEN j.models ELSE {})
  /\ Reading <=> l = "read_services"
  /\ Loading <=> l \in {"read_services", "load_models"}

InHandNext(l, j) ==
  /\ ToLoad' = (IF l \in {"read_services", "load_models"} THEN j.records ELSE {})
  /\ ToRegister' = (IF l \in PostPCs THEN j.entries ELSE {})
  /\ ToUnload' = (IF l = "read_services" THEN j.models ELSE {})
  /\ Reading' <=> l = "read_services"
  /\ Loading' <=> l \in {"read_services", "load_models"}

\* One handler at most works on a post, so what it holds is all that is in hand.
LEMMA HandlerMoves ==
  ASSUME TypeOK, PlacesInv, NEW h \in Handlers, NEW l \in {"idle"} \cup PostPCs, NEW k,
         pc[h] # "idle" \/ Quiescent,
         pc' = [pc EXCEPT ![h] = l], job' = [job EXCEPT ![h] = k]
  PROVE  /\ InHand(pc[h], job[h]) /\ InHandNext(l, k)
         /\ \A w \in Workers : pc'[w] = pc[w] /\ job'[w] = job[w]
         /\ \A g \in Handlers : g # h => pc'[g] = "idle"
         /\ pc'[h] = l /\ job'[h] = k
<1>1. \A g \in Handlers : g # h => pc[g] = "idle"
  BY DEF PlacesInv, Quiescent, Threads
<1>2. pc'[h] = l /\ job'[h] = k /\ \A t \in Threads : t # h => pc'[t] = pc[t] /\ job'[t] = job[t]
  BY DEF TypeOK, Threads
<1>3. \A w \in Workers : pc'[w] = pc[w] /\ job'[w] = job[w]
  BY <1>2, ConstantsAssumption DEF Threads
<1>4. \A g \in Handlers : g # h => pc'[g] = "idle"
  BY <1>1, <1>2 DEF Threads
<1>5. InHand(pc[h], job[h])
  <2>1. {g \in Handlers : pc[g] \in {"read_services", "load_models"}}
          = IF pc[h] \in {"read_services", "load_models"} THEN {h} ELSE {}
    BY <1>1
  <2>2. {g \in Handlers : pc[g] \in PostPCs} = IF pc[h] \in PostPCs THEN {h} ELSE {}
    BY <1>1 DEF PostPCs
  <2>3. {g \in Handlers : pc[g] = "read_services"} = IF pc[h] = "read_services" THEN {h} ELSE {}
    BY <1>1
  <2>4. ToLoad = IF pc[h] \in {"read_services", "load_models"} THEN job[h].records ELSE {}
    BY <2>1 DEF ToLoad
  <2>5. ToRegister = IF pc[h] \in PostPCs THEN job[h].entries ELSE {}
    BY <2>2 DEF ToRegister, PostPCs
  <2>6. ToUnload = IF pc[h] = "read_services" THEN job[h].models ELSE {}
    BY <2>3 DEF ToUnload
  <2>7. /\ Reading <=> pc[h] = "read_services"
        /\ Loading <=> pc[h] \in {"read_services", "load_models"}
    BY <1>1 DEF Reading, Loading
  <2> QED
    BY <2>4, <2>5, <2>6, <2>7 DEF InHand
<1>6. InHandNext(l, k)
  <2>1. {g \in Handlers : pc'[g] \in {"read_services", "load_models"}}
          = IF pc'[h] \in {"read_services", "load_models"} THEN {h} ELSE {}
    BY <1>4
  <2>2. {g \in Handlers : pc'[g] \in PostPCs} = IF pc'[h] \in PostPCs THEN {h} ELSE {}
    BY <1>4 DEF PostPCs
  <2>3. {g \in Handlers : pc'[g] = "read_services"} = IF pc'[h] = "read_services" THEN {h} ELSE {}
    BY <1>4
  <2>4. ToLoad' = IF pc'[h] \in {"read_services", "load_models"} THEN job'[h].records ELSE {}
    BY <2>1 DEF ToLoad
  <2>5. ToRegister' = IF pc'[h] \in PostPCs THEN job'[h].entries ELSE {}
    BY <2>2 DEF ToRegister, PostPCs
  <2>6. ToUnload' = IF pc'[h] = "read_services" THEN job'[h].models ELSE {}
    BY <2>3 DEF ToUnload
  <2>7. /\ Reading' <=> pc'[h] = "read_services"
        /\ Loading' <=> pc'[h] \in {"read_services", "load_models"}
    BY <1>4 DEF Reading, Loading
  <2> QED
    BY <1>2, <2>4, <2>5, <2>6, <2>7 DEF InHandNext
<1> QED
  BY <1>2, <1>3, <1>4, <1>5, <1>6

\* A handler's step without a job for the pool.
LEMMA HandControl ==
  ASSUME TypeOK, Control, NEW h \in Handlers, NEW l \in {"idle"} \cup PostPCs, NEW k, pc[h] # "idle",
         pc' = [pc EXCEPT ![h] = l], job' = [job EXCEPT ![h] = k], UNCHANGED <<queue, last>>,
         HandlerOf(l, k, last), l \in {"read_services", "load_models"} => FALSE
  PROVE  Control' /\ SameWork
<1>1. /\ InHand(pc[h], job[h]) /\ InHandNext(l, k)
      /\ \A w \in Workers : pc'[w] = pc[w] /\ job'[w] = job[w]
      /\ \A g \in Handlers : g # h => pc'[g] = "idle"
      /\ pc'[h] = l /\ job'[h] = k
  BY HandlerMoves DEF Control
<1>2. Pending' = Pending
  BY <1>1 DEF Pending
<1>3. SameWork
  BY <1>2, WorkKept
<1>4. last # NoPost
  BY Busy DEF Control, Threads
<1>5. PlacesInv'
  BY <1>1, <1>4 DEF Control, PlacesInv
<1>6. JobsInv'
  <2>1. \A g \in Handlers : HandlerOf(pc'[g], job'[g], last)
    BY <1>1 DEF HandlerOf
  <2> QED
    BY <1>1, <1>2, <1>4, <2>1 DEF Control, JobsInv, InHandNext
<1>7. OnceInv'
  BY <1>1, <1>3 DEF Control, OnceInv, InHandNext, SameWork
<1> QED
  BY <1>3, <1>5, <1>6, <1>7 DEF Control

\* The handler goes on to l with k in hand, after it has queued the new job j.
NewWork(l, k, j) ==
  /\ j.kind \in {"unregister", "load", "register"}
  /\ j.kind = "load" => j \notin Pending
  /\ l \in {"read_services", "load_models"} =>
       /\ Loading /\ j.kind # "register"
       /\ k.records \subseteq ToLoad /\ \A r \in k.records : LoadJob(r) # j

\* A handler queues a job of its post.
LEMMA SubmitControl ==
  ASSUME TypeOK, Control, NEW h \in Handlers, NEW l \in PostPCs, NEW k, pc[h] # "idle",
         pc' = [pc EXCEPT ![h] = l], job' = [job EXCEPT ![h] = k], UNCHANGED last,
         NEW j, queue' = Append(queue, j), JobOf(j, last),
         HandlerOf(l, k, last),
         NewWork(l, k, j)
  PROVE  /\ Control' /\ Pending' = Pending \cup {j}
         /\ \A w \in Workers : pc'[w] = pc[w] /\ job'[w] = job[w]
<1>0. l \in {"idle"} \cup PostPCs /\ PlacesInv /\ (pc[h] # "idle" \/ Quiescent)
  BY DEF Control
<1>1. /\ InHand(pc[h], job[h]) /\ InHandNext(l, k)
      /\ \A w \in Workers : pc'[w] = pc[w] /\ job'[w] = job[w]
      /\ \A g \in Handlers : g # h => pc'[g] = "idle"
      /\ pc'[h] = l /\ job'[h] = k
  BY <1>0, HandlerMoves
<1> DEFINE n == Len(queue)
<1>2. /\ n \in Nat /\ Len(queue') = n + 1 /\ queue'[n + 1] = j
      /\ \A i \in 1 .. n : queue'[i] = queue[i]
  <2>1. queue \in Seq(Job)
    BY DEF TypeOK
  <2> QED
    BY <2>1
<1> HIDE DEF n
<1>3. \A i : i \in 1 .. Len(queue') <=> (i \in 1 .. n \/ i = n + 1)
  BY <1>2
<1>4. Pending' = Pending \cup {j}
  <2>1. ASSUME NEW i \in 1 .. n + 1 PROVE queue'[i] \in Pending \cup {j}
    BY <1>2, <2>1 DEF Pending, n
  <2>2. ASSUME NEW i \in 1 .. n PROVE queue[i] \in Pending'
    BY <1>2, <1>3, <2>2 DEF Pending
  <2>3. j \in Pending'
    BY <1>2, <1>3 DEF Pending
  <2> QED
    BY <1>1, <1>2, <2>1, <2>2, <2>3 DEF Pending, n
<1>5. last # NoPost
  BY Busy DEF Control, Threads
<1>6. PlacesInv'
  <2>1. \A i \in 1 .. Len(queue') : queue'[i].kind \in {"unregister", "load", "register"}
    BY <1>2, <1>3 DEF Control, PlacesInv, n, NewWork
  <2> QED
    BY <1>1, <1>5, <2>1 DEF Control, PlacesInv, PostPCs
<1>7. JobsInv'
  <2>1. \A g \in Handlers : HandlerOf(pc'[g], job'[g], last)
    BY <1>1 DEF HandlerOf
  <2>2. Loading' => Registers' = {}
    BY <1>1, <1>4, <1>5, JobsApart DEF Control, JobsInv, InHandNext, Registers, NewWork
  <2> QED
    BY <1>4, <1>5, <2>1, <2>2 DEF Control, JobsInv
<1>8. OnceInv'
  <2>1. \A i \in 1 .. n : queue[i] \in Pending
    BY DEF Pending, n
  <2>2. \A w \in Workers : job[w] \in Pending
    BY DEF Pending
  <2>3. \A i, m \in 1 .. Len(queue') : queue'[i].kind = "load" /\ queue'[i] = queue'[m] => i = m
    BY <1>2, <1>3, <2>1 DEF Control, OnceInv, n, NewWork
  <2>4. \A i \in 1 .. Len(queue'), w \in Workers : queue'[i].kind = "load" => job'[w] # queue'[i]
    BY <1>1, <1>2, <1>3, <2>2 DEF Control, OnceInv, n, NewWork
  <2>5. ToLoad' \cap Loads' = {}
    BY <1>1, <1>4 DEF Control, OnceInv, InHandNext, Loads, NewWork
  <2> QED
    BY <1>1, <2>3, <2>4, <2>5 DEF Control, OnceInv
<1> QED
  BY <1>1, <1>4, <1>6, <1>7, <1>8 DEF Control

-----------------------------------------------------------------------------
(* What a step leaves alone *)

\* Steps that leave the records, the names, the register jobs or the
\* entries alone keep the part of the invariant about them.
LEMMA RecordsFrame ==
  ASSUME RecordsInv, UNCHANGED <<model_map, framework, last>>, Loads' = Loads, ToLoad' = ToLoad,
         \A w \in Workers : pc'[w] = "loaded" => pc[w] = "loaded" /\ job'[w] = job[w],
         \A m \in Models : Going(m) => Going(m)'
  PROVE  RecordsInv'
BY DEF RecordsInv, StateOf

LEMMA NamesFrame ==
  ASSUME NamesInv, UNCHANGED <<service_map, service_weight_map, router, last>>,
         \A s : Leaving(s) => Leaving(s)',
         \A w \in Workers : pc[w] = "erase_weight" => pc'[w] = "erase_weight" /\ job'[w] = job[w]
  PROVE  NamesInv'
<1>1. ASSUME NEW s \in Services, service_weight_map[s] # 0, router[s] # service_weight_map[s]
      PROVE  \E w \in Workers : pc'[w] = "erase_weight" /\ job'[w].service = s
  <2>1. PICK w \in Workers : pc[w] = "erase_weight" /\ job[w].service = s
    BY <1>1 DEF NamesInv
  <2> QED
    BY <2>1
<1> QED
  BY <1>1 DEF NamesInv

LEMMA ProgressFrame ==
  ASSUME ProgressInv, UNCHANGED <<service_map, router>>,
         \A w \in Workers : pc'[w] \in {"init_models", "set_weight", "bind", "unload"} =>
           pc'[w] = pc[w] /\ job'[w] = job[w]
  PROVE  ProgressInv'
BY DEF ProgressInv

LEMMA EntriesFrame ==
  ASSUME EntriesInv, UNCHANGED <<service_map, service_models_map, router, model_map, last>>,
         Loading' => Loading,
         \A e : e \in ToRegister \/ e \in Registers => e \in ToRegister' \/ e \in Registers'
  PROVE  EntriesInv'
<1>1. ASSUME NEW e, Served(e) PROVE Served(e)'
  BY <1>1 DEF Served
<1>2. ASSUME NEW e, GivenUp(e) PROVE GivenUp(e)'
  BY <1>2 DEF GivenUp, StateOf
<1> QED
  BY <1>1, <1>2 DEF EntriesInv

\* The threads of the pool stay where they are.
SameWorkers == \A w \in Workers : pc'[w] = pc[w] /\ job'[w] = job[w]

\* A step outside the threads of the server.
LEMMA NothingMoves ==
  ASSUME Control, Effect, UNCHANGED <<maps, framework, router, queue, pc, job, last>>
  PROVE  Control' /\ Effect'
<1>1. UNCHANGED <<model_map, service_map, service_models_map, service_weight_map, router>>
  BY DEF maps
<1>2. Pending' = Pending
  BY DEF Pending
<1>3. SameWork
  BY <1>2, WorkKept
<1>4. SameHandlers
  BY HandlersKept
<1>5. Quiescent' <=> Quiescent
  BY DEF Quiescent
<1>6. Control'
  BY <1>2, <1>3, <1>4, <1>5 DEF Control, PlacesInv, JobsInv, OnceInv, SameWork, SameHandlers
<1>7. \A m : Going(m) => Going(m)'
  BY <1>3, <1>4 DEF Going, SameWork, SameHandlers
<1>8. \A s : Leaving(s) => Leaving(s)'
  BY <1>3, <1>4 DEF Leaving, SameWork, SameHandlers
<1>9. RecordsInv'
  BY <1>1, <1>3, <1>4, <1>7, RecordsFrame DEF Effect, SameWork, SameHandlers
<1>10. NamesInv'
  BY <1>1, <1>8, NamesFrame DEF Effect
<1>11. ProgressInv'
  BY <1>1, ProgressFrame DEF Effect
<1>12. EntriesInv'
  BY <1>1, <1>3, <1>4, EntriesFrame DEF Effect, SameWork, SameHandlers
<1> QED
  BY <1>6, <1>9, <1>10, <1>11, <1>12 DEF Effect

-----------------------------------------------------------------------------
(* The handler *)

\* A post is taken when nothing is left of the one before: all it asks for
\* and does not find is in the hands of the handler.
LEMMA LoadAndRegisterKeeps ==
  ASSUME SerialPosts, PostInv, NEW h \in Handlers, NEW p \in Posts, LoadAndRegister(h, p)
  PROVE  Control' /\ Effect'
<1> DEFINE k == PostJob({r \in Requested(p) : NeedsLoad(r, p.locked)},
                        {m \in Models : model_map[m] # NoRecord} \ NamesOf(Requested(p)), p)
<1>1. /\ last' = p /\ job' = [job EXCEPT ![h] = k] /\ pc' = [pc EXCEPT ![h] = "read_services"]
      /\ UNCHANGED <<model_map, service_map, service_models_map, service_weight_map, framework, router, queue>>
      /\ Quiescent
  BY DEF LoadAndRegister, Call, Goto, maps, outer, SerialPosts
<1>2. /\ k.records = {r \in Requested(p) : NeedsLoad(r, p.locked)}
      /\ k.models = {m \in Models : model_map[m] # NoRecord} \ NamesOf(Requested(p))
      /\ k.entries = p.entries
  BY DEF PostJob
<1> HIDE DEF k
<1>3. TypeOK /\ Control /\ PlacesInv /\ Effect /\ p # NoPost
  BY ConstantsAssumption DEF PostInv, Control
<1>4. /\ InHandNext("read_services", k)
      /\ \A w \in Workers : pc'[w] = pc[w] /\ job'[w] = job[w]
      /\ \A g \in Handlers : g # h => pc'[g] = "idle"
      /\ pc'[h] = "read_services" /\ job'[h] = k
  BY <1>1, <1>3, HandlerMoves DEF PostPCs
<1>5. queue = << >> /\ Len(queue) = 0 /\ \A w \in Workers : pc[w] = "idle" /\ job[w] = NoJob
  BY <1>1, <1>3 DEF Quiescent, Threads, PlacesInv, KindOK
<1>6. Pending \subseteq {NoJob} /\ Pending' \subseteq {NoJob}
  BY <1>1, <1>4, <1>5 DEF Pending
<1>7. Loads = {} /\ Loads' = {} /\ Registers' = {} /\ Unregisters' = {}
  BY <1>6, JobsApart DEF Loads, Registers, Unregisters
<1>8. PlacesInv'
  <2>1. \A w \in Workers : KindOK(pc'[w], job'[w])
    BY <1>3, <1>4 DEF PlacesInv
  <2> QED
    BY <1>1, <1>3, <1>4, <1>5, <2>1 DEF PlacesInv, PostPCs
<1>9. JobsInv'
  <2>1. HandlerOf("read_services", k, p)
    BY <1>2 DEF HandlerOf
  <2>2. \A g \in Handlers : HandlerOf(pc'[g], job'[g], p)
    BY <1>4, <2>1 DEF HandlerOf
  <2>3. \A j \in Pending' : JobOf(j, p)
    BY <1>6 DEF JobOf
  <2> QED
    BY <1>1, <1>7, <2>2, <2>3 DEF JobsInv
<1>10. OnceInv'
  BY <1>1, <1>4, <1>5, <1>7, JobsApart DEF OnceInv
<1>11. RecordsInv'
  <2>1. \A m \in Models : StateOf(m) # "loading"
    BY <1>3, <1>7 DEF Effect, RecordsInv, NamesOf
  <2>2. ASSUME NEW r \in Requested(p), r \notin ToLoad'
        PROVE  model_map[r.name] # NoRecord /\ model_map[r.name].timestamp = r.timestamp
    <3>1. ~NeedsLoad(r, p.locked)
      BY <1>2, <1>4, <2>2 DEF InHandNext
    <3> QED
      BY <3>1 DEF NeedsLoad, SerialPosts
  <2>3. ASSUME NEW m \in Models, model_map[m] # NoRecord, m \notin NamesOf(Requested(p))
        PROVE  Going(m)'
    BY <1>2, <1>4, <2>3 DEF InHandNext, Going
  <2>4. \A m : StateOf(m)' = StateOf(m)
    BY <1>1 DEF StateOf
  <2> QED
    BY <1>1, <1>3, <1>4, <1>5, <1>7, <2>1, <2>2, <2>3, <2>4 DEF Effect, RecordsInv
<1>12. NamesInv'
  <2>1. \A s : Leaving(s)'
    BY <1>4 DEF InHandNext, Leaving
  <2>2. \A s \in Services : service_weight_map[s] # 0 => router[s] = service_weight_map[s]
    BY <1>3, <1>5 DEF Effect, NamesInv
  <2> QED
    BY <1>1, <2>1, <2>2 DEF NamesInv
<1>13. ProgressInv'
  BY <1>4, <1>5 DEF ProgressInv
<1>14. EntriesInv'
  BY <1>1, <1>2, <1>4 DEF EntriesInv, InHandNext, PostPCs
<1> QED
  BY <1>8, <1>9, <1>10, <1>11, <1>12, <1>13, <1>14 DEF Control, Effect

\* Names and models that were not posted pass from the handler to the unregister job.
LEMMA ReadServicesKeeps ==
  ASSUME SerialPosts, PostInv, NEW h \in Handlers, ReadServices(h)
  PROVE  Control' /\ Effect'
<1> DEFINE k == job[h]
           useless == service_map \ {e.service : e \in k.entries}
           j == UnregisterJob("unregister", useless, k.models)
<1>1. /\ pc[h] = "read_services" /\ queue' = Append(queue, j) /\ pc' = [pc EXCEPT ![h] = "load_models"]
      /\ UNCHANGED <<model_map, service_map, service_models_map, service_weight_map, framework, router, job, last>>
  BY DEF ReadServices, At, Submit, Goto, maps, outer
<1>2. TypeOK /\ Control /\ PlacesInv /\ Effect /\ job' = [job EXCEPT ![h] = k]
  BY <1>1 DEF PostInv, Control, TypeOK
<1>3. last # NoPost
  BY <1>1, <1>2, Busy DEF Threads
<1>4. j.kind = "unregister" /\ j.services = useless /\ j.models = k.models /\ j.service = NoService
  BY DEF UnregisterJob
<1>5. /\ k.entries = last.entries /\ k.records \subseteq Requested(last)
      /\ k.models \cap NamesOf(Requested(last)) = {}
  BY <1>1, <1>2, <1>3 DEF Control, JobsInv, HandlerOf
<1>6. useless = service_map \ ServicesOf(last)
  BY <1>5 DEF ServicesOf
<1>7. NoService \notin ServicesOf(last)
  BY <1>2, <1>3, PostShape, ConstantsAssumption
<1> HIDE DEF j, useless
<1>8. JobOf(j, last)
  BY <1>4, <1>5, <1>6, <1>7 DEF JobOf
<1> HIDE DEF k
<1>9. /\ InHand("read_services", k) /\ InHandNext("load_models", k)
      /\ SameWorkers
  BY <1>1, <1>2, HandlerMoves DEF PostPCs, SameWorkers, k
<1>10. HandlerOf("load_models", k, last)
  BY <1>5 DEF HandlerOf
<1>11. NewWork("load_models", k, j)
  BY <1>4, <1>9, JobsApart DEF NewWork, InHand
<1>12. Control' /\ Pending' = Pending \cup {j}
  BY <1>1, <1>2, <1>8, <1>10, <1>11, SubmitControl DEF PostPCs
<1>13. Loads' = Loads /\ Registers' = Registers /\ Unregisters' = Unregisters \cup {j}
  BY <1>4, <1>12, JobsApart DEF Loads, Registers, Unregisters
<1>14. ToLoad' = ToLoad /\ ToRegister' = ToRegister /\ Loading' = Loading
  BY <1>9 DEF InHand, InHandNext, PostPCs
<1>15. \A m : Going(m) => Going(m)'
  BY <1>4, <1>9, <1>13 DEF Going, InHand
<1>16. RecordsInv'
  BY <1>1, <1>2, <1>9, <1>13, <1>14, <1>15, RecordsFrame DEF Effect, SameWorkers
<1>17. NamesInv'
  <2>1. \A s \in service_map : s \in ServicesOf(last) \/ Leaving(s)'
    BY <1>4, <1>6, <1>13 DEF Leaving
  <2> QED
    BY <1>1, <1>2, <1>9, <2>1 DEF Effect, NamesInv, SameWorkers
<1>18. ProgressInv'
  BY <1>1, <1>2, <1>9, ProgressFrame DEF Effect, SameWorkers
<1>19. EntriesInv'
  BY <1>1, <1>2, <1>13, <1>14, EntriesFrame DEF Effect
<1> QED
  BY <1>12, <1>16, <1>17, <1>18, <1>19 DEF Effect

\* A record passes from the handler to its load job, and is loading from then on.
LEMMA LoadModelsKeeps ==
  ASSUME SerialPosts, PostInv, NEW h \in Handlers, LoadModels(h)
  PROVE  Control' /\ Effect'
<1>1. /\ pc[h] = "load_models"
      /\ UNCHANGED <<service_map, service_models_map, service_weight_map, framework, router, last>>
  BY DEF LoadModels, At, outer, env
<1>2. TypeOK /\ Control /\ PlacesInv /\ Effect
  BY DEF PostInv, Control
<1>3. last # NoPost
  BY <1>1, <1>2, Busy DEF Threads
<1>4. job[h].entries = last.entries /\ job[h].records \subseteq Requested(last)
  BY <1>1, <1>2, <1>3 DEF Control, JobsInv, HandlerOf
<1>5. /\ last.entries \subseteq Entry /\ Consistent(last) /\ Requested(last) \subseteq Record
  BY <1>2, <1>3, PostShape
<1>6. ASSUME NEW r \in job[h].records,
             model_map' = [model_map EXCEPT ![r.name] = [timestamp |-> r.timestamp, state |-> "loading"]],
             Submit(LoadJob(r)), job' = [job EXCEPT ![h].records = @ \ {r}], UNCHANGED pc
      PROVE  Control' /\ Effect'
  <2> DEFINE k == [job[h] EXCEPT !.records = job[h].records \ {r}]
             rec == [timestamp |-> r.timestamp, state |-> "loading"]
  <2>1. job' = [job EXCEPT ![h] = k]
    BY <1>6, Zenon
  <2>2. pc' = [pc EXCEPT ![h] = "load_models"]
    BY <1>1, <1>2, <1>6 DEF TypeOK
  <2>3. k.records = job[h].records \ {r} /\ k.entries = job[h].entries /\ k.models = job[h].models
    <3>1. job[h] \in Job
      BY <1>2 DEF TypeOK, Threads
    <3> QED
      BY <3>1 DEF Job
  <2>4. queue' = Append(queue, LoadJob(r))
    BY <1>6 DEF Submit
  <2> HIDE DEF k
  <2>5. /\ InHand("load_models", job[h]) /\ InHandNext("load_models", k) /\ SameWorkers
    BY <1>1, <1>2, <2>1, <2>2, HandlerMoves DEF PostPCs, SameWorkers
  <2>6. r \in Requested(last) /\ r \in Record /\ r.name \in Models /\ r.timestamp \in Versions
    BY <1>4, <1>5 DEF Record
  <2>7. r \notin Loads /\ LoadJob(r) \notin Pending
    BY <1>2, <2>5, <2>6 DEF Control, OnceInv, InHand, Loads
  <2>8. JobOf(LoadJob(r), last) /\ HandlerOf("load_models", k, last)
    BY <1>4, <2>3, <2>6 DEF JobOf, HandlerOf
  <2>9. NewWork("load_models", k, LoadJob(r))
    BY <2>3, <2>5, <2>7, JobsApart DEF NewWork, InHand
  <2>10. Control' /\ Pending' = Pending \cup {LoadJob(r)}
    BY <1>1, <1>2, <2>1, <2>2, <2>4, <2>8, <2>9, SubmitControl DEF PostPCs
  <2>11. Loads' = Loads \cup {r}
    BY <2>6, <2>10, JobsApart DEF Loads
  <2>12. Registers' = Registers /\ Unregisters' = Unregisters
    BY <2>10, JobsApart DEF Registers, Unregisters
  <2>13. /\ ToLoad = job[h].records /\ ToLoad' = ToLoad \ {r} /\ ToRegister' = ToRegister
         /\ ToUnload' = ToUnload /\ (Reading' <=> Reading) /\ Loading' /\ Loading
    BY <2>3, <2>5 DEF InHand, InHandNext, PostPCs
  <2>14. /\ model_map'[r.name] = rec
         /\ \A m \in Models : m # r.name => model_map'[m] = model_map[m]
    BY <1>2, <1>6, <2>6 DEF TypeOK
  <2>15. /\ StateOf(r.name)' = "loading" /\ rec # NoRecord
         /\ \A m \in Models : m # r.name => StateOf(m)' = StateOf(m)
    <3>1. rec \in [timestamp : Versions, state : {"loading", "loaded", "failed"}]
      BY <2>6
    <3>2. rec # NoRecord
      BY <3>1, ConstantsAssumption
    <3> QED
      BY <2>14, <3>2 DEF StateOf
  <2>16. \A q \in Requested(last) : q # r => q.name # r.name /\ q.name \in Models
    BY <1>5, <2>6 DEF Consistent, Record
  <2>17. Loads \subseteq Requested(last)
    <3> SUFFICES ASSUME NEW q \in Loads PROVE q \in Requested(last)
      OBVIOUS
    <3>1. JobOf(LoadJob(q), last)
      BY <1>2, <1>3 DEF Loads, Control, JobsInv
    <3> QED
      BY <3>1, JobsApart DEF JobOf
  <2>18. RecordsInv'
    <3>1. \A m \in Models : StateOf(m)' = "loaded" => framework[m] = model_map'[m].timestamp
      BY <1>2, <2>14, <2>15 DEF Effect, RecordsInv
    <3>2. \A w \in Workers : pc'[w] = "loaded" => \A q \in job'[w].records : framework[q.name] = q.timestamp
      BY <1>2, <2>5 DEF Effect, RecordsInv, SameWorkers
    <3>3. \A q \in Loads' : model_map'[q.name] = [timestamp |-> q.timestamp, state |-> "loading"]
      BY <1>2, <2>7, <2>11, <2>14, <2>16, <2>17 DEF Effect, RecordsInv
    <3>4. \A m \in Models : StateOf(m)' = "loading" => m \in NamesOf(Loads')
      <4>1. r.name \in NamesOf(Loads') /\ NamesOf(Loads) \subseteq NamesOf(Loads')
        BY <2>11 DEF NamesOf
      <4> QED
        BY <1>2, <2>15, <4>1 DEF Effect, RecordsInv
    <3>5. ASSUME NEW q \in Requested(last), q \notin ToLoad'
          PROVE  model_map'[q.name] # NoRecord /\ model_map'[q.name].timestamp = q.timestamp
      <4>1. CASE q = r
        BY <2>14, <2>15, <4>1
      <4>2. CASE q # r
        BY <1>2, <1>3, <2>13, <2>14, <2>16, <3>5, <4>2 DEF Effect, RecordsInv
      <4> QED
        BY <4>1, <4>2
    <3>6. ASSUME NEW m \in Models, model_map'[m] # NoRecord
          PROVE  m \in NamesOf(Requested(last)) \/ Going(m)'
      <4>1. CASE m = r.name
        BY <2>6, <4>1 DEF NamesOf
      <4>2. CASE m # r.name
        <5>1. m \in NamesOf(Requested(last)) \/ Going(m)
          BY <1>2, <1>3, <2>14, <3>6, <4>2 DEF Effect, RecordsInv
        <5> QED
          BY <2>12, <2>13, <5>1 DEF Going
      <4> QED
        BY <4>1, <4>2
    <3> QED
      BY <1>1, <3>1, <3>2, <3>3, <3>4, <3>5, <3>6 DEF RecordsInv
  <2>19. NamesInv'
    <3>1. \A s : Leaving(s) => Leaving(s)'
      BY <2>12, <2>13 DEF Leaving
    <3> QED
      BY <1>1, <1>2, <2>5, <3>1, NamesFrame DEF Effect, SameWorkers
  <2>20. ProgressInv'
    BY <1>1, <1>2, <2>5, ProgressFrame DEF Effect, SameWorkers
  <2>21. EntriesInv'
    <3>1. \A e : Served(e) => Served(e)'
      BY <1>1 DEF Served
    <3> QED
      BY <1>1, <1>2, <1>3, <2>12, <2>13, <3>1 DEF Effect, EntriesInv, GivenUp
  <2> QED
    BY <2>10, <2>18, <2>19, <2>20, <2>21 DEF Effect
<1>7. ASSUME job[h].records = {}, Goto(h, "register_services"), UNCHANGED <<model_map, queue, job>>
      PROVE  Control' /\ Effect'
  <2>1. job' = [job EXCEPT ![h] = job[h]] /\ pc' = [pc EXCEPT ![h] = "register_services"]
    BY <1>2, <1>7 DEF TypeOK, Goto
  <2>2. InHand("load_models", job[h]) /\ InHandNext("register_services", job[h]) /\ SameWorkers
    <3>1. "register_services" \in {"idle"} \cup PostPCs
      BY DEF PostPCs
    <3> DEFINE k == job[h]
    <3>2. job' = [job EXCEPT ![h] = k]
      BY <2>1
    <3> HIDE DEF k
    <3>3. InHand(pc[h], job[h]) /\ InHandNext("register_services", k) /\ SameWorkers
      BY <1>1, <1>2, <2>1, <3>1, <3>2, HandlerMoves DEF SameWorkers
    <3> QED
      BY <1>1, <3>3 DEF k
  <2>3. HandlerOf("register_services", job[h], last)
    BY <1>4 DEF HandlerOf
  <2>4. Control' /\ SameWork
    <3>1. "register_services" \in {"idle"} \cup PostPCs
      BY DEF PostPCs
    <3> QED
      BY <1>1, <1>2, <1>7, <2>1, <2>3, <3>1, HandControl
  <2>5. /\ ToLoad' = ToLoad /\ ToRegister' = ToRegister /\ ToUnload' = ToUnload
        /\ (Reading' <=> Reading) /\ ~Loading'
    BY <1>7, <2>2 DEF InHand, InHandNext, PostPCs
  <2>6. (\A m : Going(m) => Going(m)') /\ (\A s : Leaving(s) => Leaving(s)')
    BY <2>4, <2>5 DEF Going, Leaving, SameWork
  <2>7. RecordsInv'
    BY <1>1, <1>2, <1>7, <2>2, <2>4, <2>5, <2>6, RecordsFrame DEF Effect, SameWork, SameWorkers
  <2>8. NamesInv'
    BY <1>1, <1>2, <2>2, <2>6, NamesFrame DEF Effect, SameWorkers
  <2>9. ProgressInv'
    BY <1>1, <1>2, <2>2, ProgressFrame DEF Effect, SameWorkers
  <2>10. EntriesInv'
    BY <1>1, <1>2, <1>7, <2>4, <2>5, EntriesFrame DEF Effect, SameWork
  <2> QED
    BY <2>4, <2>7, <2>8, <2>9, <2>10 DEF Effect
<1> QED
  BY <1>6, <1>7 DEF LoadModels

\* An entry passes from the handler to its register job.
LEMMA RegisterServicesKeeps ==
  ASSUME SerialPosts, PostInv, NEW h \in Handlers, RegisterServices(h)
  PROVE  Control' /\ Effect'
<1>1. /\ pc[h] = "register_services"
      /\ UNCHANGED <<model_map, service_map, service_models_map, service_weight_map, framework, router, last>>
  BY DEF RegisterServices, At, maps, outer, env
<1>2. TypeOK /\ Control /\ PlacesInv /\ Effect
  BY DEF PostInv, Control
<1>3. last # NoPost
  BY <1>1, <1>2, Busy DEF Threads
<1>4. job[h].entries \subseteq last.entries /\ last.entries \subseteq Entry
  BY <1>1, <1>2, <1>3, PostShape DEF Control, JobsInv, HandlerOf
\* Whether or not a job was queued.
<1>5. ASSUME Control', SameWorkers, Loads' = Loads, Unregisters' = Unregisters,
             NEW k, InHand("register_services", job[h]),
             InHandNext("register_services", k) \/ InHandNext("idle", k),
             \A e : e \in ToRegister \/ e \in Registers => e \in ToRegister' \/ e \in Registers'
      PROVE  Control' /\ Effect'
  <2>1. /\ ToLoad' = ToLoad /\ ToUnload' = ToUnload
        /\ (Reading' <=> Reading) /\ ~Loading'
    BY <1>5 DEF InHand, InHandNext
  <2>2. (\A m : Going(m) => Going(m)') /\ (\A s : Leaving(s) => Leaving(s)')
    BY <1>5, <2>1 DEF Going, Leaving
  <2>3. RecordsInv'
    BY <1>1, <1>2, <1>5, <2>1, <2>2, RecordsFrame DEF Effect, SameWorkers
  <2>4. NamesInv'
    BY <1>1, <1>2, <1>5, <2>2, NamesFrame DEF Effect, SameWorkers
  <2>5. ProgressInv'
    BY <1>1, <1>2, <1>5, ProgressFrame DEF Effect, SameWorkers
  <2>6. EntriesInv'
    BY <1>1, <1>2, <1>5, <2>1, EntriesFrame DEF Effect
  <2> QED
    BY <1>5, <2>3, <2>4, <2>5, <2>6 DEF Effect
<1>6. ASSUME NEW e \in job[h].entries, Submit(RegisterJob(e)),
             job' = [job EXCEPT ![h].entries = @ \ {e}], UNCHANGED pc
      PROVE  Control' /\ Effect'
  <2> DEFINE k == [job[h] EXCEPT !.entries = job[h].entries \ {e}]
  <2>1. job' = [job EXCEPT ![h] = k]
    BY <1>6, Zenon
  <2>2. pc' = [pc EXCEPT ![h] = "register_services"]
    BY <1>1, <1>2, <1>6 DEF TypeOK
  <2>3. k.entries = job[h].entries \ {e}
    <3>1. job[h] \in Job
      BY <1>2 DEF TypeOK, Threads
    <3> QED
      BY <3>1 DEF Job
  <2>4. queue' = Append(queue, RegisterJob(e))
    BY <1>6 DEF Submit
  <2> HIDE DEF k
  <2>5. InHand("register_services", job[h]) /\ InHandNext("register_services", k) /\ SameWorkers
    BY <1>1, <1>2, <2>1, <2>2, HandlerMoves DEF PostPCs, SameWorkers
  <2>6. JobOf(RegisterJob(e), last) /\ HandlerOf("register_services", k, last)
    BY <1>4, <2>3 DEF JobOf, HandlerOf
  <2>7. NewWork("register_services", k, RegisterJob(e))
    BY JobsApart DEF NewWork
  <2>8. Control' /\ Pending' = Pending \cup {RegisterJob(e)}
    BY <1>1, <1>2, <2>1, <2>2, <2>4, <2>6, <2>7, SubmitControl DEF PostPCs
  <2>9. Loads' = Loads /\ Unregisters' = Unregisters
    BY <2>8, JobsApart DEF Loads, Unregisters
  <2>10. Registers \subseteq Registers' /\ e \in Registers'
    BY <1>4, <2>8 DEF Registers
  <2>11. \A f : f \in ToRegister \/ f \in Registers => f \in ToRegister' \/ f \in Registers'
    BY <2>3, <2>5, <2>10 DEF InHand, InHandNext, PostPCs
  <2> QED
    BY <1>5, <2>5, <2>8, <2>9, <2>11
<1>7. ASSUME job[h].entries = {}, Finish(h), UNCHANGED queue
      PROVE  Control' /\ Effect'
  <2>1. job' = [job EXCEPT ![h] = NoJob] /\ pc' = [pc EXCEPT ![h] = "idle"]
    BY <1>7 DEF Finish, Goto
  <2>2. InHand("register_services", job[h]) /\ InHandNext("idle", NoJob) /\ SameWorkers
    BY <1>1, <1>2, <2>1, HandlerMoves DEF SameWorkers
  <2>3. HandlerOf("idle", NoJob, last)
    BY DEF HandlerOf
  <2>4. Control' /\ SameWork
    BY <1>1, <1>2, <1>7, <2>1, <2>3, HandControl
  <2>5. ToRegister = {}
    BY <1>7, <2>2 DEF InHand, PostPCs
  <2> QED
    BY <1>5, <2>2, <2>4, <2>5 DEF SameWork
<1> QED
  BY <1>6, <1>7 DEF RegisterServices

-----------------------------------------------------------------------------
(* What a pool thread works on *)

\* Only records of the last post are being loaded.
LEMMA LoadsOfPost ==
  ASSUME JobsInv, last # NoPost PROVE Loads \subseteq Requested(last)
<1> SUFFICES ASSUME NEW r \in Loads PROVE r \in Requested(last)
  OBVIOUS
<1>1. JobOf(LoadJob(r), last)
  BY DEF Loads, JobsInv
<1> QED
  BY <1>1, JobsApart DEF JobOf

\* What a load job, a register job and an unregister job carry.
LEMMA AtLoad ==
  ASSUME SerialPosts, PostInv, NEW w \in Workers, pc[w] \in LoadPCs
  PROVE  /\ last # NoPost
         /\ \E r \in Loads : /\ job[w] = LoadJob(r) /\ job[w].records = {r}
                             /\ \A q \in Requested(last) : q.name = r.name => q = r
<1>1. TypeOK /\ Control /\ PlacesInv /\ pc[w] # "idle"
  BY DEF PostInv, Control, LoadPCs
<1>2. last # NoPost
  BY <1>1, Busy DEF Threads
<1>3. job[w].kind = "load" /\ JobOf(job[w], last)
  BY <1>1, <1>2 DEF PlacesInv, KindOK, Control, JobsInv, Pending
<1>4. PICK r \in Requested(last) : job[w] = LoadJob(r)
  BY <1>3, JobsApart DEF JobOf
<1>5. Requested(last) \subseteq Record /\ Consistent(last)
  BY <1>1, <1>2, PostShape
<1>6. r \in Loads
  BY <1>4, <1>5 DEF Loads, Pending
<1> QED
  BY <1>2, <1>4, <1>5, <1>6, JobsApart DEF Consistent

LEMMA AtRegister ==
  ASSUME SerialPosts, PostInv, NEW w \in Workers, pc[w] \in RegisterPCs
  PROVE  /\ last # NoPost
         /\ \E e \in last.entries :
              /\ e \in Registers /\ e \in Entry /\ job[w] = RegisterJob(e)
              /\ job[w].service = e.service /\ job[w].weight = e.weight /\ job[w].records = e.records
              /\ \A f \in last.entries : f.service = e.service => f = e
<1>1. TypeOK /\ Control /\ PlacesInv /\ pc[w] # "idle"
  BY DEF PostInv, Control, RegisterPCs, ServicePCs
<1>2. last # NoPost
  BY <1>1, Busy DEF Threads
<1>3. job[w].kind = "register" /\ JobOf(job[w], last)
  BY <1>1, <1>2 DEF PlacesInv, KindOK, Control, JobsInv, Pending
<1>4. PICK e \in last.entries : job[w] = RegisterJob(e)
  BY <1>3, JobsApart DEF JobOf
<1>5. last.entries \subseteq Entry /\ Consistent(last)
  BY <1>1, <1>2, PostShape
<1>6. e \in Registers
  BY <1>4, <1>5 DEF Registers, Pending
<1> QED
  BY <1>2, <1>4, <1>5, <1>6, JobsApart DEF Consistent

LEMMA AtUnregister ==
  ASSUME SerialPosts, PostInv, NEW w \in Workers, pc[w] \in UnregisterPCs
  PROVE  /\ last # NoPost /\ job[w].kind = "unregister" /\ job[w] \in Unregisters
         /\ job[w].service \notin ServicesOf(last)
         /\ job[w].services \cap ServicesOf(last) = {}
         /\ job[w].models \cap NamesOf(Requested(last)) = {}
<1>1. TypeOK /\ Control /\ PlacesInv /\ pc[w] # "idle"
  BY DEF PostInv, Control, UnregisterPCs
<1>2. last # NoPost
  BY <1>1, Busy DEF Threads
<1>3. job[w].kind = "unregister" /\ JobOf(job[w], last)
  BY <1>1, <1>2 DEF PlacesInv, KindOK, Control, JobsInv, Pending
<1>4. job[w] \in Unregisters
  BY <1>3 DEF Unregisters, Pending
<1> QED
  BY <1>2, <1>3, <1>4, JobsApart DEF JobOf

\* A weight that is published is not zero.
LEMMA EffectiveWeightType ==
  ASSUME NEW w \in Int PROVE EffectiveWeight(w) \in Nat \ {0}
BY ConstantsAssumption DEF EffectiveWeight, Weight

\* The work goes on in the same job.
LEMMA JobGoesOn ==
  ASSUME PostInv, NEW w \in Workers, NEW l, pc[w] # "idle",
         Goto(w, l), KindOK(l, job[w]), UNCHANGED <<job, queue, last>>
  PROVE  /\ Control' /\ SameWork /\ SameHandlers
         /\ \A v \in Workers : v # w => pc'[v] = pc[v]
         /\ pc'[w] = l
         /\ \A m : Going(m) => Going(m)'
         /\ \A s : Leaving(s) => Leaving(s)'
<1>1. TypeOK /\ Control /\ pc' = [pc EXCEPT ![w] = l]
  BY DEF PostInv, Goto
<1>2. Control' /\ SameWork /\ SameHandlers
  BY <1>1, MoveControl
<1>3. (\A v \in Workers : v # w => pc'[v] = pc[v]) /\ pc'[w] = l
  BY <1>1 DEF TypeOK, Threads
<1>4. \A m : Going(m) => Going(m)'
  BY <1>2 DEF Going, SameWork, SameHandlers
<1>5. \A s : Leaving(s) => Leaving(s)'
  BY <1>2 DEF Leaving, SameWork, SameHandlers
<1> QED
  BY <1>2, <1>3, <1>4, <1>5

\* A job ends, and takes with it only what it had to do.
LEMMA JobEnds ==
  ASSUME PostInv, NEW w \in Workers, pc[w] # "idle", Finish(w), UNCHANGED <<queue, last>>
  PROVE  /\ Control' /\ SameHandlers
         /\ \A v \in Workers : v # w => pc'[v] = pc[v] /\ job'[v] = job[v]
         /\ pc'[w] = "idle"
         /\ Loads' = {r \in Loads : LoadJob(r) # job[w]}
         /\ \A e \in Registers : RegisterJob(e) # job[w] => e \in Registers'
         /\ \A j \in Unregisters : j # job[w] => j \in Unregisters'
         /\ job[w].kind # "unregister" => \A m : Going(m) => Going(m)'
         /\ (job[w].kind # "unregister" \/ job[w].services = {}) => \A s : Leaving(s) => Leaving(s)'
<1>1. TypeOK /\ Control
  BY DEF PostInv
<1>2. /\ Control' /\ SameHandlers
      /\ \A v \in Workers : v # w => pc'[v] = pc[v] /\ job'[v] = job[v]
      /\ pc'[w] = "idle"
      /\ Loads' = {r \in Loads : LoadJob(r) # job[w]}
      /\ \A e \in Registers : RegisterJob(e) # job[w] => e \in Registers'
      /\ \A j \in Unregisters : j # job[w] => j \in Unregisters'
  BY <1>1, EndControl
<1>3. ASSUME job[w].kind # "unregister" PROVE \A m : Going(m) => Going(m)'
  BY <1>2, <1>3 DEF Going, SameHandlers, Unregisters
<1>4. ASSUME job[w].kind # "unregister" \/ job[w].services = {} PROVE \A s : Leaving(s) => Leaving(s)'
  BY <1>2, <1>4 DEF Leaving, SameHandlers, Unregisters
<1> QED
  BY <1>2, <1>3, <1>4

-----------------------------------------------------------------------------
(* The jobs of the pool *)

\* Taking a job changes nothing about the post.
LEMMA TakeJobKeeps ==
  ASSUME SerialPosts, PostInv, NEW w \in Workers, TakeJob(w)
  PROVE  Control' /\ Effect'
<1>1. UNCHANGED <<model_map, service_map, service_models_map, service_weight_map, framework, router, last>>
  BY DEF TakeJob, maps, outer, env
<1>2. TypeOK /\ Control /\ Effect
  BY DEF PostInv
<1>3. /\ Control' /\ SameWork /\ SameHandlers
      /\ \A v \in Workers : v # w => pc'[v] = pc[v] /\ job'[v] = job[v]
      /\ pc[w] = "idle" /\ pc'[w] \in {"unregister", "load", "poll"}
  BY <1>2, TakeControl
<1>4. (\A m : Going(m) => Going(m)') /\ (\A s : Leaving(s) => Leaving(s)')
  BY <1>3 DEF Going, Leaving, SameWork, SameHandlers
<1>5. RecordsInv'
  BY <1>1, <1>2, <1>3, <1>4, RecordsFrame DEF Effect, SameWork, SameHandlers
<1>6. NamesInv'
  BY <1>1, <1>2, <1>3, <1>4, NamesFrame DEF Effect
<1>7. ProgressInv'
  BY <1>1, <1>2, <1>3, ProgressFrame DEF Effect
<1>8. EntriesInv'
  BY <1>1, <1>2, <1>3, EntriesFrame DEF Effect, SameWork, SameHandlers
<1> QED
  BY <1>3, <1>5, <1>6, <1>7, <1>8 DEF Effect

\* The framework takes the one version of the model that is loading.
LEMMA LoadModelKeeps ==
  ASSUME SerialPosts, PostInv, NEW w \in Workers, LoadModel(w)
  PROVE  Control' /\ Effect'
<1>1. /\ pc[w] = "load"
      /\ UNCHANGED <<model_map, service_map, service_models_map, service_weight_map, router, job, queue, last>>
  BY DEF LoadModel, At, maps, env
<1>2. PICK r \in Loads : /\ job[w] = LoadJob(r) /\ job[w].records = {r}
                         /\ \A q \in Requested(last) : q.name = r.name => q = r
  BY <1>1, AtLoad DEF LoadPCs
<1>3. last # NoPost
  BY <1>1, AtLoad DEF LoadPCs
<1>4. PICK ok \in LoadOutcomes :
        /\ framework' = IF ok THEN [framework EXCEPT ![r.name] = r.timestamp] ELSE framework
        /\ Goto(w, IF ok THEN "loaded" ELSE "failed")
  BY <1>2 DEF LoadModel
<1> DEFINE l == IF ok THEN "loaded" ELSE "failed"
<1>5. KindOK(l, job[w])
  <2>1. KindOK("load", job[w])
    BY <1>1 DEF PostInv, Control, PlacesInv
  <2> QED
    BY <2>1 DEF KindOK, LoadPCs, RegisterPCs, ServicePCs, UnregisterPCs
<1>6. TypeOK /\ Effect /\ JobsInv
  BY DEF PostInv, Control
<1>7. /\ Control' /\ SameWork /\ SameHandlers
      /\ \A v \in Workers : v # w => pc'[v] = pc[v]
      /\ pc'[w] = l
      /\ \A m : Going(m) => Going(m)'
      /\ \A s : Leaving(s) => Leaving(s)'
  BY <1>1, <1>4, <1>5, JobGoesOn
<1>8. r \in Record /\ r.name \in Models /\ Loads \subseteq Requested(last)
  BY <1>3, <1>6, LoadsOfPost DEF Loads, Record
<1>9. /\ \A m \in Models : m # r.name => framework'[m] = framework[m]
      /\ ok => framework'[r.name] = r.timestamp
      /\ ~ok => framework' = framework
  BY <1>4, <1>6, <1>8 DEF TypeOK
<1>10. RecordsInv'
  <2>1. \A m : StateOf(m)' = StateOf(m)
    BY <1>1 DEF StateOf
  <2>2. StateOf(r.name) = "loading"
    <3>1. model_map[r.name] = [timestamp |-> r.timestamp, state |-> "loading"]
      BY <1>6 DEF Effect, RecordsInv
    <3>2. model_map[r.name] \in [timestamp : Versions, state : {"loading", "loaded", "failed"}]
      BY <1>8, <3>1 DEF Record
    <3> QED
      BY <3>1, <3>2, ConstantsAssumption DEF StateOf
  <2>3. \A m \in Models : StateOf(m)' = "loaded" => framework'[m] = model_map[m].timestamp
    BY <1>6, <1>9, <2>1, <2>2 DEF Effect, RecordsInv
  <2>4. ASSUME NEW v \in Workers, pc'[v] = "loaded", NEW q \in job[v].records
        PROVE  framework'[q.name] = q.timestamp
    <3>1. CASE v = w
      BY <1>2, <1>7, <1>9, <2>4, <3>1
    <3>2. CASE v # w
      <4>1. pc[v] = "loaded"
        BY <1>7, <2>4, <3>2
      <4>2. q \in Loads /\ q \in Requested(last) /\ q.name \in Models
        <5>1. q \in Loads
          BY <2>4, <4>1, AtLoad DEF LoadPCs
        <5> QED
          BY <1>8, <5>1 DEF Loads, Record
      <4>3. framework[q.name] = q.timestamp
        BY <1>6, <2>4, <4>1 DEF Effect, RecordsInv
      <4>4. CASE q.name # r.name
        BY <1>9, <4>2, <4>3, <4>4
      <4>5. CASE q.name = r.name
        <5>1. q = r
          BY <1>2, <4>2, <4>5
        <5> QED
          BY <1>9, <4>3, <5>1
      <4> QED
        BY <4>4, <4>5
    <3> QED
      BY <3>1, <3>2
  <2> QED
    BY <1>1, <1>6, <1>7, <2>1, <2>3, <2>4 DEF Effect, RecordsInv, SameWork, SameHandlers
<1>11. NamesInv'
  BY <1>1, <1>6, <1>7, NamesFrame DEF Effect
<1>12. ProgressInv'
  BY <1>1, <1>6, <1>7, ProgressFrame DEF Effect
<1>13. EntriesInv'
  BY <1>1, <1>6, <1>7, EntriesFrame DEF Effect, SameWork, SameHandlers
<1> QED
  BY <1>7, <1>10, <1>11, <1>12, <1>13 DEF Effect

\* A record stops loading when its only load has ended.
LEMMA StoreRecordKeeps ==
  ASSUME SerialPosts, PostInv, NEW w \in Workers, StoreRecord(w)
  PROVE  Control' /\ Effect'
<1>1. /\ pc[w] \in {"loaded", "failed"} /\ Finish(w)
      /\ UNCHANGED <<service_map, service_models_map, service_weight_map, framework, router, queue, last>>
  BY DEF StoreRecord, At, outer, env
<1>2. PICK r \in Loads : /\ job[w] = LoadJob(r) /\ job[w].records = {r}
                         /\ \A q \in Requested(last) : q.name = r.name => q = r
  BY <1>1, AtLoad DEF LoadPCs
<1>3. last # NoPost
  BY <1>1, AtLoad DEF LoadPCs
<1> DEFINE rec == [timestamp |-> r.timestamp, state |-> pc[w]]
<1>4. model_map' = [model_map EXCEPT ![r.name] = rec]
  BY <1>2 DEF StoreRecord
<1>5. TypeOK /\ Effect /\ JobsInv
  BY DEF PostInv, Control
<1>6. /\ Control' /\ SameHandlers
      /\ \A v \in Workers : v # w => pc'[v] = pc[v] /\ job'[v] = job[v]
      /\ pc'[w] = "idle"
      /\ Loads' = {q \in Loads : LoadJob(q) # job[w]}
      /\ \A e \in Registers : RegisterJob(e) # job[w] => e \in Registers'
      /\ \A m : Going(m) => Going(m)'
      /\ \A s : Leaving(s) => Leaving(s)'
  BY <1>1, <1>2, JobEnds, JobsApart
<1>7. Loads' = Loads \ {r} /\ Registers \subseteq Registers'
  BY <1>2, <1>6, JobsApart
<1>8. r \in Record /\ r.name \in Models /\ r.timestamp \in Versions /\ Loads \subseteq Requested(last)
  BY <1>3, <1>5, LoadsOfPost DEF Loads, Record
<1>9. /\ model_map'[r.name] = rec /\ rec # NoRecord
      /\ \A m \in Models : m # r.name => model_map'[m] = model_map[m]
  <2>1. rec \in [timestamp : Versions, state : {"loading", "loaded", "failed"}]
    BY <1>1, <1>8
  <2>2. rec # NoRecord
    BY <2>1, ConstantsAssumption
  <2> HIDE DEF rec
  <2> QED
    BY <1>4, <1>5, <1>8, <2>2 DEF TypeOK
<1>10. /\ StateOf(r.name)' = pc[w]
       /\ \A m \in Models : m # r.name => StateOf(m)' = StateOf(m)
  BY <1>9 DEF StateOf
<1>11. StateOf(r.name) = "loading"
  <2>1. model_map[r.name] = [timestamp |-> r.timestamp, state |-> "loading"]
    BY <1>5 DEF Effect, RecordsInv
  <2>2. model_map[r.name] \in [timestamp : Versions, state : {"loading", "loaded", "failed"}]
    BY <1>8, <2>1
  <2> QED
    BY <2>1, <2>2, ConstantsAssumption DEF StateOf
<1>12. \A q \in Requested(last) : q # r => q.name # r.name
  BY <1>2
<1>13. Requested(last) \subseteq Record
  BY <1>3, <1>5, PostShape
<1>14. RecordsInv'
  <2>1. ASSUME NEW m \in Models, StateOf(m)' = "loaded" PROVE framework[m] = model_map'[m].timestamp
    <3>1. CASE m = r.name
      BY <1>2, <1>5, <1>9, <1>10, <2>1, <3>1 DEF Effect, RecordsInv
    <3>2. CASE m # r.name
      BY <1>5, <1>9, <1>10, <2>1, <3>2 DEF Effect, RecordsInv
    <3> QED
      BY <3>1, <3>2
  <2>2. ASSUME NEW v \in Workers, pc'[v] = "loaded", NEW q \in job'[v].records
        PROVE  framework[q.name] = q.timestamp
    BY <1>5, <1>6, <2>2 DEF Effect, RecordsInv
  <2>3. ASSUME NEW q \in Loads' PROVE model_map'[q.name] = [timestamp |-> q.timestamp, state |-> "loading"]
    <3>1. q \in Loads /\ q.name # r.name /\ q.name \in Models
      BY <1>7, <1>8, <1>12, <1>13, <2>3 DEF Record
    <3> QED
      BY <1>5, <1>9, <3>1 DEF Effect, RecordsInv
  <2>4. ASSUME NEW m \in Models, StateOf(m)' = "loading" PROVE m \in NamesOf(Loads')
    <3>1. m # r.name
      BY <1>1, <1>10, <2>4
    <3>2. m \in NamesOf(Loads)
      BY <1>5, <1>10, <2>4, <3>1 DEF Effect, RecordsInv
    <3>3. PICK q \in Loads : q.name = m
      BY <3>2 DEF NamesOf
    <3>4. q \in Loads'
      BY <1>7, <3>1, <3>3
    <3> QED
      BY <3>3, <3>4 DEF NamesOf
  <2>5. ASSUME NEW q \in Requested(last), q \notin ToLoad'
        PROVE  model_map'[q.name] # NoRecord /\ model_map'[q.name].timestamp = q.timestamp
    <3>1. CASE q = r
      BY <1>9, <3>1
    <3>2. CASE q # r
      <4>1. q.name # r.name /\ q.name \in Models
        BY <1>12, <1>13, <3>2 DEF Record
      <4> QED
        BY <1>3, <1>5, <1>6, <1>9, <2>5, <4>1 DEF Effect, RecordsInv, SameHandlers
    <3> QED
      BY <3>1, <3>2
  <2>6. ASSUME NEW m \in Models, model_map'[m] # NoRecord
        PROVE  m \in NamesOf(Requested(last)) \/ Going(m)'
    <3>1. CASE m = r.name
      BY <1>8, <3>1 DEF NamesOf
    <3>2. CASE m # r.name
      BY <1>3, <1>5, <1>6, <1>9, <2>6, <3>2 DEF Effect, RecordsInv
    <3> QED
      BY <3>1, <3>2
  <2> QED
    BY <1>1, <2>1, <2>2, <2>3, <2>4, <2>5, <2>6 DEF RecordsInv
<1>15. NamesInv'
  BY <1>1, <1>5, <1>6, NamesFrame DEF Effect
<1>16. ProgressInv'
  BY <1>1, <1>5, <1>6, ProgressFrame DEF Effect
<1>17. EntriesInv'
  <2> SUFFICES ASSUME NEW e \in last.entries
               PROVE  e \in ToRegister' \/ e \in Registers' \/ Served(e)' \/ GivenUp(e)'
    BY <1>1 DEF EntriesInv
  <2>1. Served(e) => Served(e)'
    BY <1>1 DEF Served
  <2>2. GivenUp(e) => GivenUp(e)'
    <3>1. \A q \in e.records : q.name \in Models
      BY <1>13 DEF Requested, Record
    <3> QED
      BY <1>6, <1>10, <1>11, <3>1 DEF GivenUp, SameHandlers
  <2> QED
    BY <1>3, <1>5, <1>6, <1>7, <2>1, <2>2 DEF Effect, EntriesInv, SameHandlers
<1> QED
  BY <1>6, <1>14, <1>15, <1>16, <1>17 DEF Effect

\* A register job goes on when all is loaded, or gives its entry up.
LEMMA PollKeeps ==
  ASSUME SerialPosts, PostInv, NEW w \in Workers, Poll(w)
  PROVE  Control' /\ Effect'
<1>1. /\ pc[w] = "poll"
      /\ UNCHANGED <<model_map, service_map, service_models_map, service_weight_map, framework, router, queue, last>>
  BY DEF Poll, At, maps, outer, env
<1>2. TypeOK /\ Effect /\ JobsInv /\ last # NoPost
  BY <1>1, AtRegister DEF PostInv, Control, RegisterPCs
<1>3. PICK e \in last.entries :
        /\ e \in Registers /\ e \in Entry /\ job[w] = RegisterJob(e)
        /\ job[w].service = e.service /\ job[w].weight = e.weight /\ job[w].records = e.records
        /\ \A f \in last.entries : f.service = e.service => f = e
  BY <1>1, AtRegister DEF RegisterPCs
<1>4. CASE Goto(w, "register") /\ UNCHANGED job
  <2>1. KindOK("register", job[w])
    <3>1. KindOK("poll", job[w])
      BY <1>1 DEF PostInv, Control, PlacesInv
    <3> QED
      BY <3>1 DEF KindOK, LoadPCs, RegisterPCs, ServicePCs, UnregisterPCs
  <2>2. /\ Control' /\ SameWork /\ SameHandlers
        /\ \A v \in Workers : v # w => pc'[v] = pc[v]
        /\ pc'[w] = "register"
        /\ \A m : Going(m) => Going(m)'
        /\ \A s : Leaving(s) => Leaving(s)'
    BY <1>1, <1>4, <2>1, JobGoesOn
  <2>3. RecordsInv'
    BY <1>1, <1>2, <1>4, <2>2, RecordsFrame DEF Effect, SameWork, SameHandlers
  <2>4. NamesInv'
    BY <1>1, <1>2, <1>4, <2>2, NamesFrame DEF Effect
  <2>5. ProgressInv'
    BY <1>1, <1>2, <1>4, <2>2, ProgressFrame DEF Effect
  <2>6. EntriesInv'
    BY <1>1, <1>2, <2>2, EntriesFrame DEF Effect, SameWork, SameHandlers
  <2> QED
    BY <2>2, <2>3, <2>4, <2>5, <2>6 DEF Effect
<1>5. CASE (\E r \in job[w].records : StateOf(r.name) = "failed") /\ Finish(w)
  <2>1. /\ Control' /\ SameHandlers
        /\ \A v \in Workers : v # w => pc'[v] = pc[v] /\ job'[v] = job[v]
        /\ pc'[w] = "idle"
        /\ Loads' = {r \in Loads : LoadJob(r) # job[w]}
        /\ \A f \in Registers : RegisterJob(f) # job[w] => f \in Registers'
        /\ \A m : Going(m) => Going(m)'
        /\ \A s : Leaving(s) => Leaving(s)'
    BY <1>1, <1>3, <1>5, JobEnds, JobsApart
  <2>2. Loads' = Loads
    BY <1>3, <2>1, JobsApart
  <2>3. RecordsInv'
    BY <1>1, <1>2, <2>1, <2>2, RecordsFrame DEF Effect, SameHandlers
  <2>4. NamesInv'
    BY <1>1, <1>2, <2>1, NamesFrame DEF Effect
  <2>5. ProgressInv'
    BY <1>1, <1>2, <2>1, ProgressFrame DEF Effect
  <2>6. EntriesInv'
    <3> SUFFICES ASSUME NEW f \in last.entries
                 PROVE  f \in ToRegister' \/ f \in Registers' \/ Served(f)' \/ GivenUp(f)'
      BY <1>1 DEF EntriesInv
    <3>1. Served(f) => Served(f)'
      BY <1>1 DEF Served
    <3>2. GivenUp(f) => GivenUp(f)'
      BY <1>1, <2>1 DEF GivenUp, StateOf, SameHandlers
    <3>3. CASE f = e
      <4>1. ~Loading
        BY <1>2, <1>3 DEF JobsInv
      <4>2. GivenUp(e)
        BY <1>3, <1>5, <4>1 DEF GivenUp
      <4> QED
        BY <3>2, <3>3, <4>2
    <3>4. CASE f # e
      <4>1. f \in Registers => f \in Registers'
        BY <1>3, <2>1, <3>4, JobsApart DEF Registers
      <4> QED
        BY <1>2, <2>1, <3>1, <3>2, <4>1 DEF Effect, EntriesInv, SameHandlers
    <3> QED
      BY <3>3, <3>4
  <2> QED
    BY <2>1, <2>3, <2>4, <2>5, <2>6 DEF Effect
<1> QED
  BY <1>4, <1>5 DEF Poll

\* The entry of a register job is served when the job ends.
LEMMA BindModelsKeeps ==
  ASSUME SerialPosts, PostInv, NEW w \in Workers, BindModels(w)
  PROVE  Control' /\ Effect'
<1>1. /\ pc[w] = "bind" /\ Finish(w)
      /\ service_models_map' = [service_models_map EXCEPT ![job[w].service] = NamesOf(job[w].records)]
      /\ UNCHANGED <<model_map, service_map, service_weight_map, framework, router, queue, last>>
  BY DEF BindModels, At, outer, env
<1>2. TypeOK /\ Effect /\ JobsInv /\ last # NoPost
  BY <1>1, AtRegister DEF PostInv, Control, RegisterPCs, ServicePCs
<1>3. PICK e \in last.entries :
        /\ e \in Registers /\ e \in Entry /\ job[w] = RegisterJob(e)
        /\ job[w].service = e.service /\ job[w].weight = e.weight /\ job[w].records = e.records
        /\ \A f \in last.entries : f.service = e.service => f = e
  BY <1>1, AtRegister DEF RegisterPCs, ServicePCs
<1>4. /\ Control' /\ SameHandlers
      /\ \A v \in Workers : v # w => pc'[v] = pc[v] /\ job'[v] = job[v]
      /\ pc'[w] = "idle"
      /\ Loads' = {r \in Loads : LoadJob(r) # job[w]}
      /\ \A f \in Registers : RegisterJob(f) # job[w] => f \in Registers'
      /\ \A m : Going(m) => Going(m)'
      /\ \A s : Leaving(s) => Leaving(s)'
  BY <1>1, <1>3, JobEnds, JobsApart
<1>5. Loads' = Loads
  BY <1>3, <1>4, JobsApart
<1>6. RecordsInv'
  BY <1>1, <1>2, <1>4, <1>5, RecordsFrame DEF Effect, SameHandlers
<1>7. NamesInv'
  BY <1>1, <1>2, <1>4, NamesFrame DEF Effect
<1>8. ProgressInv'
  BY <1>1, <1>2, <1>4, ProgressFrame DEF Effect
<1>9. EntriesInv'
  <2> SUFFICES ASSUME NEW f \in last.entries
               PROVE  f \in ToRegister' \/ f \in Registers' \/ Served(f)' \/ GivenUp(f)'
    BY <1>1 DEF EntriesInv
  <2>1. f.service \in Services
    BY <1>2, PostShape DEF ServicesOf
  <2>2. CASE f = e
    <3>1. service_models_map'[e.service] = NamesOf(e.records)
      BY <1>1, <1>2, <1>3, <2>1, <2>2 DEF TypeOK
    <3> QED
      BY <1>1, <1>2, <1>3, <2>2, <3>1 DEF Effect, ProgressInv, Served
  <2>3. CASE f # e
    <3>1. service_models_map'[f.service] = service_models_map[f.service]
      BY <1>1, <1>2, <1>3, <2>1, <2>3 DEF TypeOK
    <3>2. Served(f) => Served(f)'
      BY <1>1, <3>1 DEF Served
    <3>3. GivenUp(f) => GivenUp(f)'
      BY <1>1, <1>4 DEF GivenUp, StateOf, SameHandlers
    <3>4. f \in Registers => f \in Registers'
      BY <1>3, <1>4, <2>3, JobsApart DEF Registers
    <3> QED
      BY <1>2, <1>4, <3>2, <3>3, <3>4 DEF Effect, EntriesInv, SameHandlers
  <2> QED
    BY <2>2, <2>3
<1> QED
  BY <1>4, <1>6, <1>7, <1>8, <1>9 DEF Effect

\* The records that the unregister job was to take away are gone.
LEMMA UnloadModelsKeeps ==
  ASSUME SerialPosts, PostInv, NEW w \in Workers, UnloadModels(w)
  PROVE  Control' /\ Effect'
<1>1. /\ pc[w] = "unload" /\ Finish(w)
      /\ model_map' = [m \in Models |-> IF m \in job[w].models THEN NoRecord ELSE model_map[m]]
      /\ UNCHANGED <<service_map, service_models_map, service_weight_map, framework, router, queue, last>>
  BY DEF UnloadModels, At, outer, env
<1>2. TypeOK /\ Effect /\ JobsInv
  BY DEF PostInv, Control
<1>3. /\ last # NoPost /\ job[w].kind = "unregister"
      /\ job[w].models \cap NamesOf(Requested(last)) = {} /\ job[w].services = {}
  BY <1>1, <1>2, AtUnregister DEF UnregisterPCs, Effect, ProgressInv
<1>4. /\ Control' /\ SameHandlers
      /\ \A v \in Workers : v # w => pc'[v] = pc[v] /\ job'[v] = job[v]
      /\ pc'[w] = "idle"
      /\ Loads' = {r \in Loads : LoadJob(r) # job[w]}
      /\ \A f \in Registers : RegisterJob(f) # job[w] => f \in Registers'
      /\ \A j \in Unregisters : j # job[w] => j \in Unregisters'
      /\ \A s : Leaving(s) => Leaving(s)'
  BY <1>1, <1>3, JobEnds
<1>5. Loads' = Loads /\ Registers \subseteq Registers'
  BY <1>3, <1>4, JobsApart
<1>6. \A m \in Models : m \in job[w].models => model_map'[m] = NoRecord /\ StateOf(m)' = "absent"
  BY <1>1 DEF StateOf
<1>7. \A m \in Models : m \notin job[w].models => model_map'[m] = model_map[m] /\ StateOf(m)' = StateOf(m)
  BY <1>1 DEF StateOf
<1>8. /\ Requested(last) \subseteq Record /\ Loads \subseteq Requested(last)
      /\ \A r \in Requested(last) : r.name \in Models /\ r.name \notin job[w].models
  BY <1>2, <1>3, PostShape, LoadsOfPost DEF NamesOf, Record
<1>9. RecordsInv'
  <2>1. \A m \in Models : StateOf(m)' = "loaded" => framework[m] = model_map'[m].timestamp
    BY <1>2, <1>6, <1>7 DEF Effect, RecordsInv
  <2>2. \A v \in Workers : pc'[v] = "loaded" => \A r \in job'[v].records : framework[r.name] = r.timestamp
    BY <1>2, <1>4 DEF Effect, RecordsInv
  <2>3. \A r \in Loads : model_map'[r.name] = [timestamp |-> r.timestamp, state |-> "loading"]
    BY <1>2, <1>7, <1>8 DEF Effect, RecordsInv
  <2>4. \A m \in Models : StateOf(m)' = "loading" => m \in NamesOf(Loads)
    BY <1>2, <1>6, <1>7 DEF Effect, RecordsInv
  <2>5. ASSUME NEW r \in Requested(last), r \notin ToLoad'
        PROVE  model_map'[r.name] # NoRecord /\ model_map'[r.name].timestamp = r.timestamp
    BY <1>2, <1>3, <1>4, <1>7, <1>8, <2>5 DEF Effect, RecordsInv, SameHandlers
  <2>6. ASSUME NEW m \in Models, model_map'[m] # NoRecord
        PROVE  m \in NamesOf(Requested(last)) \/ Going(m)'
    <3>1. m \notin job[w].models /\ model_map[m] # NoRecord
      BY <1>6, <1>7, <2>6
    <3>2. m \in NamesOf(Requested(last)) \/ Going(m)
      BY <1>2, <1>3, <3>1 DEF Effect, RecordsInv
    <3> QED
      BY <1>4, <3>1, <3>2 DEF Going, SameHandlers
  <2> QED
    BY <1>1, <1>5, <2>1, <2>2, <2>3, <2>4, <2>5, <2>6 DEF RecordsInv
<1>10. NamesInv'
  BY <1>1, <1>2, <1>4, NamesFrame DEF Effect
<1>11. ProgressInv'
  BY <1>1, <1>2, <1>4, ProgressFrame DEF Effect
<1>12. EntriesInv'
  <2> SUFFICES ASSUME NEW f \in last.entries
               PROVE  f \in ToRegister' \/ f \in Registers' \/ Served(f)' \/ GivenUp(f)'
    BY <1>1 DEF EntriesInv
  <2>1. Served(f) => Served(f)'
    BY <1>1 DEF Served
  <2>2. GivenUp(f) => GivenUp(f)'
    <3>1. \A r \in f.records : r \in Requested(last)
      BY DEF Requested
    <3> QED
      BY <1>4, <1>7, <1>8, <3>1 DEF GivenUp, SameHandlers
  <2> QED
    BY <1>2, <1>3, <1>4, <1>5, <2>1, <2>2 DEF Effect, EntriesInv, SameHandlers
<1> QED
  BY <1>4, <1>9, <1>10, <1>11, <1>12 DEF Effect

\* A step that touches the maps and the Router for one name only.
OnlyAt(s) ==
  \A z \in Services : z # s =>
    /\ z \in service_map' <=> z \in service_map
    /\ service_models_map'[z] = service_models_map[z]
    /\ service_weight_map'[z] = service_weight_map[z]
    /\ router'[z] = router[z]

\* A register job goes on: it changes what is kept for its own service only,
\* which no other entry of the post names, and does not take back what another
\* job of the same entry has achieved.
LEMMA RegisterGoesOn ==
  ASSUME SerialPosts, PostInv, NEW w \in Workers, NEW l \in ServicePCs, pc[w] \in ServicePCs,
         Goto(w, l), UNCHANGED <<model_map, framework, job, queue, last>>,
         service_map' \subseteq Services, NEW s, s = job[w].service, OnlyAt(s),
         s \in service_map => s \in service_map',
         router[s] # 0 => router'[s] # 0,
         l \in {"init_models", "set_weight", "bind"} => s \in service_map' /\ router'[s] # 0,
         l = "bind" \/ router[s] = EffectiveWeight(job[w].weight) => router'[s] = EffectiveWeight(job[w].weight),
         service_weight_map'[s] # 0 => router'[s] = service_weight_map'[s]
  PROVE  Control' /\ Effect'
<1>1. pc[w] \in RegisterPCs /\ pc[w] # "idle"
  BY DEF RegisterPCs, ServicePCs
<1>2. TypeOK /\ Effect /\ JobsInv /\ last # NoPost
  BY <1>1, AtRegister DEF PostInv, Control
<1>3. PICK e \in last.entries :
        /\ e \in Registers /\ e \in Entry /\ job[w] = RegisterJob(e)
        /\ job[w].service = e.service /\ job[w].weight = e.weight /\ job[w].records = e.records
        /\ \A f \in last.entries : f.service = e.service => f = e
  BY <1>1, AtRegister
<1>4. KindOK(l, job[w])
  <2>1. KindOK(pc[w], job[w])
    BY DEF PostInv, Control, PlacesInv
  <2>2. l \in RegisterPCs /\ l # "idle" /\ l \notin LoadPCs /\ l \notin UnregisterPCs
    BY DEF LoadPCs, RegisterPCs, ServicePCs, UnregisterPCs
  <2>3. job[w].kind = "register" /\ job[w] # NoJob
    BY <1>3, JobsApart
  <2> QED
    BY <2>2, <2>3 DEF KindOK
<1>5. /\ Control' /\ SameWork /\ SameHandlers
      /\ \A v \in Workers : v # w => pc'[v] = pc[v]
      /\ pc'[w] = l
      /\ \A m : Going(m) => Going(m)'
      /\ \A z : Leaving(z) => Leaving(z)'
  BY <1>1, <1>4, JobGoesOn
<1>6. s \in Services /\ s \in ServicesOf(last)
  BY <1>2, <1>3, PostShape DEF ServicesOf
<1>7. RecordsInv'
  <2>1. \A v \in Workers : pc'[v] = "loaded" => pc[v] = "loaded" /\ job'[v] = job[v]
    BY <1>5 DEF ServicePCs
  <2> QED
    BY <1>2, <1>5, <2>1, RecordsFrame DEF Effect, SameWork, SameHandlers
<1>8. NamesInv'
  <2>1. ASSUME NEW z \in service_map' PROVE z \in ServicesOf(last) \/ Leaving(z)'
    <3>1. CASE z = s
      BY <1>6, <3>1
    <3>2. CASE z # s
      BY <1>2, <1>5, <2>1, <3>2 DEF Effect, NamesInv, OnlyAt
    <3> QED
      BY <3>1, <3>2
  <2>2. ASSUME NEW z \in Services, service_weight_map'[z] # 0, router'[z] # service_weight_map'[z]
        PROVE  \E v \in Workers : pc'[v] = "erase_weight" /\ job'[v].service = z
    <3>1. z # s
      BY <2>2
    <3>2. PICK v \in Workers : pc[v] = "erase_weight" /\ job[v].service = z
      BY <1>2, <2>2, <3>1 DEF Effect, NamesInv, OnlyAt
    <3>3. v # w
      BY <3>2 DEF ServicePCs
    <3> QED
      BY <1>5, <3>2, <3>3
  <2> QED
    BY <2>1, <2>2 DEF NamesInv
<1>9. ProgressInv'
  <2> SUFFICES ASSUME NEW v \in Workers
               PROVE  /\ pc'[v] \in {"init_models", "set_weight", "bind"} =>
                           job[v].service \in service_map' /\ router'[job[v].service] # 0
                      /\ pc'[v] = "bind" => router'[job[v].service] = EffectiveWeight(job[v].weight)
                      /\ pc'[v] = "unload" => job[v].services = {}
    BY DEF ProgressInv
  <2>1. CASE v = w
    BY <1>5, <2>1 DEF ServicePCs
  <2>2. CASE v # w
    <3>1. pc'[v] = pc[v]
      BY <1>5, <2>2
    <3>2. /\ pc[v] \in {"init_models", "set_weight", "bind"} =>
               job[v].service \in service_map /\ router[job[v].service] # 0
          /\ pc[v] = "bind" => router[job[v].service] = EffectiveWeight(job[v].weight)
          /\ pc[v] = "unload" => job[v].services = {}
      BY <1>2 DEF Effect, ProgressInv
    <3>3. CASE pc[v] \in {"init_models", "set_weight", "bind"}
      <4>1. PICK f \in last.entries : job[v].service = f.service /\ job[v].weight = f.weight
        BY <3>3, AtRegister DEF RegisterPCs, ServicePCs
      <4>2. f.service \in Services
        BY <1>2, PostShape DEF ServicesOf
      <4>3. CASE job[v].service = s
        <5>1. job[v].weight = job[w].weight
          BY <1>3, <4>1, <4>3
        <5> QED
          BY <3>1, <3>2, <3>3, <4>3, <5>1
      <4>4. CASE job[v].service # s
        <5>1. /\ job[v].service \in service_map' <=> job[v].service \in service_map
              /\ router'[job[v].service] = router[job[v].service]
          BY <4>1, <4>2, <4>4 DEF OnlyAt
        <5> QED
          BY <3>1, <3>2, <3>3, <5>1
      <4> QED
        BY <4>3, <4>4
    <3> QED
      BY <3>1, <3>2, <3>3
  <2> QED
    BY <2>1, <2>2
<1>10. EntriesInv'
  <2> SUFFICES ASSUME NEW f \in last.entries
               PROVE  f \in ToRegister' \/ f \in Registers' \/ Served(f)' \/ GivenUp(f)'
    BY DEF EntriesInv
  <2>1. CASE f = e
    BY <1>3, <1>5, <2>1 DEF SameWork
  <2>2. CASE f # e
    <3>1. f.service \in Services /\ f.service # s
      BY <1>2, <1>3, <2>2, PostShape DEF ServicesOf
    <3>2. Served(f) => Served(f)'
      BY <3>1 DEF Served, OnlyAt
    <3>3. GivenUp(f) => GivenUp(f)'
      BY <1>5 DEF GivenUp, StateOf, SameHandlers
    <3> QED
      BY <1>2, <1>5, <3>2, <3>3 DEF Effect, EntriesInv, SameWork, SameHandlers
  <2> QED
    BY <2>1, <2>2
<1> QED
  BY <1>5, <1>7, <1>8, <1>9, <1>10 DEF Effect

\* The weight kept for a service of the post is the one published.
LEMMA WeightOfPosted ==
  ASSUME SerialPosts, PostInv, last # NoPost, NEW s \in Services, s \in ServicesOf(last),
         service_weight_map[s] # 0
  PROVE  router[s] = service_weight_map[s]
<1>1. NamesInv
  BY DEF PostInv, Effect
<1>2. \A v \in Workers : pc[v] = "erase_weight" => job[v].service # s
  BY AtUnregister DEF UnregisterPCs
<1> QED
  BY <1>1, <1>2 DEF NamesInv

\* What a register job knows of its service.
LEMMA ServiceOfJob ==
  ASSUME SerialPosts, PostInv, NEW w \in Workers, pc[w] \in ServicePCs
  PROVE  /\ last # NoPost /\ job[w].service \in Services /\ job[w].service \in ServicesOf(last)
         /\ job[w].kind = "register" /\ job[w].weight \in Int
         /\ EffectiveWeight(job[w].weight) # 0
         /\ service_weight_map[job[w].service] # 0 =>
              router[job[w].service] = service_weight_map[job[w].service]
<1>1. PICK e \in last.entries : e \in Entry /\ job[w] = RegisterJob(e) /\ job[w].service = e.service /\ job[w].weight = e.weight
  BY AtRegister DEF RegisterPCs
<1>2. last # NoPost
  BY AtRegister DEF RegisterPCs
<1>3. job[w].kind = "register" /\ job[w].weight \in Int /\ job[w].service \in Services
  BY <1>1, JobsApart DEF Entry
<1>4. job[w].service \in ServicesOf(last)
  BY <1>1 DEF ServicesOf
<1> QED
  BY <1>2, <1>3, <1>4, WeightOfPosted, EffectiveWeightType

\* The four critical sections of register_service_name.
LEMMA RegisterServiceNameKeeps ==
  ASSUME SerialPosts, PostInv, NEW w \in Workers, RegisterServiceName(w)
  PROVE  Control' /\ Effect'
<1> DEFINE s == job[w].service
<1>1. /\ pc[w] = "register" /\ ServiceMapFree
      /\ UNCHANGED <<model_map, service_models_map, service_weight_map, framework, router, job, queue, last>>
  BY DEF RegisterServiceName, At, outer, env
<1>2. /\ TypeOK /\ RouterInv /\ s \in Services /\ pc[w] \in ServicePCs
      /\ service_weight_map[s] # 0 => router[s] = service_weight_map[s]
  BY <1>1, ServiceOfJob DEF PostInv, ServicePCs
<1>3. CASE s \in service_map /\ Goto(w, "set_weight") /\ UNCHANGED service_map
  <2>1. router[s] # 0
    BY <1>1, <1>2, <1>3, FreeMeansNoWaiter DEF RouterInv, Published
  <2>2. OnlyAt(s) /\ service_map' \subseteq Services
    BY <1>1, <1>2, <1>3 DEF OnlyAt, TypeOK
  <2>3. "set_weight" \in ServicePCs
    BY DEF ServicePCs
  <2> HIDE DEF s
  <2> QED
    BY <1>1, <1>2, <1>3, <2>1, <2>2, <2>3, RegisterGoesOn DEF s
<1>4. CASE s \notin service_map /\ service_map' = service_map \cup {s} /\ Goto(w, "wait_config")
  <2>1. OnlyAt(s) /\ service_map' \subseteq Services
    BY <1>1, <1>2, <1>4 DEF OnlyAt, TypeOK
  <2>2. "wait_config" \in ServicePCs
    BY DEF ServicePCs
  <2> QED
    BY <1>1, <1>2, <1>4, <2>1, <2>2, RegisterGoesOn
<1> QED
  BY <1>3, <1>4 DEF RegisterServiceName

LEMMA RegisterServerKeeps ==
  ASSUME SerialPosts, PostInv, NEW w \in Workers, RegisterServer(w)
  PROVE  Control' /\ Effect'
<1> DEFINE s == job[w].service
<1>1. /\ pc[w] = "wait_config" /\ router' = [router EXCEPT ![s] = IF @ = 0 THEN 1 ELSE @]
      /\ Goto(w, "init_models")
      /\ UNCHANGED <<model_map, service_map, service_models_map, service_weight_map, framework, job, queue, last>>
  BY DEF RegisterServer, At, env
<1>2. /\ TypeOK /\ RouterInv /\ s \in Services /\ pc[w] \in ServicePCs
      /\ EffectiveWeight(job[w].weight) # 0
      /\ service_weight_map[s] # 0 => router[s] = service_weight_map[s]
  BY <1>1, ServiceOfJob DEF PostInv, ServicePCs
<1>3. s \in service_map
  BY <1>1, <1>2 DEF RouterInv, PendingRegistered, Threads
<1>4. /\ router'[s] = IF router[s] = 0 THEN 1 ELSE router[s]
      /\ \A z \in Services : z # s => router'[z] = router[z]
  BY <1>1, <1>2 DEF TypeOK
<1>5. OnlyAt(s) /\ service_map' \subseteq Services
  BY <1>1, <1>2, <1>4 DEF OnlyAt, TypeOK
<1>6. "init_models" \in ServicePCs
  BY DEF ServicePCs
<1>7. /\ router'[s] # 0 /\ (router[s] # 0 => router'[s] = router[s])
      /\ (service_weight_map'[s] # 0 => router'[s] = service_weight_map'[s])
  BY <1>1, <1>2, <1>4
<1> QED
  BY <1>1, <1>2, <1>3, <1>5, <1>6, <1>7, RegisterGoesOn

LEMMA InitServiceModelsKeeps ==
  ASSUME SerialPosts, PostInv, NEW w \in Workers, InitServiceModels(w)
  PROVE  Control' /\ Effect'
<1> DEFINE s == job[w].service
<1>1. /\ pc[w] = "init_models"
      /\ service_models_map' = [service_models_map EXCEPT ![s] = IF @ = NoSet THEN {} ELSE @]
      /\ Goto(w, "set_weight")
      /\ UNCHANGED <<model_map, service_map, service_weight_map, framework, router, job, queue, last>>
  BY DEF InitServiceModels, At, outer, env
<1>2. /\ TypeOK /\ ProgressInv /\ s \in Services /\ pc[w] \in ServicePCs
      /\ service_weight_map[s] # 0 => router[s] = service_weight_map[s]
  BY <1>1, ServiceOfJob DEF PostInv, Effect, ServicePCs
<1>3. s \in service_map /\ router[s] # 0
  BY <1>1, <1>2 DEF ProgressInv
<1>4. \A z \in Services : z # s => service_models_map'[z] = service_models_map[z]
  BY <1>1, <1>2 DEF TypeOK
<1>5. OnlyAt(s) /\ service_map' \subseteq Services
  BY <1>1, <1>2, <1>4 DEF OnlyAt, TypeOK
<1>6. "set_weight" \in ServicePCs
  BY DEF ServicePCs
<1> QED
  BY <1>1, <1>2, <1>3, <1>5, <1>6, RegisterGoesOn

LEMMA SetWeightKeeps ==
  ASSUME SerialPosts, PostInv, NEW w \in Workers, SetWeight(w)
  PROVE  Control' /\ Effect'
<1> DEFINE s == job[w].service
           x == EffectiveWeight(job[w].weight)
<1>1. /\ pc[w] = "set_weight"
      /\ UNCHANGED <<model_map, service_map, service_models_map, framework, queue, last>>
      /\ IF service_weight_map[s] # x
           THEN PublishWeight(s, x) /\ service_weight_map' = [service_weight_map EXCEPT ![s] = x]
           ELSE UNCHANGED <<router, service_weight_map>>
  BY DEF SetWeight, At, env
<1>2. /\ TypeOK /\ ProgressInv /\ s \in Services /\ pc[w] \in ServicePCs
      /\ x # 0 /\ job[w].kind = "register"
      /\ service_weight_map[s] # 0 => router[s] = service_weight_map[s]
  BY <1>1, ServiceOfJob DEF PostInv, Effect, ServicePCs
<1>3. Goto(w, "bind") /\ UNCHANGED job
  BY <1>2 DEF SetWeight
<1>4. s \in service_map /\ router[s] # 0
  BY <1>1, <1>2 DEF ProgressInv
<1> HIDE DEF x
<1>5. /\ router'[s] = x /\ service_weight_map'[s] = x
      /\ \A z \in Services : z # s => router'[z] = router[z] /\ service_weight_map'[z] = service_weight_map[z]
  BY <1>1, <1>2, <1>4 DEF TypeOK, PublishWeight
<1>6. OnlyAt(s) /\ service_map' \subseteq Services
  BY <1>1, <1>2, <1>5 DEF OnlyAt, TypeOK
<1>7. "bind" \in ServicePCs
  BY DEF ServicePCs
<1>8. /\ router'[s] # 0 /\ router'[s] = EffectiveWeight(job[w].weight)
      /\ router'[s] = service_weight_map'[s]
  BY <1>2, <1>5 DEF x
<1> QED
  BY <1>1, <1>2, <1>3, <1>4, <1>6, <1>7, <1>8, RegisterGoesOn

\* An unregister job goes on with k left to do.
LEMMA UpdateControl ==
  ASSUME TypeOK, Control, NEW w \in Workers, NEW k, NEW l \in UnregisterPCs,
         pc[w] # "idle", job[w].kind = "unregister", k.kind = "unregister",
         pc' = [pc EXCEPT ![w] = l], job' = [job EXCEPT ![w] = k], UNCHANGED <<queue, last>>,
         JobOf(k, last)
  PROVE  /\ Control' /\ SameHandlers /\ Loads' = Loads /\ Registers' = Registers
         /\ k \in Unregisters' /\ \A j \in Unregisters : j # job[w] => j \in Unregisters'
         /\ \A v \in Workers : v # w => pc'[v] = pc[v] /\ job'[v] = job[v]
         /\ pc'[w] = l /\ job'[w] = k
<1>1. job'[w] = k /\ \A u \in Threads : u # w => job'[u] = job[u]
  BY DEF TypeOK, Threads
<1>2. /\ \A h \in Handlers : pc'[h] = pc[h] /\ job'[h] = job[h]
      /\ \A v \in Workers : v # w => pc'[v] = pc[v] /\ job'[v] = job[v]
      /\ pc'[w] = l
      /\ SameHandlers
  BY <1>1, WorkerMoves
<1>3. /\ k \in Pending' /\ \A j \in Pending' : j = k \/ j \in Pending
      /\ \A j \in Pending : j = job[w] \/ j \in Pending'
  BY <1>1, <1>2 DEF Pending
<1>4. Loads' = Loads /\ Registers' = Registers
  BY <1>3, JobsApart DEF Loads, Registers
<1>5. k \in Unregisters' /\ \A j \in Unregisters : j # job[w] => j \in Unregisters'
  BY <1>3 DEF Unregisters
<1>6. last # NoPost
  BY Busy DEF Control, Threads
<1>7. PlacesInv'
  <2>1. l # "idle" /\ l \notin LoadPCs /\ l \notin RegisterPCs /\ k # NoJob
    BY JobsApart DEF LoadPCs, RegisterPCs, ServicePCs, UnregisterPCs
  <2>2. KindOK(l, k)
    BY <2>1 DEF KindOK
  <2>3. \A v \in Workers : KindOK(pc'[v], job'[v])
    BY <1>1, <1>2, <2>2 DEF Control, PlacesInv
  <2> QED
    BY <1>2, <1>6, <2>3 DEF Control, PlacesInv
<1>8. JobsInv'
  <2>1. \A j \in Pending' : JobOf(j, last)
    BY <1>3, <1>6 DEF Control, JobsInv
  <2> QED
    BY <1>2, <1>4, <1>6, <2>1 DEF Control, JobsInv, SameHandlers
<1>9. OnceInv'
  BY <1>1, <1>2, <1>4 DEF Control, OnceInv, SameHandlers
<1> QED
  BY <1>1, <1>2, <1>4, <1>5, <1>7, <1>8, <1>9 DEF Control

\* An unregister job touches no service of the post.
LEMMA UnregisterGoesOn ==
  ASSUME SerialPosts, PostInv, last # NoPost, NEW w \in Workers, pc'[w] \in UnregisterPCs,
         \A v \in Workers : v # w => pc'[v] = pc[v] /\ job'[v] = job[v],
         pc'[w] = "unload" => job'[w].services = {},
         SameHandlers, Loads' = Loads, Registers' = Registers, UNCHANGED <<model_map, framework, last>>,
         \A m : Going(m) => Going(m)',
         NEW s, s \notin ServicesOf(last), OnlyAt(s)
  PROVE  RecordsInv' /\ ProgressInv' /\ EntriesInv'
<1>1. TypeOK /\ Effect
  BY DEF PostInv
<1>2. \A e \in last.entries : e.service \in Services /\ e.service # s
  BY <1>1, PostShape DEF ServicesOf
<1>3. RecordsInv'
  <2>1. \A v \in Workers : pc'[v] = "loaded" => pc[v] = "loaded" /\ job'[v] = job[v]
    BY DEF UnregisterPCs
  <2> QED
    BY <1>1, <2>1, RecordsFrame DEF Effect, SameHandlers
<1>4. ProgressInv'
  <2> SUFFICES ASSUME NEW v \in Workers
               PROVE  /\ pc'[v] \in {"init_models", "set_weight", "bind"} =>
                           job'[v].service \in service_map' /\ router'[job'[v].service] # 0
                      /\ pc'[v] = "bind" => router'[job'[v].service] = EffectiveWeight(job'[v].weight)
                      /\ pc'[v] = "unload" => job'[v].services = {}
    BY DEF ProgressInv
  <2>1. CASE v = w
    BY <2>1 DEF UnregisterPCs
  <2>2. CASE v # w /\ pc[v] \in {"init_models", "set_weight", "bind"}
    <3>1. PICK e \in last.entries : job[v].service = e.service
      BY <2>2, AtRegister DEF RegisterPCs, ServicePCs
    <3>2. /\ job[v].service \in service_map' <=> job[v].service \in service_map
          /\ router'[job[v].service] = router[job[v].service]
      BY <1>2, <3>1 DEF OnlyAt
    <3> QED
      BY <1>1, <2>2, <3>2 DEF Effect, ProgressInv
  <2>3. CASE v # w /\ pc[v] \notin {"init_models", "set_weight", "bind"}
    BY <1>1, <2>3 DEF Effect, ProgressInv
  <2> QED
    BY <2>1, <2>2, <2>3
<1>5. EntriesInv'
  <2> SUFFICES ASSUME NEW e \in last.entries
               PROVE  e \in ToRegister' \/ e \in Registers' \/ Served(e)' \/ GivenUp(e)'
    BY DEF EntriesInv
  <2>1. Served(e) => Served(e)'
    BY <1>2 DEF Served, OnlyAt
  <2>2. GivenUp(e) => GivenUp(e)'
    BY DEF GivenUp, StateOf, SameHandlers
  <2> QED
    BY <1>1, <2>1, <2>2 DEF Effect, EntriesInv, SameHandlers
<1> QED
  BY <1>3, <1>4, <1>5

\* The three critical sections of unregister_service_name.
LEMMA UnregisterServiceNameKeeps ==
  ASSUME SerialPosts, PostInv, NEW w \in Workers, UnregisterServiceName(w)
  PROVE  Control' /\ Effect'
<1>1. /\ pc[w] = "unregister"
      /\ UNCHANGED <<model_map, service_models_map, service_weight_map, framework, queue, last>>
  BY DEF UnregisterServiceName, At, env
<1>2. TypeOK /\ Control /\ Effect /\ pc[w] \in UnregisterPCs
  BY <1>1 DEF PostInv, UnregisterPCs
<1>3. /\ last # NoPost /\ job[w].kind = "unregister" /\ job[w] \in Unregisters
      /\ job[w].service \notin ServicesOf(last)
      /\ job[w].services \cap ServicesOf(last) = {}
      /\ job[w].models \cap NamesOf(Requested(last)) = {}
  BY <1>2, AtUnregister
<1>4. ASSUME NEW s \in job[w].services, service_map' = service_map \ {s},
             router' = [router EXCEPT ![s] = IF s \in service_map THEN 0 ELSE @],
             job' = [job EXCEPT ![w].service = s, ![w].services = @ \ {s}],
             Goto(w, "erase_weight")
      PROVE  Control' /\ Effect'
  <2> DEFINE k == [job[w] EXCEPT !.service = s, !.services = job[w].services \ {s}]
  <2>1. job' = [job EXCEPT ![w] = k]
    BY <1>4, Zenon
  <2>2. /\ k.kind = "unregister" /\ k.service = s /\ k.services = job[w].services \ {s}
        /\ k.models = job[w].models
    <3>1. job[w] \in Job
      BY <1>2 DEF TypeOK, Threads
    <3> QED
      BY <1>3, <3>1 DEF Job
  <2>3. s \in Services /\ s \notin ServicesOf(last)
    <3>1. job[w] \in Job
      BY <1>2 DEF TypeOK, Threads
    <3> QED
      BY <1>3, <3>1 DEF Job
  <2> HIDE DEF k
  <2>4. JobOf(k, last)
    BY <1>3, <2>2, <2>3 DEF JobOf
  <2>5. "erase_weight" \in UnregisterPCs /\ pc' = [pc EXCEPT ![w] = "erase_weight"]
    BY <1>4 DEF UnregisterPCs, Goto
  <2>6. /\ Control' /\ SameHandlers /\ Loads' = Loads /\ Registers' = Registers
        /\ k \in Unregisters' /\ \A j \in Unregisters : j # job[w] => j \in Unregisters'
        /\ \A v \in Workers : v # w => pc'[v] = pc[v] /\ job'[v] = job[v]
        /\ pc'[w] = "erase_weight" /\ job'[w] = k
    BY <1>1, <1>2, <1>3, <2>1, <2>2, <2>4, <2>5, UpdateControl
  <2>7. \A m : Going(m) => Going(m)'
    BY <2>2, <2>6 DEF Going, SameHandlers
  <2>8. \A z : z # s /\ Leaving(z) => Leaving(z)'
    BY <2>2, <2>6 DEF Leaving, SameHandlers
  <2>9. OnlyAt(s)
    BY <1>1, <1>2, <1>4, <2>3 DEF OnlyAt, TypeOK
  <2>10. RecordsInv' /\ ProgressInv' /\ EntriesInv'
    BY <1>1, <1>3, <2>3, <2>5, <2>6, <2>7, <2>9, UnregisterGoesOn
  <2>11. NamesInv'
    <3>1. \A z \in service_map' : z \in ServicesOf(last) \/ Leaving(z)'
      BY <1>2, <1>3, <1>4, <2>8 DEF Effect, NamesInv
    <3>2. ASSUME NEW z \in Services, service_weight_map[z] # 0, router'[z] # service_weight_map[z]
          PROVE  \E v \in Workers : pc'[v] = "erase_weight" /\ job'[v].service = z
      <4>1. CASE z = s
        BY <2>2, <2>6, <4>1
      <4>2. CASE z # s
        <5>1. router[z] # service_weight_map[z]
          BY <2>9, <3>2, <4>2 DEF OnlyAt
        <5>2. PICK v \in Workers : pc[v] = "erase_weight" /\ job[v].service = z
          BY <1>2, <3>2, <5>1 DEF Effect, NamesInv
        <5> QED
          BY <1>1, <2>6, <5>2
      <4> QED
        BY <4>1, <4>2
    <3> QED
      BY <1>1, <3>1, <3>2 DEF NamesInv
  <2> QED
    BY <2>6, <2>10, <2>11 DEF Effect
<1>5. ASSUME job[w].services = {}, Goto(w, "unload"), UNCHANGED <<job, service_map, router>>
      PROVE  Control' /\ Effect'
  <2>1. KindOK("unload", job[w])
    <3>1. KindOK("unregister", job[w])
      BY <1>1, <1>2 DEF Control, PlacesInv
    <3> QED
      BY <3>1 DEF KindOK, LoadPCs, RegisterPCs, ServicePCs, UnregisterPCs
  <2>2. /\ Control' /\ SameWork /\ SameHandlers
        /\ \A v \in Workers : v # w => pc'[v] = pc[v]
        /\ pc'[w] = "unload"
        /\ \A m : Going(m) => Going(m)'
        /\ \A z : Leaving(z) => Leaving(z)'
    BY <1>1, <1>5, <2>1, JobGoesOn
  <2>3. pc'[w] \in UnregisterPCs /\ Loads' = Loads /\ Registers' = Registers
    BY <2>2 DEF UnregisterPCs, SameWork
  <2>4. OnlyAt(job[w].service)
    BY <1>1, <1>5 DEF OnlyAt
  <2>5. RecordsInv' /\ ProgressInv' /\ EntriesInv'
    BY <1>1, <1>3, <1>5, <2>2, <2>3, <2>4, UnregisterGoesOn
  <2>6. NamesInv'
    BY <1>1, <1>2, <1>5, <2>2, NamesFrame DEF Effect
  <2> QED
    BY <2>2, <2>5, <2>6 DEF Effect
<1> QED
  BY <1>3, <1>4, <1>5 DEF UnregisterServiceName

LEMMA EraseWeightKeeps ==
  ASSUME SerialPosts, PostInv, NEW w \in Workers, EraseWeight(w)
  PROVE  Control' /\ Effect'
<1> DEFINE s == job[w].service
<1>1. /\ pc[w] = "erase_weight" /\ Goto(w, "erase_models")
      /\ service_weight_map' = [service_weight_map EXCEPT ![s] = 0]
      /\ UNCHANGED <<model_map, service_map, service_models_map, framework, router, job, queue, last>>
  BY DEF EraseWeight, At, outer, env
<1>2. TypeOK /\ Effect /\ pc[w] \in UnregisterPCs
  BY <1>1 DEF PostInv, UnregisterPCs
<1>3. last # NoPost /\ s \notin ServicesOf(last)
  BY <1>2, AtUnregister
<1>4. KindOK("erase_models", job[w])
  <2>1. KindOK("erase_weight", job[w])
    BY <1>1 DEF PostInv, Control, PlacesInv
  <2> QED
    BY <2>1 DEF KindOK, LoadPCs, RegisterPCs, ServicePCs, UnregisterPCs
<1>5. /\ Control' /\ SameWork /\ SameHandlers
      /\ \A v \in Workers : v # w => pc'[v] = pc[v]
      /\ pc'[w] = "erase_models"
      /\ \A m : Going(m) => Going(m)'
      /\ \A z : Leaving(z) => Leaving(z)'
  BY <1>1, <1>4, JobGoesOn
<1>6. OnlyAt(s)
  BY <1>1, <1>2 DEF OnlyAt, TypeOK
<1>7. pc'[w] \in UnregisterPCs /\ pc'[w] # "unload" /\ Loads' = Loads /\ Registers' = Registers
  BY <1>5 DEF UnregisterPCs, SameWork
<1>8. RecordsInv' /\ ProgressInv' /\ EntriesInv'
  BY <1>1, <1>3, <1>5, <1>6, <1>7, UnregisterGoesOn
<1>9. NamesInv'
  <2>1. ASSUME NEW z \in Services, service_weight_map'[z] # 0, router[z] # service_weight_map'[z]
        PROVE  \E v \in Workers : pc'[v] = "erase_weight" /\ job[v].service = z
    <3>1. z # s
      BY <1>1, <1>2, <2>1 DEF TypeOK
    <3>2. PICK v \in Workers : pc[v] = "erase_weight" /\ job[v].service = z
      BY <1>2, <1>6, <2>1, <3>1 DEF Effect, NamesInv, OnlyAt
    <3> QED
      BY <1>5, <3>1, <3>2
  <2> QED
    BY <1>1, <1>2, <1>5, <2>1 DEF Effect, NamesInv
<1> QED
  BY <1>5, <1>8, <1>9 DEF Effect

LEMMA EraseModelsKeeps ==
  ASSUME SerialPosts, PostInv, NEW w \in Workers, EraseModels(w)
  PROVE  Control' /\ Effect'
<1> DEFINE s == job[w].service
<1>1. /\ pc[w] = "erase_models" /\ Goto(w, "unregister")
      /\ service_models_map' = [service_models_map EXCEPT ![s] = NoSet]
      /\ UNCHANGED <<model_map, service_map, service_weight_map, framework, router, job, queue, last>>
  BY DEF EraseModels, At, outer, env
<1>2. TypeOK /\ Effect /\ pc[w] \in UnregisterPCs
  BY <1>1 DEF PostInv, UnregisterPCs
<1>3. last # NoPost /\ s \notin ServicesOf(last)
  BY <1>2, AtUnregister
<1>4. KindOK("unregister", job[w])
  <2>1. KindOK("erase_models", job[w])
    BY <1>1 DEF PostInv, Control, PlacesInv
  <2> QED
    BY <2>1 DEF KindOK, LoadPCs, RegisterPCs, ServicePCs, UnregisterPCs
<1>5. /\ Control' /\ SameWork /\ SameHandlers
      /\ \A v \in Workers : v # w => pc'[v] = pc[v]
      /\ pc'[w] = "unregister"
      /\ \A m : Going(m) => Going(m)'
      /\ \A z : Leaving(z) => Leaving(z)'
  BY <1>1, <1>4, JobGoesOn
<1>6. OnlyAt(s)
  BY <1>1, <1>2 DEF OnlyAt, TypeOK
<1>7. pc'[w] \in UnregisterPCs /\ pc'[w] # "unload" /\ Loads' = Loads /\ Registers' = Registers
  BY <1>5 DEF UnregisterPCs, SameWork
<1>8. RecordsInv' /\ ProgressInv' /\ EntriesInv'
  BY <1>1, <1>3, <1>5, <1>6, <1>7, UnregisterGoesOn
<1>9. NamesInv'
  BY <1>1, <1>2, <1>5, NamesFrame DEF Effect
<1> QED
  BY <1>5, <1>8, <1>9 DEF Effect

-----------------------------------------------------------------------------
(* Every step *)

\* Every step of the server keeps the invariant.
LEMMA PostStep ==
  ASSUME SerialPosts, PostInv, [Next]_vars PROVE PostInv'
<1>1. TypeOK' /\ JobsOK' /\ RouterInv'
  BY TypeStep, RouterStep DEF PostInv
<1>2. AdminOps = {} /\ Control /\ Effect /\ PlacesInv
  BY DEF SerialPosts, PostInv, Control
<1>3. ASSUME NEW h \in Handlers, HandlerCall(h) PROVE Control' /\ Effect'
  <2>1. CASE RejectPost(h)
    BY <1>2, <2>1, NothingMoves DEF RejectPost, outer
  <2>2. CASE \E p \in Posts : LoadAndRegister(h, p)
    BY <2>2, LoadAndRegisterKeeps
  <2> QED
    BY <1>2, <1>3, <2>1, <2>2 DEF HandlerCall, RegisterNameCall, UnregisterNameCall,
       SetServerStaticWeight, SetWorkMode, SetStressParams
<1>4. ASSUME NEW h \in Handlers, HandlerStep(h) PROVE Control' /\ Effect'
  <2>1. ~SharedStep(h)
    BY <1>2 DEF PlacesInv, PostPCs, SharedStep, At, RegisterServiceName, RegisterServer, InitServiceModels,
       SetWeight, UnregisterServiceName, EraseWeight, EraseModels
  <2> QED
    BY <1>4, <2>1, ReadServicesKeeps, LoadModelsKeeps, RegisterServicesKeeps DEF HandlerStep
<1>5. ASSUME NEW w \in Workers, WorkerStep(w) PROVE Control' /\ Effect'
  <2>1. ~StressPoll(w) /\ ~StressSet(w)
    <3>1. KindOK(pc[w], job[w])
      BY <1>2 DEF PlacesInv
    <3> QED
      BY <3>1 DEF KindOK, LoadPCs, RegisterPCs, ServicePCs, UnregisterPCs, StressPoll, StressSet, At
  <2>2. CASE SharedStep(w)
    BY <2>2, RegisterServiceNameKeeps, RegisterServerKeeps, InitServiceModelsKeeps, SetWeightKeeps,
       UnregisterServiceNameKeeps, EraseWeightKeeps, EraseModelsKeeps DEF SharedStep
  <2> QED
    BY <1>5, <2>1, <2>2, TakeJobKeeps, LoadModelKeeps, StoreRecordKeeps, PollKeeps, BindModelsKeeps,
       UnloadModelsKeeps DEF WorkerStep
<1>6. ASSUME NEW s \in Services, ConfigArrives(s) PROVE Control' /\ Effect'
  BY <1>2, <1>6, NothingMoves DEF ConfigArrives, env
<1>7. ASSUME UNCHANGED vars PROVE Control' /\ Effect'
  <2>1. UNCHANGED <<maps, framework, router, queue, pc, job, last>>
    BY <1>7 DEF vars, outer, env
  <2> QED
    BY <1>2, <2>1, NothingMoves
<1>8. ~Shutdown
  BY <1>2 DEF Shutdown
<1>9. Control' /\ Effect'
  <2>1. ASSUME Next PROVE Control' /\ Effect'
    BY <1>3, <1>4, <1>5, <1>6, <1>8, <2>1 DEF Next
  <2>2. Next \/ UNCHANGED vars
    OBVIOUS
  <2> QED
    BY <1>7, <2>1, <2>2
<1> QED
  BY <1>1, <1>9 DEF PostInv

\* A server that starts has no post.
LEMMA InitPost == Init => PostInv
<1> SUFFICES ASSUME Init PROVE PostInv
  OBVIOUS
<1>1. TypeOK /\ JobsOK
  BY InitTypes
<1>2. RouterInv
  <2>1. WaiterOwns /\ PendingRegistered
    BY ConstantsAssumption DEF Init, WaiterOwns, PendingRegistered
  <2>2. \A s \in Services : Published(s)
    BY DEF Init, Published
  <2> QED
    BY <2>1, <2>2 DEF RouterInv
<1>3. /\ \A t \in Threads : pc[t] = "idle" /\ job[t] = NoJob
      /\ queue = << >> /\ Len(queue) = 0 /\ last = NoPost
  BY DEF Init
<1>4. Pending \subseteq {NoJob}
  BY <1>3 DEF Pending, Threads
<1>5. Loads = {} /\ ToLoad = {}
  BY <1>3, <1>4, JobsApart DEF Loads, ToLoad, Threads
<1>6. PlacesInv
  <2>1. KindOK("idle", NoJob)
    BY JobsApart DEF KindOK, LoadPCs, RegisterPCs, ServicePCs, UnregisterPCs
  <2> QED
    BY <1>3, <2>1 DEF PlacesInv, Quiescent, Threads
<1>7. JobsInv /\ EntriesInv
  BY <1>3 DEF JobsInv, EntriesInv
<1>8. OnceInv
  BY <1>3, <1>5, JobsApart DEF OnceInv, Threads
<1>9. \A m \in Models : StateOf(m) = "absent"
  BY DEF Init, StateOf
<1>10. RecordsInv
  BY <1>3, <1>5, <1>9 DEF RecordsInv, Threads
<1>11. NamesInv /\ ProgressInv
  BY <1>3 DEF Init, NamesInv, ProgressInv, Threads
<1> QED
  BY <1>1, <1>2, <1>6, <1>7, <1>8, <1>10, <1>11 DEF PostInv, Control, Effect

\* When nothing is in hand, queued or running, all is done.
LEMMA WorkedOff ==
  ASSUME SerialPosts, PostInv PROVE Converged
<1> SUFFICES ASSUME Quiescent, last # NoPost
             PROVE  /\ service_map \subseteq ServicesOf(last)
                    /\ {m \in Models : model_map[m] # NoRecord} = NamesOf(Requested(last))
                    /\ \A r \in Requested(last) :
                         /\ model_map[r.name].timestamp = r.timestamp
                         /\ model_map[r.name].state \in {"loaded", "failed"}
                         /\ model_map[r.name].state = "loaded" => framework[r.name] = r.timestamp
                    /\ \A e \in last.entries :
                         (\A r \in e.records : model_map[r.name].state = "loaded") =>
                           /\ e.service \in service_map
                           /\ service_models_map[e.service] = NamesOf(e.records)
                           /\ router[e.service] = EffectiveWeight(e.weight)
  BY DEF Converged
<1>1. /\ TypeOK /\ Control /\ RecordsInv /\ NamesInv /\ EntriesInv
      /\ Requested(last) \subseteq Record
  BY PostShape DEF PostInv, Effect
<1>2. queue = << >> /\ Len(queue) = 0 /\ \A t \in Threads : pc[t] = "idle"
  BY DEF Quiescent
<1>3. \A w \in Workers : job[w] = NoJob
  BY <1>1, <1>2 DEF Control, PlacesInv, KindOK, Threads
<1>4. Pending \subseteq {NoJob}
  BY <1>2, <1>3 DEF Pending
<1>5. Loads = {} /\ Registers = {} /\ Unregisters = {}
  BY <1>4, JobsApart DEF Loads, Registers, Unregisters
<1>6. ToLoad = {} /\ ToRegister = {} /\ ToUnload = {} /\ ~Reading
  BY <1>2 DEF ToLoad, ToRegister, ToUnload, Reading, PostPCs, Threads
<1>7. (\A m : ~Going(m)) /\ (\A s : ~Leaving(s))
  BY <1>5, <1>6 DEF Going, Leaving
<1>8. service_map \subseteq ServicesOf(last)
  BY <1>1, <1>7 DEF NamesInv
<1>9. \A r \in Requested(last) : model_map[r.name] # NoRecord /\ model_map[r.name].timestamp = r.timestamp
  BY <1>1, <1>6 DEF RecordsInv
<1>10. \A r \in Requested(last) : r.name \in Models
  BY <1>1 DEF Record
<1>11. {m \in Models : model_map[m] # NoRecord} = NamesOf(Requested(last))
  <2>1. \A m \in Models : model_map[m] # NoRecord => m \in NamesOf(Requested(last))
    BY <1>1, <1>7 DEF RecordsInv
  <2>2. ASSUME NEW m \in NamesOf(Requested(last)) PROVE m \in Models /\ model_map[m] # NoRecord
    BY <1>9, <1>10, <2>2 DEF NamesOf
  <2> QED
    BY <2>1, <2>2
<1>12. ASSUME NEW r \in Requested(last)
       PROVE  /\ model_map[r.name].state \in {"loaded", "failed"}
              /\ model_map[r.name].state = "loaded" => framework[r.name] = r.timestamp
              /\ StateOf(r.name) = model_map[r.name].state
  <2>1. StateOf(r.name) = model_map[r.name].state
    BY <1>9 DEF StateOf
  <2>2. model_map[r.name] \in [timestamp : Versions, state : {"loading", "loaded", "failed"}]
    BY <1>1, <1>9, <1>10 DEF TypeOK
  <2>3. StateOf(r.name) # "loading"
    BY <1>1, <1>5, <1>10 DEF RecordsInv, NamesOf
  <2>4. StateOf(r.name) = "loaded" => framework[r.name] = r.timestamp
    BY <1>1, <1>9, <1>10 DEF RecordsInv
  <2> QED
    BY <2>1, <2>2, <2>3, <2>4
<1>13. ASSUME NEW e \in last.entries, \A r \in e.records : model_map[r.name].state = "loaded"
       PROVE  Served(e)
  <2>1. \A r \in e.records : r \in Requested(last)
    BY DEF Requested
  <2>2. ~GivenUp(e)
    BY <1>12, <1>13, <2>1 DEF GivenUp
  <2> QED
    BY <1>1, <1>5, <1>6, <2>2 DEF EntriesInv
<1> QED
  BY <1>8, <1>9, <1>11, <1>12, <1>13 DEF Served

\* Whatever is posted, by whatever threads loadAndRegister and its jobs run and
\* however they interleave: once a post is worked off, the server serves what
\* was posted.  SerialPosts is what the content service has to keep to: without
\* it the versions and weights served may differ from the posted ones.
THEOREM PostsConverge == ASSUME SerialPosts PROVE Spec => []Converged
<1>1. PostInv /\ [Next]_vars => PostInv'
  BY PostStep
<1>2. PostInv => Converged
  BY WorkedOff
<1> QED
  BY <1>1, <1>2, InitPost, PTL DEF Spec

\* With serial posts a version that model_map_ reports as loaded is, at every
\* moment, the one that ModelFramework serves ("always accept what content
\* service has posted", http_service.cc:20).  The load jobs of two posts that
\* overlap are what can leave an older version behind.
THEOREM PostedVersionKept == ASSUME SerialPosts PROVE Spec => []ReportedVersionServed
<1>1. PostInv => ReportedVersionServed
  BY DEF PostInv, Effect, RecordsInv, ReportedVersionServed
<1>2. PostInv /\ [Next]_vars => PostInv'
  BY PostStep
<1> QED
  BY <1>1, <1>2, InitPost, PTL DEF Spec

\* "wait for all models associated with this service name to be loaded, then
\* register the service name" (http_service.cc:247): with serial posts a
\* register job goes on only when model_map_ has the versions it was posted
\* with, since the handler has marked them all before it queues the job.
THEOREM RegistersWait == ASSUME SerialPosts PROVE Spec => RegistersPostedVersion
<1> DEFINE Posted(w) == pc[w] = "poll" /\ pc'[w] = "register" =>
      \A r \in job[w].records \cap Requested(last) : model_map[r.name].timestamp = r.timestamp
<1>1. PostInv /\ [Next]_vars => [\A w \in Workers : Posted(w)]_vars
  <2> SUFFICES ASSUME PostInv, NEW w \in Workers, pc[w] = "poll", NEW r \in Requested(last)
               PROVE  model_map[r.name].timestamp = r.timestamp
    OBVIOUS
  <2>1. TypeOK /\ PlacesInv /\ JobsInv /\ RecordsInv
    BY DEF PostInv, Control, Effect
  <2>2. last # NoPost
    <3>1. ~Quiescent
      BY DEF Quiescent, Threads
    <3> QED
      BY <2>1, <3>1 DEF PlacesInv
  <2>3. job[w].kind = "register" /\ job[w] \in Pending
    BY <2>1 DEF PlacesInv, KindOK, RegisterPCs, Pending
  <2>4. PICK e \in last.entries : job[w] = RegisterJob(e)
    <3>1. JobOf(job[w], last)
      BY <2>1, <2>2, <2>3 DEF JobsInv
    <3>2. \A q : job[w] # LoadJob(q)
      BY <2>3, JobsApart
    <3> QED
      BY <2>3, <3>1, <3>2, JobsApart DEF JobOf
  <2>5. e \in Registers
    BY <2>1, <2>2, <2>3, <2>4, PostShape DEF Registers
  <2>6. ~Loading
    BY <2>1, <2>2, <2>5 DEF JobsInv
  <2>7. ToLoad = {}
    BY <2>6 DEF Loading, ToLoad
  <2> QED
    BY <2>1, <2>2, <2>7 DEF RecordsInv
<1>2. PostInv /\ [Next]_vars => PostInv'
  BY PostStep
<1> QED
  BY <1>1, <1>2, InitPost, PTL DEF Spec, RegistersPostedVersion

-----------------------------------------------------------------------------
(* The weight that is reported *)

SettingPCs == {"wait_config", "init_models", "set_weight"}

\* A registered name has a weight, or a register job is about to give it one;
\* the weight of a registered name is never erased.
WeightInv ==
  /\ \A w \in Workers : pc[w] = "erase_weight" => job[w].service \notin service_map
  /\ \A s \in service_map :
       \/ service_weight_map[s] # 0
       \/ \E w \in Workers : pc[w] \in SettingPCs /\ job[w].service = s

\* A step of a pool thread that is not about to set or to erase a weight.
LEMMA WeightKept ==
  ASSUME WeightInv, NEW w \in Workers,
         \A v \in Workers : v # w => pc'[v] = pc[v] /\ job'[v] = job[v],
         UNCHANGED <<service_map, service_weight_map>>,
         pc[w] \in SettingPCs => pc'[w] \in SettingPCs /\ job'[w] = job[w],
         pc'[w] # "erase_weight"
  PROVE  WeightInv'
<1>1. ASSUME NEW v \in Workers, pc'[v] = "erase_weight" PROVE job'[v].service \notin service_map'
  BY <1>1 DEF WeightInv
<1>2. ASSUME NEW s \in service_map', service_weight_map'[s] = 0
      PROVE  \E v \in Workers : pc'[v] \in SettingPCs /\ job'[v].service = s
  <2>1. PICK v \in Workers : pc[v] \in SettingPCs /\ job[v].service = s
    BY <1>2 DEF WeightInv
  <2>2. pc'[v] \in SettingPCs /\ job'[v].service = s
    <3>1. CASE v = w
      BY <2>1, <3>1
    <3>2. CASE v # w
      BY <2>1, <3>2
    <3> QED
      BY <3>1, <3>2
  <2> QED
    BY <2>2
<1> QED
  BY <1>1, <1>2 DEF WeightInv

LEMMA WeightWorker ==
  ASSUME SerialPosts, PostInv, WeightInv, NEW w \in Workers, WorkerStep(w)
  PROVE  WeightInv'
<1>0. /\ TypeOK /\ PlacesInv /\ JobsInv
      /\ pc \in [Threads -> PCs] /\ job \in [Threads -> Job] /\ w \in Threads /\ Workers \subseteq Threads
  BY DEF PostInv, Control, TypeOK, Threads
<1>1. \A v \in Workers : v # w => pc'[v] = pc[v] /\ job'[v] = job[v]
  BY <1>0 DEF WorkerStep, SharedStep, TakeJob, LoadModel, StoreRecord, Poll, BindModels, UnloadModels, StressPoll,
     StressSet, RegisterServiceName, RegisterServer, InitServiceModels, SetWeight, UnregisterServiceName,
     EraseWeight, EraseModels, Goto, Finish
<1>2. CASE \/ TakeJob(w) \/ LoadModel(w) \/ StoreRecord(w) \/ Poll(w) \/ BindModels(w) \/ UnloadModels(w)
           \/ StressPoll(w) \/ StressSet(w) \/ EraseModels(w)
  <2>1. UNCHANGED <<service_map, service_weight_map>>
    BY <1>2 DEF TakeJob, LoadModel, StoreRecord, Poll, BindModels, UnloadModels, StressPoll, StressSet,
       EraseModels, maps
  <2>2. pc[w] \notin SettingPCs
    BY <1>2 DEF TakeJob, LoadModel, StoreRecord, Poll, BindModels, UnloadModels, StressPoll, StressSet,
       EraseModels, At, SettingPCs
  <2>3. pc'[w] # "erase_weight"
    BY <1>0, <1>2 DEF TakeJob, LoadModel, StoreRecord, Poll, BindModels, UnloadModels, StressPoll, StressSet,
       EraseModels, Goto, Finish, EntryPoint
  <2> QED
    BY <1>1, <2>1, <2>2, <2>3, WeightKept
<1>3. CASE RegisterServer(w) \/ InitServiceModels(w)
  <2>1. UNCHANGED <<service_map, service_weight_map, job>> /\ pc'[w] \in SettingPCs
    BY <1>0, <1>3 DEF RegisterServer, InitServiceModels, Goto, SettingPCs
  <2> QED
    BY <1>1, <2>1, WeightKept DEF SettingPCs
<1> DEFINE s == job[w].service
<1>4. CASE RegisterServiceName(w)
  <2>1. /\ pc[w] = "register" /\ UNCHANGED <<service_weight_map, job>>
        /\ pc'[w] \in {"set_weight", "wait_config"} /\ service_map' = service_map \cup {s}
    BY <1>0, <1>4 DEF RegisterServiceName, Goto, At
  <2>2. s \in ServicesOf(last) /\ last # NoPost
    <3>1. job[w].kind = "register" /\ job[w] \in Pending
      BY <1>0, <2>1 DEF PlacesInv, KindOK, RegisterPCs, ServicePCs, Pending
    <3>2. last # NoPost
      <4>1. ~Quiescent
        BY <1>0, <2>1 DEF Quiescent
      <4> QED
        BY <1>0, <4>1 DEF PlacesInv
    <3>3. JobOf(job[w], last)
      BY <1>0, <3>1, <3>2 DEF JobsInv
    <3>4. \A q : job[w] # LoadJob(q)
      BY <3>1, JobsApart
    <3>5. PICK e \in last.entries : job[w] = RegisterJob(e)
      BY <3>1, <3>3, <3>4, JobsApart DEF JobOf
    <3> QED
      BY <3>2, <3>5, JobsApart DEF ServicesOf
  <2>3. ASSUME NEW v \in Workers, pc'[v] = "erase_weight" PROVE job'[v].service \notin service_map'
    <3>1. v # w /\ pc[v] = "erase_weight" /\ job'[v] = job[v] /\ job[v].service \notin service_map
      BY <1>1, <2>1, <2>3 DEF WeightInv
    <3>2. job[v].kind = "unregister" /\ job[v] \in Pending
      BY <1>0, <3>1 DEF PlacesInv, KindOK, UnregisterPCs, Pending
    <3>3. JobOf(job[v], last)
      BY <1>0, <2>2, <3>2 DEF JobsInv
    <3>4. (\A q : job[v] # LoadJob(q)) /\ \A e : job[v] # RegisterJob(e)
      BY <3>2, JobsApart
    <3>5. job[v].service \notin ServicesOf(last)
      BY <3>2, <3>3, <3>4, JobsApart DEF JobOf
    <3> QED
      BY <2>1, <2>2, <3>1, <3>5
  <2>4. ASSUME NEW q \in service_map', service_weight_map'[q] = 0
        PROVE  \E v \in Workers : pc'[v] \in SettingPCs /\ job'[v].service = q
    <3>1. CASE q = s
      BY <2>1, <3>1 DEF SettingPCs
    <3>2. CASE q # s
      <4>1. PICK v \in Workers : pc[v] \in SettingPCs /\ job[v].service = q
        BY <2>1, <2>4, <3>2 DEF WeightInv
      <4>2. v # w
        BY <2>1, <4>1 DEF SettingPCs
      <4> QED
        BY <1>1, <4>1, <4>2
    <3> QED
      BY <3>1, <3>2
  <2> QED
    BY <2>3, <2>4 DEF WeightInv
<1>5. CASE SetWeight(w)
  <2>1. pc[w] = "set_weight" /\ UNCHANGED service_map /\ pc'[w] \in {"bind", "idle"}
    BY <1>0, <1>5 DEF SetWeight, Goto, Finish, At
  <2>2. EffectiveWeight(job[w].weight) # 0
    <3>1. job[w].weight \in Int
      BY <1>0 DEF Job
    <3> QED
      BY <3>1, ConstantsAssumption DEF EffectiveWeight, Weight
  <2>3. s \in Services
    BY <1>0, <2>1 DEF PostInv, ProgressInv, Effect, TypeOK
  <2>4. /\ service_weight_map'[s] # 0
        /\ \A q \in Services : q # s => service_weight_map'[q] = service_weight_map[q]
    <3> DEFINE x == EffectiveWeight(job[w].weight)
    <3> HIDE DEF x
    <3>1. /\ service_weight_map[s] = x => service_weight_map' = service_weight_map
          /\ service_weight_map[s] # x => service_weight_map' = [service_weight_map EXCEPT ![s] = x]
      BY <1>5 DEF SetWeight, x
    <3>2. x # 0 /\ service_weight_map \in [Services -> Nat]
      BY <1>0, <2>2 DEF x, TypeOK
    <3> QED
      BY <2>3, <3>1, <3>2
  <2>5. ASSUME NEW v \in Workers, pc'[v] = "erase_weight" PROVE job'[v].service \notin service_map'
    BY <1>1, <2>1, <2>5 DEF WeightInv
  <2>6. ASSUME NEW q \in service_map', service_weight_map'[q] = 0
        PROVE  \E v \in Workers : pc'[v] \in SettingPCs /\ job'[v].service = q
    <3>1. q # s /\ q \in Services /\ service_weight_map[q] = 0
      BY <1>0, <2>1, <2>4, <2>6 DEF TypeOK
    <3>2. PICK v \in Workers : pc[v] \in SettingPCs /\ job[v].service = q
      BY <2>1, <2>6, <3>1 DEF WeightInv
    <3> QED
      BY <1>1, <3>1, <3>2
  <2> QED
    BY <2>5, <2>6 DEF WeightInv
<1>6. CASE UnregisterServiceName(w)
  <2>1. CASE UNCHANGED service_map /\ pc'[w] # "erase_weight"
    <3>1. UNCHANGED service_weight_map /\ pc[w] \notin SettingPCs
      BY <1>6 DEF UnregisterServiceName, At, SettingPCs
    <3> QED
      BY <1>1, <2>1, <3>1, WeightKept
  <2>2. CASE \E q \in job[w].services : /\ service_map' = service_map \ {q} /\ Goto(w, "erase_weight")
                                         /\ job' = [job EXCEPT ![w].service = q, ![w].services = @ \ {q}]
    <3>1. PICK q \in job[w].services :
            /\ service_map' = service_map \ {q} /\ Goto(w, "erase_weight")
            /\ job' = [job EXCEPT ![w].service = q, ![w].services = @ \ {q}]
      BY <2>2
    <3>2. job'[w].service = q
      <4>1. job[w] \in Job
        BY <1>0
      <4>2. job'[w] = [job[w] EXCEPT !.service = q, !.services = job[w].services \ {q}]
        BY <1>0, <3>1
      <4> QED
        BY <4>1, <4>2 DEF Job
    <3>3. UNCHANGED service_weight_map /\ pc[w] \notin SettingPCs
      BY <1>6 DEF UnregisterServiceName, At, SettingPCs
    <3>4. ASSUME NEW v \in Workers, pc'[v] = "erase_weight" PROVE job'[v].service \notin service_map'
      <4>1. CASE v = w
        BY <3>1, <3>2, <4>1
      <4>2. CASE v # w
        <5>1. pc[v] = "erase_weight" /\ job'[v] = job[v]
          BY <1>1, <3>4, <4>2
        <5>2. job[v].service \notin service_map
          BY <5>1 DEF WeightInv
        <5> QED
          BY <3>1, <5>1, <5>2
      <4> QED
        BY <4>1, <4>2
    <3>5. ASSUME NEW p \in service_map', service_weight_map'[p] = 0
          PROVE  \E v \in Workers : pc'[v] \in SettingPCs /\ job'[v].service = p
      <4>1. PICK v \in Workers : pc[v] \in SettingPCs /\ job[v].service = p
        BY <3>1, <3>3, <3>5 DEF WeightInv
      <4> QED
        BY <1>1, <3>3, <4>1
    <3> QED
      BY <3>4, <3>5 DEF WeightInv
  <2> QED
    <3>1. \/ UNCHANGED service_map /\ (Goto(w, "unload") \/ Goto(w, "idle"))
          \/ \E q \in job[w].services : /\ service_map' = service_map \ {q} /\ Goto(w, "erase_weight")
                                         /\ job' = [job EXCEPT ![w].service = q, ![w].services = @ \ {q}]
      BY <1>6, Zenon DEF UnregisterServiceName, Finish
    <3>2. Goto(w, "unload") \/ Goto(w, "idle") => pc'[w] # "erase_weight"
      BY <1>0 DEF Goto
    <3> QED
      BY <2>1, <2>2, <3>1, <3>2
<1>7. CASE EraseWeight(w)
  <2>1. /\ pc[w] = "erase_weight" /\ UNCHANGED <<service_map, job>> /\ pc'[w] = "erase_models"
        /\ service_weight_map' = [service_weight_map EXCEPT ![s] = 0]
    BY <1>0, <1>7 DEF EraseWeight, Goto, At
  <2>2. s \notin service_map
    BY <2>1 DEF WeightInv
  <2>3. \A q \in Services : q # s => service_weight_map'[q] = service_weight_map[q]
    BY <1>0, <2>1 DEF TypeOK
  <2>4. ASSUME NEW v \in Workers, pc'[v] = "erase_weight" PROVE job'[v].service \notin service_map'
    BY <1>1, <2>1, <2>4 DEF WeightInv
  <2>5. ASSUME NEW q \in service_map', service_weight_map'[q] = 0
        PROVE  \E v \in Workers : pc'[v] \in SettingPCs /\ job'[v].service = q
    <3>1. q # s /\ q \in service_map /\ service_weight_map[q] = 0
      BY <1>0, <2>1, <2>2, <2>3, <2>5 DEF TypeOK
    <3>2. PICK v \in Workers : pc[v] \in SettingPCs /\ job[v].service = q
      BY <3>1 DEF WeightInv
    <3> QED
      BY <1>1, <2>1, <3>2 DEF SettingPCs
  <2> QED
    BY <2>4, <2>5 DEF WeightInv
<1> QED
  BY <1>2, <1>3, <1>4, <1>5, <1>6, <1>7 DEF WorkerStep, SharedStep

LEMMA WeightStep ==
  ASSUME SerialPosts PROVE PostInv /\ WeightInv /\ [Next]_vars => WeightInv'
<1> SUFFICES ASSUME PostInv, WeightInv, [Next]_vars PROVE WeightInv'
  OBVIOUS
<1>0. /\ PlacesInv /\ pc \in [Threads -> PCs] /\ job \in [Threads -> Job]
      /\ Workers \subseteq Threads /\ Handlers \subseteq Threads /\ Handlers \cap Workers = {}
  BY ConstantsAssumption DEF PostInv, Control, TypeOK, Threads
<1>1. ASSUME UNCHANGED <<service_map, service_weight_map>>,
             \A v \in Workers : pc'[v] = pc[v] /\ job'[v] = job[v]
      PROVE  WeightInv'
  <2>1. ASSUME NEW v \in Workers, pc'[v] = "erase_weight" PROVE job'[v].service \notin service_map'
    BY <1>1, <2>1 DEF WeightInv
  <2>2. ASSUME NEW s \in service_map', service_weight_map'[s] = 0
        PROVE  \E v \in Workers : pc'[v] \in SettingPCs /\ job'[v].service = s
    <3>1. PICK v \in Workers : pc[v] \in SettingPCs /\ job[v].service = s
      BY <1>1, <2>2 DEF WeightInv
    <3> QED
      BY <1>1, <3>1
  <2> QED
    BY <2>1, <2>2 DEF WeightInv
<1>2. CASE UNCHANGED vars
  BY <1>1, <1>2 DEF vars, maps
<1>3. ASSUME NEW h \in Handlers, HandlerCall(h) PROVE WeightInv'
  <2>1. \/ \E p \in Posts : LoadAndRegister(h, p)
        \/ RejectPost(h)
    BY <1>3 DEF HandlerCall, SerialPosts, RegisterNameCall, UnregisterNameCall, SetServerStaticWeight,
       SetWorkMode, SetStressParams
  <2>2. UNCHANGED <<service_map, service_weight_map>>
    BY <2>1 DEF LoadAndRegister, RejectPost, maps
  <2>3. \A v \in Workers : pc'[v] = pc[v] /\ job'[v] = job[v]
    BY <1>0, <2>1 DEF LoadAndRegister, RejectPost, Goto
  <2> QED
    BY <1>1, <2>2, <2>3
<1>4. ASSUME NEW h \in Handlers, HandlerStep(h) PROVE WeightInv'
  <2>1. pc[h] \in {"idle"} \cup PostPCs
    BY <1>0 DEF PlacesInv
  <2>2. ReadServices(h) \/ LoadModels(h) \/ RegisterServices(h)
    BY <1>4, <2>1 DEF HandlerStep, SharedStep, RegisterServiceName, RegisterServer, InitServiceModels, SetWeight,
       UnregisterServiceName, EraseWeight, EraseModels, At, PostPCs
  <2>3. UNCHANGED <<service_map, service_weight_map>>
    BY <2>2 DEF ReadServices, LoadModels, RegisterServices, maps
  <2>4. \A v \in Workers : pc'[v] = pc[v] /\ job'[v] = job[v]
    BY <1>0, <2>2 DEF ReadServices, LoadModels, RegisterServices, Goto, Finish
  <2> QED
    BY <1>1, <2>3, <2>4
<1>5. ASSUME NEW s \in Services, ConfigArrives(s) PROVE WeightInv'
  BY <1>1, <1>5 DEF ConfigArrives, maps
<1>6. ~Shutdown
  BY DEF Shutdown, SerialPosts
<1> QED
  BY <1>2, <1>3, <1>4, <1>5, <1>6, WeightWorker DEF Next

\* "if server weight not set or server weight changed then set server weight"
\* (http_service.cc:349): with serial posts and nobody at the other endpoints,
\* every registered service is published with the weight that
\* service_weight_map_ reports for it.
THEOREM WeightsPublished == ASSUME SerialPosts PROVE Spec => []ReportedWeightPublished
<1>1. Init => WeightInv
  BY DEF Init, WeightInv, Threads
<1>2. PostInv /\ [Next]_vars => PostInv'
  BY PostStep
<1>3. PostInv /\ WeightInv => ReportedWeightPublished
  <2> SUFFICES ASSUME PostInv, WeightInv, Quiescent, NEW s \in service_map
               PROVE  router[s] = service_weight_map[s]
    BY DEF ReportedWeightPublished
  <2>1. \A w \in Workers : pc[w] = "idle"
    BY DEF Quiescent, Threads
  <2>2. service_weight_map[s] # 0
    BY <2>1 DEF WeightInv, SettingPCs
  <2>3. s \in Services /\ NamesInv
    BY DEF PostInv, TypeOK, Effect
  <2> QED
    BY <2>1, <2>2, <2>3 DEF NamesInv
<1> QED
  BY <1>1, <1>2, <1>3, InitPost, WeightStep, PTL DEF Spec
=============================================================================
