---------------------------- MODULE SplitForward ----------------------------
(***************************************************************************)
(* A server in router mode: PredictorRouter forwards a multiPredict to the *)
(* service that has its models, as it is or cut into slices that tasks of  *)
(* the heavy pool send side by side, and puts the answers together.        *)
(*                                                                         *)
(* A part of a request is what one rpc carries: part 0 the whole request,  *)
(* part k > 0 its k-th slice.  The SDK's call (see ThriftCall) returns a   *)
(* future, returns false, or throws; a future is fulfilled, at the latest  *)
(* by the rpc's timeout, with results, an empty response or an exception.  *)
(***************************************************************************)
EXTENDS Slices, FiniteSets

CONSTANTS
  Requests,
  Kinds,         \* context of the requests: router_op, and whether it is a feature record
  Total,         \* items of a request
  MinItems, MaxItems,  \* FLAGS_min_items_per_slice, FLAGS_max_items_per_slice
  Services,      \* services of predictors
  RouterService, \* PREDICTOR_ROUTER_SERVICE_NAME, which the clients address
  HeavyThreads,
  SendOutcomes,  \* how the SDK's call may end
  MaxUpdates     \* bound: updates of the model service map

Items == 0 .. Total - 1

Operations == {"none", "missing", "simple_forward", "split_request", "other"}

\* What the map may give for the first model of a request: a service, even the
\* router's own, no entry, or there is no map yet.
Entries == Services \cup {RouterService, "absent", "null"}

ASSUME ConstantsAssumption ==
  /\ Total \in Nat /\ MinItems \in Nat /\ MaxItems \in Int /\ MaxUpdates \in Nat
  /\ HeavyThreads \in Nat \ {0}
  /\ Kinds # {} /\ Kinds \subseteq [op : Operations, record : BOOLEAN]
  /\ RouterService \notin Services
  /\ (Services \cup {RouterService}) \cap {"absent", "null", "error"} = {}
  /\ SendOutcomes \subseteq {"sent", "false", "throw"}

\* multiPredictSplitRequest's call of split_slice.
Ranges == IF MaxItems <= 0 THEN << >>
          ELSE split_slice(Total, MinItems, Total \div MaxItems + 1)
CanSplit == MaxItems > 0 /\ MinItems > 0

Parts == 0 .. Len(Ranges)

ItemsOfPart(k) == IF k = 0 THEN Items ELSE ItemsOf(Ranges[k])

VARIABLES
  service_map,  \* the entry of ResourceMgr::global_model_service_map_
  queue,        \* waiting tasks of the heavy pool
  part,         \* the parts of each request
  req,
  updates

vars == <<service_map, queue, part, req, updates>>

NoPart == [state |-> "none", service |-> RouterService, reply |-> "none"]
NewReq == [pc |-> "idle", kind |-> CHOOSE k \in Kinds : TRUE, service |-> RouterService,
           futs |-> << >>, items |-> {}]

PCs     == {"idle", "forward", "split", "send", "collect", "get", "returned", "failed", "undefined"}
States  == {"none", "queued", "sending", "sent", "false", "throw"}
Replies == {"none", "results", "empty", "exception"}

TypeOK ==
  /\ service_map \in Entries
  /\ queue \in Seq(Requests \X (Parts \ {0}))
  /\ \A r \in Requests :
       /\ req[r].pc \in PCs
       /\ req[r].service \in Services \cup {RouterService}
       /\ req[r].futs \in Seq(Parts)
       /\ req[r].items \subseteq Items
       /\ \A k \in Parts :
            /\ part[r][k].state \in States
            /\ part[r][k].reply \in Replies
            /\ part[r][k].reply # "none" => part[r][k].state = "sent"

Init ==
  /\ service_map \in Entries
  /\ queue = << >>
  /\ part = [r \in Requests |-> [k \in Parts |-> NoPart]]
  /\ req = [r \in Requests |-> NewReq]
  /\ updates = 0

---------------------------------------------------------------------------
(* The thrift thread of a request *)

\* PredictorRouter::multiPredict.  Without router_op in the context it reads
\* past the end of it; an unknown operation is not answered.
MultiPredict(r) ==
  /\ req[r].pc = "idle"
  /\ \E k \in Kinds :
       req' = [req EXCEPT ![r] =
                 [@ EXCEPT !.kind = k,
                           !.pc = CASE k.op \in {"none", "simple_forward"} -> "forward"
                                    [] k.op = "split_request"              -> "split"
                                    [] k.op = "other"                      -> "returned"
                                    [] k.op = "missing"                    -> "undefined"]]
  /\ UNCHANGED <<service_map, queue, part, updates>>

\* The service the map gives; without an entry the one the request names.
Looked(c) == IF service_map = "absent" THEN c.service ELSE service_map

\* Faulty variant of ServiceName: the check for the router's own service is missing.
ServiceNameUnchecked(c) == IF service_map = "null" THEN "error" ELSE Looked(c)

\* setRequestOptionPredictorServiceName: the service to forward to, or "error".
ServiceName(c) ==
  IF service_map = "null" \/ Looked(c) = RouterService THEN "error" ELSE Looked(c)

\* multiPredictSimpleForward up to the rpc.
SimpleForward(r) ==
  /\ req[r].pc = "forward"
  /\ LET s == ServiceName(req[r]) IN
     req' = [req EXCEPT ![r] = IF s = "error" THEN [@ EXCEPT !.pc = "returned"]
                               ELSE [@ EXCEPT !.pc = "send", !.service = s]]
  /\ UNCHANGED <<service_map, queue, part, updates>>

\* multiPredictSplitRequest up to collectAll: a feature record is forwarded
\* whole, and so is a request that cannot be split.
SplitRequest(r) ==
  /\ req[r].pc = "split"
  /\ LET s == ServiceName(req[r]) IN
     IF s = "error"
     THEN req' = [req EXCEPT ![r].pc = "returned"] /\ UNCHANGED <<queue, part>>
     ELSE /\ req' = [req EXCEPT ![r] =
                       [@ EXCEPT !.service = s,
                                 !.pc = IF req[r].kind.record THEN "send"
                                        ELSE IF CanSplit THEN "collect" ELSE "forward"]]
          /\ IF CanSplit /\ ~req[r].kind.record
             THEN /\ queue' = queue \o [k \in DOMAIN Ranges |-> <<r, k>>]
                  /\ part' = [part EXCEPT ![r] = [k \in Parts |->
                                IF k = 0 THEN @[k] ELSE [@[k] EXCEPT !.state = "queued"]]]
             ELSE UNCHANGED <<queue, part>>
  /\ UNCHANGED <<service_map, updates>>

\* The rpc of a whole request.  Nobody waits for the answer to a feature record,
\* an exception of the SDK's call goes to the client.
Send(r) ==
  /\ req[r].pc = "send"
  /\ \E outcome \in SendOutcomes :
       /\ part' = [part EXCEPT ![r][0] = [@ EXCEPT !.state = outcome, !.service = req[r].service]]
       /\ req' = [req EXCEPT ![r] =
                    CASE outcome = "throw" -> [@ EXCEPT !.pc = "failed"]
                      [] outcome = "false" -> [@ EXCEPT !.pc = "returned"]
                      [] outcome = "sent"  ->
                           IF @.kind.record THEN [@ EXCEPT !.pc = "returned"]
                           ELSE [@ EXCEPT !.pc = "get", !.futs = <<0>>]]
  /\ UNCHANGED <<service_map, queue, updates>>

\* Faulty variant of AllSent: the futures are collected while slices are still being sent.
AllSentSome(r) == \E k \in Parts \ {0} : part[r][k].state \notin {"queued", "sending"}

\* Faulty variant of AllSent: as many futures as slices are waited for.
AllSentStored(r) == Len(req[r].futs) = Len(Ranges)

AllSent(r) == \A k \in Parts \ {0} : part[r][k].state \notin {"queued", "sending"}

\* collectAll over the sending tasks: value() of one that threw throws again.
Collect(r) ==
  /\ req[r].pc = "collect" /\ AllSent(r)
  /\ req' = [req EXCEPT ![r].pc = IF \E k \in Parts : part[r][k].state = "throw"
                                  THEN "failed" ELSE "get"]
  /\ UNCHANGED <<service_map, queue, part, updates>>

\* combineMultiPredictResponse; an empty response or an exception adds nothing.
Combined(c, results) == [c EXCEPT !.futs = Tail(@), !.items = @ \cup results]
Results(r, k) == IF part[r][k].reply = "results" THEN ItemsOfPart(k) ELSE {}

\* getAndCombineMultiPredictResponse waits for the futures in the order the
\* tasks stored them and inserts their results.
Get(r) ==
  /\ req[r].pc = "get" /\ req[r].futs # << >>
  /\ LET k == Head(req[r].futs) IN
     /\ part[r][k].reply # "none"
     /\ req' = [req EXCEPT ![r] = Combined(@, Results(r, k))]
  /\ UNCHANGED <<service_map, queue, part, updates>>

Return(r) ==
  /\ req[r].pc = "get" /\ req[r].futs = << >>
  /\ req' = [req EXCEPT ![r].pc = "returned"]
  /\ UNCHANGED <<service_map, queue, part, updates>>

---------------------------------------------------------------------------
(* The heavy pool, the predictors and the map *)

Busy == {rk \in Requests \X (Parts \ {0}) : part[rk[1]][rk[2]].state = "sending"}

\* splitAndSendMultiPredictRequest copies the request's option and slice.
StartSlice ==
  /\ queue # << >> /\ Cardinality(Busy) < HeavyThreads
  /\ LET r == Head(queue)[1]  k == Head(queue)[2] IN
     part' = [part EXCEPT ![r][k].state = "sending"]
  /\ queue' = Tail(queue)
  /\ UNCHANGED <<service_map, req, updates>>

\* Faulty variant of SliceService: the map is read again.
SliceServiceLookup(r) == IF service_map \in Services THEN service_map ELSE req[r].service

SliceService(r) == req[r].service

\* The SDK's call in the task ends; a future is stored under the lock.
EndSlice(r, k) ==
  /\ part[r][k].state = "sending"
  /\ \E outcome \in SendOutcomes :
       /\ part' = [part EXCEPT ![r][k] = [@ EXCEPT !.state = outcome, !.service = SliceService(r)]]
       /\ req' = IF outcome = "sent" THEN [req EXCEPT ![r].futs = Append(@, k)] ELSE req
  /\ UNCHANGED <<service_map, queue, updates>>

Reply(r, k) ==
  /\ part[r][k].state = "sent" /\ part[r][k].reply = "none"
  /\ \E reply \in {"results", "empty", "exception"} : part' = [part EXCEPT ![r][k].reply = reply]
  /\ UNCHANGED <<service_map, queue, req, updates>>

UpdateMap ==
  /\ updates < MaxUpdates
  /\ \E s \in Entries \ {"null", service_map} : service_map' = s
  /\ updates' = updates + 1
  /\ UNCHANGED <<queue, part, req>>

---------------------------------------------------------------------------
Thrift(r) ==
  SimpleForward(r) \/ SplitRequest(r) \/ Send(r) \/ Collect(r) \/ Get(r) \/ Return(r)

Next ==
  \/ \E r \in Requests : MultiPredict(r) \/ Thrift(r)
  \/ StartSlice
  \/ \E r \in Requests, k \in Parts : EndSlice(r, k) \/ Reply(r, k)
  \/ UpdateMap

Spec == Init /\ [][Next]_vars

\* Threads are scheduled, the SDK's call ends, and so does an rpc.
FairSpec ==
  /\ Spec
  /\ \A r \in Requests : WF_vars(Thrift(r))
  /\ WF_vars(StartSlice)
  /\ \A r \in Requests, k \in Parts : WF_vars(EndSlice(r, k)) /\ WF_vars(Reply(r, k))

---------------------------------------------------------------------------
(* Properties *)

\* The parts of a request that reached a predictor, and those that came back.
Sent(r) == {k \in Parts : part[r][k].state = "sent"}
Answered(r) == {k \in Parts : part[r][k].reply = "results"}

\* What the client gets is what the answered parts contain, all of it and
\* nothing else; a part that failed costs the client its own items only, and a
\* request of which no part failed is answered in full, whatever the order in
\* which the slices were sent and answered.
NothingLost ==
  \A r \in Requests : (req[r].pc = "returned" /\ ~req[r].kind.record) =>
    /\ req[r].items = UNION {ItemsOfPart(k) : k \in Answered(r)}
    /\ (Sent(r) # {} /\ Sent(r) = Answered(r) /\ ~\E k \in Parts : part[r][k].state = "false")
         => req[r].items = Items

\* No item is sent to the predictors twice: neither do the slices overlap nor is
\* a request forwarded whole once slices of it are on their way.
NoItemTwice ==
  \A r \in Requests : \A k, l \in Sent(r) : k # l => ItemsOfPart(k) \cap ItemsOfPart(l) = {}

\* The parts of a request go to one service, even if the map changes while they
\* are sent, and that is never the router's own, which would forward them again.
OneService ==
  \A r \in Requests : \A k, l \in Sent(r) :
    part[r][k].service # RouterService /\ part[r][k].service = part[r][l].service

\* Every request comes to an end, however many of its parts fail.
RequestsReturn ==
  \A r \in Requests : req[r].pc \in {"forward", "split"} ~> req[r].pc \in {"returned", "failed"}

\* A request whose slices were all sent or not sent is answered, with what the
\* predictors returned.
SlicesFailAlone == \A r \in Requests : req[r].pc # "failed"

\* A request without a router operation is forwarded like one without context.
OperationIsOptional == \A r \in Requests : req[r].pc # "undefined"
=============================================================================
