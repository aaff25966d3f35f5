--------------------------- MODULE ModelServing ---------------------------
(***************************************************************************)
(* What the control plane of a predictor server promises to the prediction *)
(* path: a service is only ever bound to models that can be served, and a  *)
(* model that can be served stays so until the process ends (the unload of *)
(* HttpService is logical).                                                *)
(***************************************************************************)
CONSTANTS Services, Models, NoSet

VARIABLES
  servable,  \* models ModelFramework::predict finds
  bound      \* models a service is bound to, or NoSet

Init == servable = {} /\ bound = [s \in Services |-> NoSet]

Load(m) == servable' = servable \cup {m} /\ UNCHANGED bound

Bind(s, ms) ==
  /\ ms \subseteq servable
  /\ bound' = [bound EXCEPT ![s] = ms]
  /\ UNCHANGED servable

Unbind(s) == bound' = [bound EXCEPT ![s] = NoSet] /\ UNCHANGED servable

Next ==
  \/ \E m \in Models : Load(m)
  \/ \E s \in Services, ms \in SUBSET Models : Bind(s, ms)
  \/ \E s \in Services : Unbind(s)

Spec == Init /\ [][Next]_<<servable, bound>>
=============================================================================
