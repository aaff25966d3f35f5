--------------------------- MODULE MCHttpService ---------------------------
(* Small instances of HttpService for TLC. *)
EXTENDS HttpService

CONSTANTS s1, s2

Rec(m, v) == [name |-> m, timestamp |-> v]
Serve(s, w, recs) == [service |-> s, weight |-> w, records |-> recs]
PostOf(es, c) == [entries |-> es, config |-> c, locked |-> FALSE]

\* Posts that add and drop services, share a model between services, move a
\* model to another version, and change a weight.
ThreePosts ==
  { PostOf({Serve(s1, 0, {Rec(1, 1)})}, "a"),
    PostOf({Serve(s1, 2, {Rec(1, 2), Rec(2, 1)}), Serve(s2, 0, {Rec(2, 1)})}, "b"),
    PostOf({Serve(s2, 2, {Rec(2, 2)})}, "none") }

\* One service whose only model is posted in two versions, the older one locked.
TwoVersions ==
  { [PostOf({Serve(s1, 2, {Rec(1, 1)})}, "none") EXCEPT !.locked = TRUE],
    PostOf({Serve(s1, -1, {Rec(1, 2)})}, "none") }

\* The same service and model, dropped by an empty post.
AddOrDrop ==
  { PostOf({Serve(s1, 2, {Rec(1, 1)})}, "none"), PostOf({}, "none") }

OverlapPosts == TwoVersions \cup {PostOf({}, "none")}
=============================================================================
