--------------------------- MODULE MCSplitForward ---------------------------
(* Small instances of SplitForward for TLC. *)
EXTENDS SplitForward

Kind(op, record) == [op |-> op, record |-> record]

AllKinds == {Kind("none", FALSE), Kind("other", FALSE), Kind("split_request", FALSE), Kind("split_request", TRUE)}

MissingOp == {Kind("missing", FALSE)}
SplitOnly == {Kind("split_request", FALSE)}
=============================================================================
