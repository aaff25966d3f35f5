------------------------------- MODULE Slices -------------------------------
(***************************************************************************)
(* common::split_slice: a list of total items is cut into consecutive      *)
(* ranges, one task each.  A range [begin, end) is a record; the items are *)
(* numbered from 0.                                                        *)
(***************************************************************************)
EXTENDS Integers, Sequences

\* Items per slice.
Average(total, min, max) ==
  LET avg == total \div max + 1 IN IF avg < min THEN min ELSE avg

Range(b, e) == [begin |-> b, end |-> e]

\* Faulty variant of Cut: the rest that does not fill a slice is dropped.
CutFull(total, avg) ==
  [i \in 1 .. total \div avg |-> Range((i - 1) * avg, i * avg)]

\* Faulty variant of Cut: the last slice is as long as the others.
CutOver(total, avg) ==
  LET n == total \div avg
  IN  [i \in 1 .. (IF n * avg < total THEN n + 1 ELSE n) |-> Range((i - 1) * avg, i * avg)]

\* Faulty variant of Cut: a slice begins with the last item of the one before.
CutOverlap(total, avg) ==
  LET n == total \div avg
  IN  [i \in 1 .. (IF n * avg < total THEN n + 1 ELSE n) |->
         Range(IF i = 1 THEN 0 ELSE (i - 1) * avg - 1, IF i <= n THEN i * avg ELSE total)]

\* Full slices and, if any items are left over, one more.
Cut(total, avg) ==
  LET n == total \div avg
  IN  [i \in 1 .. (IF n * avg < total THEN n + 1 ELSE n) |->
         Range((i - 1) * avg, IF i <= n THEN i * avg ELSE total)]

\* split_slice returns false, and no range, if either parameter is 0.
split_slice(total, min, max) ==
  IF max = 0 \/ min = 0 THEN << >> ELSE Cut(total, Average(total, min, max))

ItemsOf(range) == range.begin .. range.end - 1
=============================================================================
