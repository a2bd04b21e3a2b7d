---------------------------- MODULE MCWebmPage ----------------------------
(***************************************************************************)
(* WebmPage over a small instance of Archive with two aliases, so that the *)
(* ids of webms and aliases need not agree.                                *)
(***************************************************************************)
EXTENDS ThreadPage, TLC

CONSTANTS b1, b2, t1, t2, p1, p2, p3, p4, n1, n2, i1, i2

PageBoardOf == t1 :> b1 @@ t2 :> b2
PageSizeOf == i1 :> 7 @@ i2 :> 9
PageSizeIn == n1 :> 7 @@ n2 :> 9

(* Both webms of the first board again on the second, the later one first. *)
BothThreadOf == p1 :> t1 @@ p2 :> t1 @@ p3 :> t2 @@ p4 :> t2
BothNameOf == p1 :> n1 @@ p2 :> n2 @@ p3 :> n2 @@ p4 :> n1
BothImageOf == p1 :> i1 @@ p2 :> i2 @@ p3 :> i2 @@ p4 :> i1
BothListing == t1 :> <<p1, p2>> @@ t2 :> <<p3, p4>>
=============================================================================
