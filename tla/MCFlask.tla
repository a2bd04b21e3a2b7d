------------------------------ MODULE MCFlask ------------------------------
(***************************************************************************)
(* Instances of FlaskScraper: two boards with a thread each.               *)
(***************************************************************************)
EXTENDS FlaskScraper, TLC

CONSTANTS b1, b2, t1, t2, p1, p2, p3, n1, n2, i1, i2, e1, none, cut

TwoBoardOf == (t1 :> b1) @@ (t2 :> b2)

(* p1 and p2 bring the same webm under two names, p3 another one.          *)
SameThreadOf == (p1 :> t1) @@ (p2 :> t1) @@ (p3 :> t2)
SameNameOf == (p1 :> n1) @@ (p2 :> n2) @@ (p3 :> n1)
SameImageOf == (p1 :> i1) @@ (p2 :> i1) @@ (p3 :> i2)
SameListing == (t1 :> <<p1, p2>>) @@ (t2 :> <<p3>>)

(* The same webm on both boards.                                           *)
CrossThreadOf == (p1 :> t1) @@ (p3 :> t2)
CrossNameOf == (p1 :> n1) @@ (p3 :> n1)
CrossImageOf == (p1 :> i1) @@ (p3 :> i1)
CrossListing == (t1 :> <<p1>>) @@ (t2 :> <<p3>>)
=============================================================================
