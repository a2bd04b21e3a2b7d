---------------------------- MODULE MCUrlSearch ----------------------------
(***************************************************************************)
(* UrlSearch with two threads and two URLs that end alike.                 *)
(***************************************************************************)
EXTENDS UrlSearch, TLC

CONSTANTS w1, w2, u1, u2, i1, i2, base

SameBaseName == u1 :> base @@ u2 :> base
TwoImages == u1 :> i1 @@ u2 :> i2

(* The threads are alike, and so are the URLs with their webms.            *)
Swap == u1 :> u2 @@ u2 :> u1 @@ i1 :> i2 @@ i2 :> i1
Alike ==
    {p @@ q : p \in Permutations(Worker), q \in {Swap, [x \in DOMAIN Swap |-> x]}}
=============================================================================
