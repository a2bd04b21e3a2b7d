---------------------------- MODULE MCMigration ----------------------------
(***************************************************************************)
(* Two threads with a post each; the webm of one is posted again in the    *)
(* other.                                                                  *)
(***************************************************************************)
EXTENDS Migration, TLC

CONSTANTS t1, t2, p1, p2, w1, w2, a1

SmallRefOf == p1 :> t1 @@ p2 :> t2 @@ w1 :> p1 @@ w2 :> p2 @@ a1 :> p2
SmallWebmOf == a1 :> w1
=============================================================================
