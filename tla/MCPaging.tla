----------------------------- MODULE MCPaging -----------------------------
(***************************************************************************)
(* Paging with two webms to a page.  The boards, whose files also change   *)
(* their age, have two full pages; the other lists reach a third one.      *)
(***************************************************************************)
EXTENDS Paging

FourOrFive == [h \in Handler |-> IF h = "board" THEN 4 ELSE 5]
=============================================================================
