----------------------------- MODULE MCArchive -----------------------------
(***************************************************************************)
(* Instances of Archive small enough for TLC.  Two boards with a thread    *)
(* each; the second thread is found because its first post says "webm",    *)
(* the first one because it starts with a webm.                            *)
(***************************************************************************)
EXTENDS Archive, TLC

CONSTANTS b1, b2, t1, t2, p1, p2, p3, p4, p5, n1, n2, n3, n4, i1, i2, e1, e0

MCBoard == {b1, b2}
MCThread == {t1, t2}
MCImage == {i1, i2}
MCBoardOf == t1 :> b1 @@ t2 :> b2
MCMentions == {t2}
NoErrorBody == {}
MCErrorBody == {e1, e0}

(* Reposts: one webm twice in a thread under two names, and once more on   *)
(* the other board under the first name, after a picture and before        *)
(* another webm.                                                           *)
DupPost == {p1, p2, p3, p4, p5}
DupThreadOf == p1 :> t1 @@ p2 :> t1 @@ p3 :> t2 @@ p4 :> t2 @@ p5 :> t2
DupName == {n1, n2, n3, n4}
DupNameOf == p1 :> n1 @@ p2 :> n2 @@ p3 :> n4 @@ p4 :> n1 @@ p5 :> n3
DupImageOf == p1 :> i1 @@ p2 :> i1 @@ p3 :> i2 @@ p4 :> i1 @@ p5 :> i2
DupListing == t1 :> <<p1, p2>> @@ t2 :> <<p3, p4, p5>>
DupWebmPost == {p1, p2, p4, p5}
DupSizeIn == n1 :> 7 @@ n2 :> 7 @@ n3 :> 9 @@ n4 :> 9
DupSizeOf == i1 :> 7 @@ i2 :> 9

(* Errors: the site may answer with a page (e1) or with nothing (e0); two  *)
(* webms on one board and a repost of the first on the other.  Again: the  *)
(* first webm is also posted a second time under its name.                 *)
ErrPost == {p1, p2, p3}
ErrThreadOf == p1 :> t1 @@ p2 :> t1 @@ p3 :> t2
ErrName == {n1, n2}
ErrNameOf == p1 :> n1 @@ p2 :> n2 @@ p3 :> n1
ErrImageOf == p1 :> i1 @@ p2 :> i2 @@ p3 :> i1
AgainPost == ErrPost \cup {p4}
AgainThreadOf == ErrThreadOf @@ p4 :> t1
AgainNameOf == ErrNameOf @@ p4 :> n1
AgainImageOf == ErrImageOf @@ p4 :> i1
AgainListing == t1 :> <<p1, p4, p2>> @@ t2 :> <<p3>>
ErrListing == t1 :> <<p1, p2>> @@ t2 :> <<p3>>
ErrSizeIn == n1 :> 7 @@ n2 :> 9
ErrSizeOf == i1 :> 7 @@ i2 :> 9 @@ e1 :> 5 @@ e0 :> 0
=============================================================================
