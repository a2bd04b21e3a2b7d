----------------------------- MODULE Catalogue -----------------------------
(***************************************************************************)
(* What the archive promises, without downloads, symbolic links, crashes   *)
(* or SQL: a shelf of places, each showing one content or nothing; the     *)
(* first place a content is catalogued at is its original for ever, and    *)
(* what stands there is never taken away or changed; every other place     *)
(* catalogued for it is a repost of it.                                    *)
(***************************************************************************)
CONSTANTS
    Hash,       \* contents
    Place       \* where a content can be shown

VARIABLES
    shelf,      \* [Place -> SUBSET Hash]: {h} where h is shown, {} where nothing is
    originals,  \* pairs <<hash, place>>
    reposts     \* pairs <<hash, place>>

cvars == <<shelf, originals, reposts>>

HasOriginal(h) == \E o \in originals : o[1] = h
IsOriginal(p) == \E o \in originals : o[2] = p

Init ==
    /\ shelf = [p \in Place |-> {}]
    /\ originals = {} /\ reposts = {}

(* A content arrives at an empty place.                                    *)
Receive(p, h) ==
    /\ shelf[p] = {}
    /\ shelf' = [shelf EXCEPT ![p] = {h}]
    /\ UNCHANGED <<originals, reposts>>

(* A place that is nobody's original may lose what it shows.               *)
Lose(p) ==
    /\ ~IsOriginal(p)
    /\ shelf' = [shelf EXCEPT ![p] = {}]
    /\ UNCHANGED <<originals, reposts>>

Adopt(p, h) ==
    /\ shelf[p] = {h} /\ ~HasOriginal(h)
    /\ originals' = originals \cup {<<h, p>>}
    /\ UNCHANGED <<shelf, reposts>>

Repost(p, h) ==
    /\ shelf[p] = {h}
    /\ HasOriginal(h) /\ <<h, p>> \notin originals
    /\ reposts' = reposts \cup {<<h, p>>}
    /\ UNCHANGED <<shelf, originals>>

Next == \E p \in Place :
    \/ Lose(p)
    \/ \E h \in Hash : Receive(p, h) \/ Adopt(p, h) \/ Repost(p, h)

Spec == Init /\ [][Next]_cvars

(* An original stands at its place, and a content has one original.        *)
OriginalsKept ==
    /\ \A o \in originals : shelf[o[2]] = {o[1]}
    /\ \A o1, o2 \in originals : o1[1] = o2[1] => o1 = o2
=============================================================================
