--------------------------- MODULE PagingProofs ---------------------------
(***************************************************************************)
(* Proofs about Paging: a reader who follows the links misses no more than *)
(* what moved while it read, or, in the C list by popularity, what tied,   *)
(* for lists, pages and changes of any number.                             *)
(*                                                                         *)
(* A reader has the list above some rank behind it.  A webm is lost to it  *)
(* when it gets there unseen, or is gone.  A new webm takes none there, a  *)
(* move one, and what is left below the last page is what came since the   *)
(* webms were counted.                                                     *)
(***************************************************************************)
EXTENDS Paging, FiniteSetTheorems, FunctionTheorems, TLAPS

(***************************************************************************)
(* The inductive invariant.                                                *)
(***************************************************************************)
Numbered == webms \cup away = 1..Cardinality(webms \cup away)

NoneNewer == \A x \in Number : time[x] <= clock

(* The rank the reader has got to.                                         *)
Behind == IF reader = "reads" THEN (page + 1) * PerPage ELSE page * PerPage

Lost == {x \in present \ seen : x \notin webms \/ Rank(x) < Behind}

LostMoved ==
    reader \in {"asks", "reads"} /\ handler # "by_alias" => Cardinality(Lost) <= moves

CountIsStale ==
    reader = "counted" /\ handler # "by_alias" =>
        /\ Flask /\ count <= Cardinality(webms)
        /\ Cardinality(Lost) + (Cardinality(webms) - count) <= moves

LastPage ==
    reader = "reads" /\ handler # "by_alias" /\ NextPage(page, count) <= page =>
        Cardinality(present \ seen) <= moves

WalkInv == LostMoved /\ CountIsStale /\ LastPage /\ MissesOnlyWhatMoved

ListInv == TypeOK /\ Numbered /\ NoneNewer

USE PagingAssumption

(***************************************************************************)
(* Sets of webms.                                                          *)
(***************************************************************************)
LEMMA NumberFinite ==
    ASSUME handler \in Handler
    PROVE  /\ MaxWebms[handler] \in Nat /\ IsFiniteSet(Number)
           /\ Cardinality(Number) = MaxWebms[handler]
PROOF
  <1>1. MaxWebms[handler] \in Nat
    OBVIOUS
  <1>2. IsFiniteSet(1..MaxWebms[handler])
    BY <1>1, FS_Interval
  <1>3. Cardinality(1..MaxWebms[handler]) = MaxWebms[handler]
    BY <1>1, FS_Interval
  <1> QED
    BY <1>1, <1>2, <1>3 DEF Number

(* How many of the webms there are.                                        *)
LEMMA SomeWebms ==
    ASSUME handler \in Handler, NEW S \in SUBSET Number
    PROVE  /\ IsFiniteSet(S)
           /\ Cardinality(S) \in Nat /\ Cardinality(S) <= MaxWebms[handler]
PROOF
  <1>1. IsFiniteSet(S) /\ Cardinality(S) <= Cardinality(Number)
    BY NumberFinite, FS_Subset
  <1>2. Cardinality(S) \in Nat
    BY <1>1, FS_CardinalityType
  <1> QED
    BY <1>1, <1>2, NumberFinite

(* A set of webms within another is the smaller of the two.                *)
LEMMA FewerWebms ==
    ASSUME handler \in Handler, NEW T \in SUBSET Number, NEW S \in SUBSET T
    PROVE  /\ Cardinality(S) \in Nat /\ Cardinality(T) \in Nat
           /\ Cardinality(S) <= Cardinality(T)
           /\ S # T => Cardinality(S) < Cardinality(T)
PROOF
  <1>1. S \in SUBSET Number
    OBVIOUS
  <1>2. IsFiniteSet(T) /\ Cardinality(T) \in Nat
    BY SomeWebms
  <1>3. Cardinality(S) \in Nat
    BY <1>1, SomeWebms
  <1>4. Cardinality(S) <= Cardinality(T)
    BY <1>2, FS_Subset
  <1>5. Cardinality(S) = Cardinality(T) => S = T
    BY <1>2, FS_Subset
  <1> QED
    BY <1>2, <1>3, <1>4, <1>5

(* One more webm makes a set one larger at most.                           *)
LEMMA OneMore ==
    ASSUME handler \in Handler, NEW T \in SUBSET Number, NEW x \in Number,
           NEW S \in SUBSET (T \cup {x})
    PROVE  /\ Cardinality(S) \in Nat /\ Cardinality(T) \in Nat
           /\ Cardinality(S) <= Cardinality(T) + 1
PROOF
  <1>1. IsFiniteSet(T) /\ Cardinality(T) \in Nat
    BY SomeWebms
  <1>2. Cardinality(T \cup {x}) <= Cardinality(T) + 1
    BY <1>1, FS_AddElement
  <1>3. T \cup {x} \in SUBSET Number
    OBVIOUS
  <1>4. Cardinality(S) <= Cardinality(T \cup {x}) /\ Cardinality(S) \in Nat
        /\ Cardinality(T \cup {x}) \in Nat
    BY <1>3, FewerWebms
  <1> QED
    BY <1>1, <1>2, <1>4

(***************************************************************************)
(* The order of a list, but for the C list by popularity, is strict and    *)
(* total, and so each webm has a rank of its own.                          *)
(***************************************************************************)
Listed ==
    /\ handler \in Handler /\ webms \subseteq Number
    /\ time \in [Number -> Nat] /\ copies \in [Number -> Nat]

Ordered == Listed /\ handler # "by_alias"

(* The order of a list is irreflexive, total and transitive.               *)
LEMMA OrderIsStrict ==
    ASSUME Ordered, NEW x \in Number, NEW y \in Number
    PROVE  /\ ~ Before(x, x)
           /\ x # y => Before(x, y) \/ Before(y, x)
           /\ \A z \in Number : Before(x, y) /\ Before(y, z) => Before(x, z)
PROOF
  <1>0. Number \subseteq Nat
    BY NumberFinite DEF Ordered, Listed, Number
  <1>1. /\ ~ Newer(x, x)
        /\ x # y => Newer(x, y) \/ Newer(y, x)
        /\ \A z \in Number : Newer(x, y) /\ Newer(y, z) => Newer(x, z)
    BY <1>0 DEF Ordered, Listed, Newer
  <1>2. /\ ~ Before(x, x)
        /\ x # y => Before(x, y) \/ Before(y, x)
    BY <1>1 DEF Ordered, Listed, Before, ByAlias
  <1>3. \A z \in Number : Before(x, y) /\ Before(y, z) => Before(x, z)
    BY <1>1 DEF Ordered, Listed, Before, ByAlias
  <1> QED
    BY <1>2, <1>3

(* A rank is a number.                                                     *)
LEMMA RankTyped ==
    ASSUME Listed, NEW x \in Number
    PROVE  Rank(x) \in Nat
PROOF
  <1>1. {y \in webms : Before(y, x)} \in SUBSET Number
    BY DEF Listed
  <1> QED
    BY <1>1, SomeWebms DEF Rank, Listed

(* What comes first has the smaller rank.                                  *)
LEMMA RankIsOrder ==
    ASSUME Ordered, NEW x \in webms, NEW y \in Number, Before(x, y)
    PROVE  Rank(x) < Rank(y)
PROOF
  <1> DEFINE S == {z \in webms : Before(z, x)}
             T == {z \in webms : Before(z, y)}
  <1>1. T \in SUBSET Number /\ x \in Number
    BY DEF Ordered, Listed
  <1>2. S \in SUBSET T
    BY <1>1, OrderIsStrict DEF Ordered, Listed
  <1>3. x \in T /\ x \notin S
    BY <1>1, OrderIsStrict
  <1> HIDE DEF S, T
  <1>4. Cardinality(S) < Cardinality(T)
    BY <1>1, <1>2, <1>3, FewerWebms DEF Ordered, Listed
  <1> QED
    BY <1>4 DEF S, T, Rank

(* No two webms have one rank.                                             *)
LEMMA RankIsUnique ==
    ASSUME Ordered, NEW x \in webms, NEW y \in webms, Rank(x) = Rank(y)
    PROVE  x = y
PROOF
  <1>1. x \in Number /\ y \in Number
    BY DEF Ordered, Listed
  <1>2. Rank(x) \in Nat /\ Rank(y) \in Nat
    BY <1>1, RankTyped DEF Ordered
  <1>3. Before(x, y) => Rank(x) < Rank(y)
    BY <1>1, RankIsOrder
  <1>4. Before(y, x) => Rank(y) < Rank(x)
    BY <1>1, RankIsOrder
  <1> QED
    BY <1>1, <1>2, <1>3, <1>4, OrderIsStrict

(* Ranks end where the list does.                                          *)
LEMMA RankBelowSize ==
    ASSUME Ordered, NEW x \in webms
    PROVE  Rank(x) < Cardinality(webms)
PROOF
  <1> DEFINE S == {z \in webms : Before(z, x)}
  <1>1. webms \in SUBSET Number /\ x \in Number
    BY DEF Ordered, Listed
  <1>2. S \in SUBSET webms
    OBVIOUS
  <1>3. x \notin S
    BY <1>1, OrderIsStrict
  <1> HIDE DEF S
  <1>4. Cardinality(S) < Cardinality(webms)
    BY <1>1, <1>2, <1>3, FewerWebms DEF Ordered, Listed
  <1> QED
    BY <1>4 DEF S, Rank

(***************************************************************************)
(* Ranks leave no gap: what lies below a rank is the rest of the list.     *)
(***************************************************************************)
Below(k) == {x \in webms : Rank(x) >= k}

RankOf == [x \in webms |-> Rank(x)]

(* Ranks leave no gap.                                                     *)
LEMMA RanksAreBijection ==
    ASSUME Ordered
    PROVE  /\ IsFiniteSet(webms) /\ Cardinality(webms) \in Nat
           /\ RankOf \in Bijection(webms, 0..Cardinality(webms) - 1)
PROOF
  <1> DEFINE n == Cardinality(webms)
  <1>1. IsFiniteSet(webms) /\ n \in Nat
    BY SomeWebms DEF Ordered, Listed
  <1>2. \A x \in webms : Rank(x) \in 0..n - 1
    BY <1>1, RankTyped, RankBelowSize DEF Ordered, Listed
  <1>3. RankOf \in [webms -> 0..n - 1]
    BY <1>2 DEF RankOf
  <1>4. RankOf \in Injection(webms, 0..n - 1)
    BY <1>3, RankIsUnique, Fun_IsInj DEF RankOf
  <1>5. IsFiniteSet(0..n - 1) /\ Cardinality(0..n - 1) = n
    BY <1>1, FS_Interval
  <1>6. RankOf \in Surjection(webms, 0..n - 1)
    BY <1>4, <1>5, FS_Injection
  <1> QED
    BY <1>1, <1>4, <1>6 DEF Bijection

(* Below a rank is the rest of the list.                                   *)
LEMMA BelowIsTheRest ==
    ASSUME Ordered, NEW k \in Nat
    PROVE  /\ k <= Cardinality(webms) => Cardinality(Below(k)) = Cardinality(webms) - k
           /\ k >= Cardinality(webms) => Below(k) = {}
PROOF
  <1> DEFINE n == Cardinality(webms)
             f == [x \in Below(k) |-> Rank(x)]
  <1>1. /\ IsFiniteSet(webms) /\ n \in Nat
        /\ RankOf \in Bijection(webms, 0..n - 1)
    BY RanksAreBijection
  <1>2. k >= n => Below(k) = {}
    BY <1>1, RankTyped, RankBelowSize DEF Below, Ordered, Listed
  <1>3. ASSUME k <= n PROVE Cardinality(Below(k)) = n - k
    <2>1. \A x \in Below(k) : Rank(x) \in k..n - 1
      BY <1>1, RankTyped, RankBelowSize DEF Below, Ordered, Listed
    <2>2. \A x, y \in Below(k) : f[x] = f[y] => x = y
      BY RankIsUnique DEF Below
    <2>3. \A i \in k..n - 1 : \E x \in Below(k) : f[x] = i
      <3> SUFFICES ASSUME NEW i \in k..n - 1 PROVE \E x \in Below(k) : f[x] = i
        OBVIOUS
      <3>1. i \in 0..n - 1 /\ i >= k
        BY <1>1
      <3>2. PICK x \in webms : RankOf[x] = i
        BY <1>1, <3>1 DEF Bijection, Surjection
      <3> QED
        BY <3>1, <3>2 DEF RankOf, Below
    <2>4. f \in Bijection(Below(k), k..n - 1)
      <3>1. f \in [Below(k) -> k..n - 1]
        BY <2>1
      <3> HIDE DEF f
      <3> QED
        BY <2>2, <2>3, <3>1, Fun_IsBij
    <2>5. IsFiniteSet(Below(k))
      BY <1>1, FS_Subset DEF Below
    <2>6. Cardinality(k..n - 1) = Cardinality(Below(k))
      BY <2>4, <2>5, FS_Bijection DEF ExistsBijection
    <2>7. Cardinality(k..n - 1) = n - k
      <3>1. k \in Int /\ n - 1 \in Int
        BY <1>1
      <3>2. Cardinality(k..n - 1) = IF k > n - 1 THEN 0 ELSE n - 1 - k + 1
        BY <3>1, FS_Interval
      <3> QED
        BY <1>1, <1>3, <3>2
    <2> QED
      BY <2>6, <2>7
  <1> QED
    BY <1>2, <1>3

(***************************************************************************)
(* Pages.                                                                  *)
(***************************************************************************)
(* total \div PerPage is the number of full pages.                         *)
LEMMA FullPages ==
    ASSUME NEW n \in Nat
    PROVE  /\ n \div PerPage \in Nat
           /\ (n \div PerPage) * PerPage <= n
           /\ n < (n \div PerPage + 1) * PerPage
PROOF BY SMT

(* Where pages end.                                                        *)
LEMMA PageEnds ==
    ASSUME NEW p \in Nat, NEW q \in Nat
    PROVE  /\ p * PerPage \in Nat /\ (p + 1) * PerPage = p * PerPage + PerPage
           /\ p <= q => p * PerPage <= q * PerPage
PROOF BY SMT

(* The next page is a page, the one after this at most.                    *)
LEMMA NextPageTyped ==
    ASSUME NEW p \in Nat, NEW n \in Nat
    PROVE  NextPage(p, n) \in Nat /\ NextPage(p, n) <= p + 1
PROOF
  <1>1. n \div PerPage \in Nat
    BY FullPages
  <1> QED
    BY <1>1 DEF NextPage, NextOfBoard, NextOfView

(* A page shows webms of the list, and counts no more than there can be.   *)
LEMMA RowsAreSome ==
    ASSUME Listed, NEW p \in Nat, NEW rows \in Rows(p)
    PROVE  rows \subseteq webms /\ Total(rows) \in 0..MaxWebms[handler]
PROOF
  <1>1. rows \in SUBSET Number /\ webms \in SUBSET Number
    BY DEF Rows, Top, Listed
  <1>2. /\ Cardinality(rows) \in 0..MaxWebms[handler]
        /\ Cardinality(webms) \in 0..MaxWebms[handler]
    BY <1>1, SomeWebms, NumberFinite DEF Listed
  <1>3. rows \subseteq webms
    BY DEF Rows, Top
  <1> QED
    BY <1>2, <1>3 DEF Total

(* Where the order is total, what comes first is what has the lowest ranks.*)
LEMMA TopIsRanked ==
    ASSUME Ordered, NEW n \in Nat, NEW F \in Top(n)
    PROVE  F = {x \in webms : Rank(x) < n}
PROOF
  <1> DEFINE N == Cardinality(webms)
  <1>1. /\ F \in SUBSET webms /\ Cardinality(F) = IF n < N THEN n ELSE N
        /\ \A x \in F, y \in webms \ F : ~ Before(y, x)
    BY DEF Top
  <1>2. webms \in SUBSET Number /\ F \in SUBSET Number /\ handler \in Handler /\ N \in Nat
    BY <1>1, SomeWebms DEF Ordered, Listed
  <1>3. ASSUME NEW x \in F PROVE Rank(x) < n
    <2> DEFINE S == {y \in webms : Before(y, x)}
    <2>1. S \in SUBSET F /\ x \notin S
      BY <1>1, <1>2, OrderIsStrict
    <2> HIDE DEF S
    <2>2. Cardinality(S) \in Nat /\ Cardinality(F) \in Nat /\ Cardinality(S) < Cardinality(F)
      BY <1>2, <2>1, FewerWebms
    <2>3. Rank(x) = Cardinality(S)
      BY DEF Rank, S
    <2> QED
      BY <1>1, <1>2, <2>2, <2>3
  <1>4. ASSUME NEW x \in webms \ F PROVE ~ (Rank(x) < n)
    <2> DEFINE S == {y \in webms : Before(y, x)}
    <2>1. F \in SUBSET S /\ S \in SUBSET Number
      BY <1>1, <1>2, OrderIsStrict
    <2> HIDE DEF S
    <2>2. Cardinality(S) \in Nat /\ Cardinality(F) <= Cardinality(S)
      BY <1>2, <2>1, FewerWebms
    <2>3. Rank(x) = Cardinality(S)
      BY DEF Rank, S
    <2>4. F # webms
      OBVIOUS
    <2>5. Cardinality(F) < N
      BY <1>1, <1>2, <2>4, FewerWebms
    <2> QED
      BY <1>1, <1>2, <2>2, <2>3, <2>5
  <1> QED
    BY <1>1, <1>3, <1>4

(* And a page shows the webms of its ranks.                                *)
Ranks(p) == {x \in webms : p * PerPage <= Rank(x) /\ Rank(x) < (p + 1) * PerPage}

(* Each set of rows a page may show is the one of its ranks.               *)
LEMMA RowsAreRanked ==
    ASSUME Ordered, NEW p \in Nat, NEW rows \in Rows(p)
    PROVE  rows = Ranks(p)
PROOF
  <1>1. PICK A \in Top(p * PerPage), B \in Top((p + 1) * PerPage) : rows = B \ A
    BY DEF Rows
  <1>2. p + 1 \in Nat
    OBVIOUS
  <1>3. p * PerPage \in Nat /\ (p + 1) * PerPage \in Nat
    BY <1>2, PageEnds
  <1>4. A = {x \in webms : Rank(x) < p * PerPage} /\ B = {x \in webms : Rank(x) < (p + 1) * PerPage}
    BY <1>3, TopIsRanked
  <1>5. \A x \in webms : Rank(x) \in Nat
    BY RankTyped DEF Ordered, Listed
  <1> QED
    BY <1>1, <1>3, <1>4, <1>5 DEF Ranks

(***************************************************************************)
(* The list keeps its type and its numbers.                                *)
(***************************************************************************)
LEMMA ListIsOrdered ==
    ASSUME TypeOK
    PROVE  Listed /\ (handler # "by_alias" => Ordered)
PROOF BY DEF TypeOK, Ordered, Listed, Times

(* The next webm is one that never was, the newest of all.                 *)
LEMMA NewWebmIsNew ==
    ASSUME TypeOK, Numbered
    PROVE  /\ Cardinality(webms \cup away) + 1 \notin webms \cup away
           /\ Cardinality(webms \cup away) \in Nat
PROOF
  <1>1. webms \cup away \in SUBSET Number
    BY DEF TypeOK
  <1>2. Cardinality(webms \cup away) \in Nat
    BY <1>1, SomeWebms DEF TypeOK
  <1>3. \A n \in Nat : n + 1 \notin 1..n
    OBVIOUS
  <1>4. Cardinality(webms \cup away) + 1 \notin 1..Cardinality(webms \cup away)
    BY <1>2, <1>3
  <1> QED
    BY <1>2, <1>4, Zenon DEF Numbered

(* The reader stays with its list.                                         *)
LEMMA HandlerKept ==
    ASSUME Next
    PROVE  handler' = handler
PROOF
  BY DEF Next, Change, NewWebm, Unlink, Symlink, Refetch, NewAlias,
         Read, Begin, ShowPage, CountRows, QueryRows, FollowLink, list

(* At the start the webms are those numbered so far.                       *)
LEMMA ListInit ==
    ASSUME Init
    PROVE  ListInv
PROOF
  <1>1. handler \in Handler /\ MaxWebms[handler] \in Nat
    BY DEF Init
  <1>2. TypeOK
    BY <1>1 DEF Init, TypeOK, Times, Number
  <1>3. webms \cup away = {}
    BY DEF Init
  <1>4. Cardinality(webms \cup away) = 0
    BY <1>3, FS_EmptySet
  <1>5. Numbered
    BY <1>3, <1>4 DEF Numbered
  <1>6. NoneNewer
    BY DEF Init, NoneNewer
  <1> QED
    BY <1>2, <1>5, <1>6 DEF ListInv

(* The types are kept by every step.                                       *)
LEMMA TypeStep ==
    ASSUME TypeOK, Numbered, [Next]_vars
    PROVE  TypeOK'
PROOF
  <1>1. handler \in Handler /\ MaxWebms[handler] \in Nat /\ MaxMoves \in Nat
    BY DEF TypeOK
  <1>2. moves' \in 0..MaxMoves /\ handler' = handler
    <2>1. CASE Change
      BY <2>1, <1>1 DEF Change, NewWebm, Unlink, Symlink, Refetch, NewAlias, Moved, TypeOK
    <2>2. CASE Read \/ UNCHANGED vars
      BY <2>2 DEF Read, Begin, ShowPage, CountRows, QueryRows, FollowLink, vars, list, TypeOK
    <2> QED
      BY <2>1, <2>2 DEF Next
  <1>7. tied' \subseteq Number
    <2>1. CASE Change
      <3>1. webms' \subseteq Number
        BY <2>1, <1>1 DEF Change, NewWebm, Unlink, Symlink, Refetch, NewAlias, TypeOK
      <3>2. Ties' \subseteq webms'
        BY DEF Ties
      <3>3. tied' = tied \cup Ties' \/ tied' = tied
        BY <2>1 DEF Change
      <3> QED
        BY <3>1, <3>2, <3>3 DEF TypeOK
    <2>2. CASE Read \/ UNCHANGED vars
      BY <2>2 DEF Read, Begin, ShowPage, CountRows, QueryRows, FollowLink, vars, Ties, TypeOK
    <2> QED
      BY <2>1, <2>2 DEF Next
  <1>3. CASE NewWebm
    <2>1. /\ webms' \subseteq Number /\ webms' \cap away = {}
          /\ clock' \in Times
          /\ time' \in [Number -> Times]
      BY <1>1, <1>3, NewWebmIsNew DEF NewWebm, TypeOK, Times
    <2>2. UNCHANGED <<handler, copies, away, walk>>
      BY <1>3 DEF NewWebm
    <2> QED
      BY <1>2, <1>7, <2>1, <2>2 DEF TypeOK, Times, Number, walk
  <1>4. ASSUME NEW x \in Number, Unlink(x) \/ Symlink(x) PROVE TypeOK'
    <2>1. /\ webms' \subseteq Number /\ away' \subseteq Number /\ webms' \cap away' = {}
          /\ time' \in [Number -> Times]
      BY <1>4 DEF Unlink, Symlink, TypeOK
    <2>2. UNCHANGED <<handler, clock, copies, walk>>
      BY <1>4 DEF Unlink, Symlink
    <2> QED
      BY <1>2, <1>7, <2>1, <2>2 DEF TypeOK, Times, Number, walk
  <1>5. ASSUME NEW x \in Number, Refetch(x) \/ NewAlias(x) PROVE TypeOK'
    <2>1. clock' \in Times /\ time' \in [Number -> Times]
      BY <1>1, <1>5 DEF Refetch, NewAlias, TypeOK, Times
    <2>2. copies' \in [Number -> 0..MaxMoves]
      BY <1>1, <1>5 DEF Refetch, NewAlias, TypeOK
    <2>3. UNCHANGED <<handler, webms, away, walk>>
      BY <1>5 DEF Refetch, NewAlias
    <2> QED
      BY <1>2, <1>7, <2>1, <2>2, <2>3 DEF TypeOK, Times, Number, walk
  <1>6. CASE Read \/ UNCHANGED vars
    <2>1. UNCHANGED list
      BY <1>6 DEF Read, Begin, ShowPage, CountRows, QueryRows, FollowLink, vars
    <2>2. reader' \in {"away", "asks", "counted", "reads", "done"} /\ present' \subseteq Number
      BY <1>6 DEF Read, Begin, ShowPage, CountRows, QueryRows, FollowLink, vars, walk, TypeOK
    <2>3. /\ \A rows \in Rows(page) : rows \subseteq Number /\ Total(rows) \in 0..MaxWebms[handler]
          /\ Cardinality(webms) \in 0..MaxWebms[handler]
      BY <1>1, ListIsOrdered, RowsAreSome, SomeWebms DEF TypeOK
    <2>6. seen' \subseteq Number
      BY <1>6, <2>3 DEF Read, Begin, ShowPage, CountRows, QueryRows, FollowLink, vars, walk, TypeOK
    <2>4. count' \in 0..MaxWebms[handler]
      BY <1>6, <2>3 DEF Read, Begin, ShowPage, CountRows, QueryRows, FollowLink, vars, walk, TypeOK
    <2>5. page' \in Nat
      <3>1. CASE FollowLink
        BY <3>1, <1>1, NextPageTyped DEF FollowLink, TypeOK
      <3>2. CASE ~ FollowLink
        BY <3>2, <1>6 DEF Read, Begin, ShowPage, CountRows, QueryRows, vars, walk, TypeOK
      <3> QED
        BY <3>1, <3>2
    <2> QED
      BY <1>2, <1>7, <2>1, <2>2, <2>4, <2>5, <2>6 DEF TypeOK, Times, Number, list
  <1> QED
    BY <1>3, <1>4, <1>5, <1>6 DEF Next, Change

(* Numbers stay those given so far, and nothing is newer than the newest.  *)
LEMMA NumbersStep ==
    ASSUME TypeOK, Numbered, NoneNewer, [Next]_vars
    PROVE  Numbered' /\ NoneNewer'
PROOF
  <1>1. handler \in Handler /\ MaxWebms[handler] \in Nat
    BY DEF TypeOK
  <1>2. CASE NewWebm
    <2> DEFINE n == Cardinality(webms \cup away)
    <2>1. n \in Nat /\ webms \cup away = 1..n
      BY NewWebmIsNew DEF Numbered
    <2>2. (webms \cup away)' = 1..(n + 1)
      <3>1. webms' = webms \cup {n + 1} /\ away' = away
        BY <1>2 DEF NewWebm
      <3>2. 1..(n + 1) = 1..n \cup {n + 1}
        BY <2>1
      <3> QED
        BY <2>1, <3>1, <3>2, Zenon
    <2>3. Cardinality(1..(n + 1)) = n + 1
      BY <2>1, FS_Interval
    <2>4. Numbered'
      BY <2>2, <2>3 DEF Numbered
    <2>5. NoneNewer'
      <3>1. /\ clock \in Nat /\ time \in [Number -> Nat]
            /\ \A x \in Number : time[x] <= clock
        BY <1>1 DEF NoneNewer, TypeOK, Times
      <3>2. /\ clock' = clock + 1 /\ Number' = Number
            /\ time' = [time EXCEPT ![n + 1] = clock + 1]
        BY <1>2 DEF NewWebm, Number
      <3> HIDE DEF n
      <3>3. \A x \in Number : time'[x] = clock + 1 \/ time'[x] = time[x]
        BY <3>1, <3>2
      <3> QED
        BY <3>1, <3>2, <3>3 DEF NoneNewer
    <2> QED
      BY <2>4, <2>5
  <1>3. ASSUME NEW x \in Number, Unlink(x) \/ Symlink(x) PROVE Numbered' /\ NoneNewer'
    <2>1. (webms \cup away)' = webms \cup away
      BY <1>3 DEF Unlink, Symlink
    <2>2. Numbered'
      BY <2>1 DEF Numbered
    <2>3. NoneNewer'
      <3>1. clock' = clock /\ Number' = Number
        BY <1>3 DEF Unlink, Symlink, Number
      <3>2. webms \subseteq Number /\ time \in [Number -> Times]
        BY DEF TypeOK
      <3>3. CASE Unlink(x)
        BY <3>1, <3>3 DEF Unlink, NoneNewer
      <3>4. CASE Symlink(x)
        <4>1. PICK y \in webms : time' = [time EXCEPT ![x] = time[y]]
          BY <3>4 DEF Symlink
        <4> QED
          BY <3>1, <3>2, <4>1 DEF NoneNewer
      <3> QED
        BY <1>3, <3>3, <3>4
    <2> QED
      BY <2>2, <2>3
  <1>4. ASSUME NEW x \in Number, Refetch(x) \/ NewAlias(x) PROVE Numbered' /\ NoneNewer'
    <2>1. Numbered'
      BY <1>4 DEF Refetch, NewAlias, Numbered
    <2>2. NoneNewer'
      <3>1. clock \in Nat /\ time \in [Number -> Nat] /\ \A y \in Number : time[y] <= clock
        BY <1>1 DEF NoneNewer, TypeOK, Times
      <3>2. CASE Refetch(x)
        <4>1. clock' = clock + 1 /\ time' = [time EXCEPT ![x] = clock + 1] /\ Number' = Number
          BY <3>2 DEF Refetch, Number
        <4>2. \A y \in Number : time'[y] = clock + 1 \/ time'[y] = time[y]
          BY <3>1, <4>1
        <4> QED
          BY <3>1, <4>1, <4>2 DEF NoneNewer
      <3>3. CASE NewAlias(x)
        <4>1. clock' = clock /\ time' = time /\ Number' = Number
          BY <3>3 DEF NewAlias, Number
        <4> QED
          BY <3>1, <4>1 DEF NoneNewer
      <3> QED
        BY <1>4, <3>2, <3>3
    <2> QED
      BY <2>1, <2>2
  <1>5. CASE Read \/ UNCHANGED vars
    <2>1. UNCHANGED list
      BY <1>5 DEF Read, Begin, ShowPage, CountRows, QueryRows, FollowLink, vars
    <2> QED
      BY <2>1 DEF list, Numbered, NoneNewer, Number
  <1> QED
    BY <1>2, <1>3, <1>4, <1>5 DEF Next, Change

(* Webms are those numbered so far in every history, the newest the last   *)
(* of them.                                                                *)
LEMMA ListInvariant == Spec => []ListInv
PROOF
  <1>1. ListInv /\ [Next]_vars => ListInv'
    BY TypeStep, NumbersStep DEF ListInv
  <1> QED
    BY ListInit, <1>1, PTL DEF Spec

(* Type correctness: the pages asked for are numbers, and a page counts no *)
(* more webms than there can be.                                           *)
THEOREM Typing == Spec => []TypeOK
PROOF
  <1>1. ListInv => TypeOK
    BY DEF ListInv
  <1> QED
    BY <1>1, ListInvariant, PTL

(***************************************************************************)
(* What the list does to a reader.  Where nothing that was before a webm   *)
(* leaves, its rank does not fall.                                         *)
(***************************************************************************)
LEMMA RankKept ==
    ASSUME Listed, Listed', handler' = handler, NEW y \in Number,
           \A z \in webms : Before(z, y) => z \in webms' /\ Before(z, y)'
    PROVE  Rank(y) \in Nat /\ Rank(y)' \in Nat /\ Rank(y) <= Rank(y)'
PROOF
  <1> DEFINE S == {z \in webms : Before(z, y)}
             T == {z \in webms' : Before(z, y)'}
  <1>1. T \in SUBSET Number
    BY DEF Listed, Number
  <1>2. S \in SUBSET T
    OBVIOUS
  <1>3. Rank(y) = Cardinality(S) /\ Rank(y)' = Cardinality(T)
    BY DEF Rank
  <1> HIDE DEF S, T
  <1>4. Cardinality(S) \in Nat /\ Cardinality(T) \in Nat /\ Cardinality(S) <= Cardinality(T)
    BY <1>1, <1>2, FewerWebms DEF Listed
  <1> QED
    BY <1>3, <1>4

(* How far the count is behind is a number.                                *)
LEMMA BehindTyped ==
    ASSUME TypeOK
    PROVE  Behind \in Nat
PROOF
  <1>1. page \in Nat /\ page + 1 \in Nat
    BY DEF TypeOK
  <1> QED
    BY <1>1, PageEnds DEF Behind

(* What is lost is a finite set of webms.                                  *)
LEMMA LostTyped ==
    ASSUME TypeOK
    PROVE  Lost \in SUBSET Number /\ Cardinality(Lost) \in Nat
PROOF
  <1>1. Lost \in SUBSET Number
    BY DEF Lost, TypeOK
  <1> QED
    BY <1>1, SomeWebms DEF TypeOK

(* A webm that comes, or comes back, takes no other one past the reader.   *)
LEMMA NoneIsLost ==
    ASSUME ListInv, TypeOK', handler # "by_alias",
           NewWebm \/ \E x \in Number : Symlink(x)
    PROVE  Lost' \subseteq Lost
PROOF
  <1>1. PICK x \in Number : /\ x \notin webms /\ webms' = webms \cup {x}
                            /\ \A z \in Number \ {x} : time'[z] = time[z]
                            /\ UNCHANGED <<handler, copies, walk>>
    <2>1. CASE NewWebm
      <3> DEFINE x == Cardinality(webms \cup away) + 1
      <3>1. x \in Number /\ x \notin webms
        BY <2>1, NewWebmIsNew DEF NewWebm, ListInv
      <3>2. webms' = webms \cup {x} /\ UNCHANGED <<handler, copies, walk>>
        BY <2>1 DEF NewWebm
      <3>3. \A z \in Number \ {x} : time'[z] = time[z]
        BY <2>1 DEF NewWebm, ListInv, TypeOK
      <3> HIDE DEF x
      <3> QED
        BY <3>1, <3>2, <3>3
    <2>2. CASE \E x \in Number : Symlink(x)
      BY <2>2 DEF Symlink, ListInv, TypeOK
    <2> QED
      BY <2>1, <2>2
  <1>2. TypeOK /\ Ordered /\ Ordered'
    BY <1>1, ListIsOrdered DEF ListInv, TypeOK, Ordered, Listed, Times
  <1>3. Behind' = Behind /\ present' = present /\ seen' = seen
    BY <1>1 DEF Behind, walk
  <1>4. \A y \in webms : Rank(y) \in Nat /\ Rank(y)' \in Nat /\ Rank(y) <= Rank(y)'
    <2> SUFFICES ASSUME NEW y \in webms
                 PROVE  Rank(y) \in Nat /\ Rank(y)' \in Nat /\ Rank(y) <= Rank(y)'
      OBVIOUS
    <2>1. \A z \in webms : Before(z, y) => z \in webms' /\ Before(z, y)'
      BY <1>1, <1>2 DEF Before, Newer, ByAlias, TypeOK
    <2>2. y \in Number
      BY <1>2 DEF Ordered, Listed
    <2> QED
      BY <1>1, <1>2, <2>1, <2>2, RankKept DEF Ordered
  <1>5. Behind \in Nat
    BY <1>2, BehindTyped
  <1> QED
    BY <1>1, <1>3, <1>4, <1>5 DEF Lost

(* A webm that moves to the top, or up the list, may take itself there.    *)
LEMMA MoverIsLost ==
    ASSUME ListInv, TypeOK', handler # "by_alias", NEW x \in Number, Refetch(x) \/ NewAlias(x)
    PROVE  Lost' \subseteq Lost \cup {x}
PROOF
  <1>1. webms' = webms /\ UNCHANGED <<handler, walk>>
    BY DEF Refetch, NewAlias
  <1>2. TypeOK /\ Ordered /\ Ordered'
    BY <1>1, ListIsOrdered DEF ListInv, TypeOK, Ordered, Listed, Times
  <1>3. Behind' = Behind /\ present' = present /\ seen' = seen
    BY <1>1 DEF Behind, walk
  <1>4. \A y \in webms \ {x} : \A z \in webms : Before(z, y) => Before(z, y)'
    <2> SUFFICES ASSUME NEW y \in webms \ {x}, NEW z \in webms, Before(z, y) PROVE Before(z, y)'
      OBVIOUS
    <2>1. y \in Number /\ z \in Number /\ Number \subseteq Nat
      BY <1>2, NumberFinite DEF Ordered, Listed, Number
    <2>2. CASE Refetch(x)
      <3>1. ~ ByAlias /\ ~ ByAlias' /\ time' = [time EXCEPT ![x] = clock + 1]
        BY <2>2, <1>1 DEF Refetch, ByAlias
      <3>2. time[y] \in Nat /\ time[z] \in Nat /\ clock \in Nat /\ time[y] <= clock
        BY <2>1, <1>2 DEF Ordered, Listed, ListInv, NoneNewer, TypeOK, Times
      <3>3. time'[y] = time[y] /\ time'[z] = IF z = x THEN clock + 1 ELSE time[z]
        BY <2>1, <3>1, <1>2 DEF Ordered, Listed
      <3>4. Newer(z, y)
        BY <3>1, <1>2 DEF Before, ByAlias, Ordered
      <3>5. Newer(z, y)'
        BY <2>1, <3>2, <3>3, <3>4 DEF Newer
      <3> QED
        BY <3>1, <3>5 DEF Before, ByAlias
    <2>3. CASE NewAlias(x)
      <3>1. handler = "popular" /\ handler' = "popular" /\ copies' = [copies EXCEPT ![x] = @ + 1] /\ time' = time
        BY <2>3, <1>1, <1>2 DEF NewAlias, ByAlias, Ordered
      <3>2. copies[y] \in Nat /\ copies[z] \in Nat
        BY <2>1, <1>2 DEF Ordered, Listed
      <3>3. copies'[y] = copies[y] /\ copies'[z] = IF z = x THEN copies[z] + 1 ELSE copies[z]
        BY <2>1, <3>1, <1>2 DEF Ordered, Listed
      <3>4. copies[z] > copies[y] \/ (copies[z] = copies[y] /\ Newer(z, y))
        BY <3>1 DEF Before, ByAlias
      <3>5. Newer(z, y)' <=> Newer(z, y)
        BY <3>1 DEF Newer
      <3>6. copies'[z] > copies'[y] \/ (copies'[z] = copies'[y] /\ Newer(z, y)')
        BY <3>2, <3>3, <3>4, <3>5
      <3> QED
        BY <3>1, <3>6 DEF Before, ByAlias
    <2> QED
      BY <2>2, <2>3
  <1>5. \A y \in webms \ {x} : Rank(y) \in Nat /\ Rank(y)' \in Nat /\ Rank(y) <= Rank(y)'
    <2> SUFFICES ASSUME NEW y \in webms \ {x}
                 PROVE  Rank(y) \in Nat /\ Rank(y)' \in Nat /\ Rank(y) <= Rank(y)'
      OBVIOUS
    <2>1. \A z \in webms : Before(z, y) => z \in webms' /\ Before(z, y)'
      BY <1>1, <1>4
    <2>2. y \in Number
      BY <1>2 DEF Ordered, Listed
    <2> QED
      BY <1>1, <1>2, <2>1, <2>2, RankKept DEF Ordered
  <1>6. Behind \in Nat
    BY <1>2, BehindTyped
  <1> QED
    BY <1>1, <1>3, <1>5, <1>6 DEF Lost

(* A webm that goes is lost itself, or lets one behind it pass.            *)
LEMMA OneIsLost ==
    ASSUME ListInv, TypeOK', handler # "by_alias", NEW x \in Number, Unlink(x)
    PROVE  \E w \in Number : Lost' \subseteq Lost \cup {w}
PROOF
  <1>1. x \in webms /\ webms' = webms \ {x} /\ UNCHANGED <<handler, time, copies, walk>>
    BY DEF Unlink
  <1>2. TypeOK /\ Ordered /\ Ordered'
    BY <1>1, ListIsOrdered DEF ListInv, TypeOK, Ordered, Listed, Times
  <1>3. Behind' = Behind /\ present' = present /\ seen' = seen /\ Behind \in Nat
    BY <1>1, <1>2, BehindTyped DEF Behind, walk
  <1>4. \A y, z : Before(z, y)' <=> Before(z, y)
    BY <1>1 DEF Before, Newer, ByAlias
  <1>5. ASSUME NEW y \in webms, y # x
        PROVE  /\ Rank(y) \in Nat /\ Rank(y)' \in Nat /\ Rank(y) <= Rank(y)' + 1
               /\ ~ Before(x, y) => Rank(y) <= Rank(y)'
    <2> DEFINE S == {z \in webms : Before(z, y)}
               T == {z \in webms' : Before(z, y)'}
    <2>1. T \in SUBSET Number /\ S \in SUBSET Number /\ handler \in Handler
      BY <1>1, <1>2 DEF Ordered, Listed, Number
    <2>2. S \subseteq T \cup {x}
      BY <1>1, <1>4
    <2>3. ~ Before(x, y) => S \subseteq T
      BY <1>1, <1>4
    <2>4. Rank(y) = Cardinality(S) /\ Rank(y)' = Cardinality(T)
      BY DEF Rank
    <2> HIDE DEF S, T
    <2>5. /\ Cardinality(S) \in Nat /\ Cardinality(T) \in Nat
          /\ Cardinality(S) <= Cardinality(T) + 1
      BY <2>1, <2>2, OneMore
    <2>6. ~ Before(x, y) => Cardinality(S) <= Cardinality(T)
      BY <2>1, <2>3, FewerWebms
    <2> QED
      BY <2>4, <2>5, <2>6
  <1>6. Rank(x) \in Nat
    BY <1>2, RankTyped DEF Ordered, Listed
  <1>7. ASSUME NEW y \in Lost', y \notin Lost, y # x
        PROVE  y \in webms /\ Rank(y) = Behind /\ Before(x, y)
    <2>1. y \in present \ seen /\ y \in webms /\ ~ (Rank(y) < Behind)
      BY <1>3, <1>7 DEF Lost
    <2>2. y \in webms'
      BY <1>1, <1>7, <2>1
    <2>3. Rank(y)' < Behind
      BY <1>3, <1>7, <2>2 DEF Lost
    <2> QED
      BY <1>3, <1>5, <1>7, <2>1, <2>3
  <1>8. CASE Rank(x) < Behind /\ \E w \in webms : Rank(w) = Behind
    <2>1. PICK w \in webms : Rank(w) = Behind
      BY <1>8
    <2>2. \A y \in webms : Rank(y) = Behind => y = w
      BY <1>2, <2>1, RankIsUnique
    <2>3. x \in Lost' => x \in Lost
      <3>1. x \in Lost' => x \in present \ seen
        BY <1>3 DEF Lost
      <3> QED
        BY <1>8, <3>1 DEF Lost
    <2>4. Lost' \subseteq Lost \cup {w}
      BY <1>7, <2>2, <2>3
    <2>5. w \in Number
      BY <1>2 DEF Ordered, Listed
    <2> QED
      BY <2>4, <2>5
  <1>9. CASE Rank(x) < Behind /\ ~ \E w \in webms : Rank(w) = Behind
    BY <1>7, <1>9
  <1>10. CASE ~ (Rank(x) < Behind)
    <2>1. \A y \in webms : Before(x, y) => Rank(x) < Rank(y)
      BY <1>1, <1>2, RankIsOrder DEF Ordered, Listed
    <2>2. Lost' \subseteq Lost \cup {x}
      BY <1>3, <1>6, <1>7, <1>10, <2>1
    <2> QED
      BY <2>2
  <1> QED
    BY <1>8, <1>9, <1>10

(* Whatever the list does, then, it costs the reader no more than it moved.*)
LEMMA LostByChange ==
    ASSUME ListInv, TypeOK', handler # "by_alias", Change
    PROVE  /\ Cardinality(Lost)' \in Nat
           /\ Cardinality(Lost)' <= Cardinality(Lost) + 1
           /\ NewWebm => Cardinality(Lost)' <= Cardinality(Lost)
           /\ (\E x \in Number : Symlink(x)) => Cardinality(Lost)' <= Cardinality(Lost)
PROOF
  <1>1. Lost \in SUBSET Number /\ Cardinality(Lost) \in Nat /\ handler \in Handler
    BY LostTyped DEF ListInv, TypeOK
  <1>2. CASE NewWebm \/ \E x \in Number : Symlink(x)
    <2>1. Lost' \in SUBSET Lost
      BY <1>2, NoneIsLost
    <2>2. Cardinality(Lost') \in Nat /\ Cardinality(Lost') <= Cardinality(Lost)
      BY <1>1, <2>1, FewerWebms
    <2> QED
      BY <1>1, <2>2
  <1>3. CASE ~ (NewWebm \/ \E x \in Number : Symlink(x))
    <2>1. PICK w \in Number : Lost' \subseteq Lost \cup {w}
      BY <1>3, MoverIsLost, OneIsLost DEF Change
    <2>2. Cardinality(Lost') \in Nat /\ Cardinality(Lost') <= Cardinality(Lost) + 1
      BY <1>1, <2>1, OneMore
    <2> QED
      BY <1>3, <2>2
  <1> QED
    BY <1>2, <1>3

(***************************************************************************)
(* The walk while the list changes.                                        *)
(***************************************************************************)
LEMMA WalkInit ==
    ASSUME Init
    PROVE  WalkInv
PROOF BY DEF Init, WalkInv, LostMoved, CountIsStale, LastPage, MissesOnlyWhatMoved

(* A move loses one webm at most.                                          *)
LEMMA WalkByChange ==
    ASSUME ListInv, ListInv', WalkInv, handler # "by_alias", Change
    PROVE  WalkInv'
PROOF
  <1>1. /\ TypeOK /\ TypeOK' /\ handler' = handler /\ reader # "done"
        /\ UNCHANGED walk
    BY DEF ListInv, Change, NewWebm, Unlink, Symlink, Refetch, NewAlias
  <1>2. UNCHANGED <<handler, reader, page, count, present, seen>>
    BY <1>1 DEF walk
  <1>3. /\ Cardinality(Lost) \in Nat /\ Cardinality(Lost)' \in Nat
        /\ Cardinality(Lost)' <= Cardinality(Lost) + 1
        /\ NewWebm \/ (\E x \in Number : Symlink(x)) => Cardinality(Lost)' <= Cardinality(Lost)
    BY <1>1, LostTyped, LostByChange
  <1>4. moves \in Nat /\ moves' \in Nat
    BY <1>1 DEF TypeOK
  <1>5. ~ NewWebm /\ reader \in {"asks", "counted", "reads"} => moves' = moves + 1
    BY DEF Change, Unlink, Symlink, Refetch, NewAlias, Moved, Reading
  <1>6. NewWebm => moves' = IF reader = "counted" THEN moves + 1 ELSE moves
    BY DEF NewWebm, Moved, Reading
  <1>7. LostMoved'
    BY <1>2, <1>3, <1>4, <1>5, <1>6 DEF LostMoved, WalkInv
  <1>8. CountIsStale'
    <2> SUFFICES ASSUME reader = "counted" PROVE CountIsStale'
      BY <1>2 DEF CountIsStale
    <2>1. /\ Flask /\ count \in Nat /\ count <= Cardinality(webms)
          /\ Cardinality(Lost) + (Cardinality(webms) - count) <= moves
      BY <1>1 DEF WalkInv, CountIsStale, TypeOK
    <2>2. IsFiniteSet(webms) /\ Cardinality(webms) \in Nat
      BY <1>1, SomeWebms DEF TypeOK
    <2>3. CASE NewWebm \/ \E x \in Number : Symlink(x)
      <3>1. PICK x : webms' = webms \cup {x}
        BY <2>3 DEF NewWebm, Symlink
      <3>2. /\ Cardinality(webms') \in Nat /\ Cardinality(webms') <= Cardinality(webms) + 1
            /\ Cardinality(webms) <= Cardinality(webms')
        <4>1. CASE x \in webms
          <5>1. webms' = webms
            BY <3>1, <4>1
          <5> QED
            BY <2>2, <5>1
        <4>2. CASE x \notin webms
          <5>1. Cardinality(webms \cup {x}) = Cardinality(webms) + 1
            BY <2>2, <4>2, FS_AddElement
          <5> QED
            BY <2>2, <3>1, <5>1
        <4> QED
          BY <4>1, <4>2
      <3>3. moves' = moves + 1
        BY <1>5, <1>6
      <3> QED
        BY <1>1, <1>2, <1>3, <1>4, <2>1, <2>2, <2>3, <3>2, <3>3 DEF CountIsStale, Flask
    <2>4. CASE \E x \in Number : NewAlias(x)
      <3>1. webms' = webms /\ moves' = moves + 1
        BY <2>4 DEF NewAlias, Moved, Reading
      <3> QED
        BY <1>1, <1>2, <1>3, <1>4, <2>1, <2>2, <3>1 DEF CountIsStale, Flask
    <2>5. CASE \E x \in Number : Unlink(x) \/ Refetch(x)
      BY <2>1, <2>5 DEF Unlink, Refetch, Flask
    <2> QED
      BY <2>3, <2>4, <2>5 DEF Change
  <1>9. LastPage'
    <2>1. NextPage(page, count)' = NextPage(page, count)
      BY <1>1, <1>2 DEF NextPage, Flask, NextOfBoard, NextOfView
    <2>2. moves <= moves'
      BY <1>4, <1>5, <1>6 DEF Change, Moved, NewWebm, Unlink, Symlink, Refetch, NewAlias
    <2>3. Cardinality(present \ seen) \in Nat
      BY <1>1, SomeWebms DEF TypeOK
    <2>4. (present \ seen)' = present \ seen
      BY <1>2
    <2> QED
      BY <1>2, <1>4, <2>1, <2>2, <2>3, <2>4 DEF LastPage, WalkInv
  <1>10. MissesOnlyWhatMoved'
    BY <1>1, <1>2 DEF MissesOnlyWhatMoved
  <1> QED
    BY <1>7, <1>8, <1>9, <1>10 DEF WalkInv

(***************************************************************************)
(* The walk while the reader reads.                                        *)
(***************************************************************************)
(* What a page leaves unseen is behind it, or below it.                    *)
LEMMA PageLeaves ==
    ASSUME ListInv, handler # "by_alias", reader \in {"asks", "counted"}
    PROVE  /\ Cardinality(Lost) \in Nat /\ Cardinality(Below((page + 1) * PerPage)) \in Nat
           /\ Cardinality(present \ (seen \cup Ranks(page)))
                <= Cardinality(Lost) + Cardinality(Below((page + 1) * PerPage))
PROOF
  <1> DEFINE B == Below((page + 1) * PerPage)
             U == present \ (seen \cup Ranks(page))
  <1>1. TypeOK /\ Ordered /\ page \in Nat /\ handler \in Handler /\ webms \subseteq Number
    BY ListIsOrdered DEF ListInv, TypeOK
  <1>2. /\ B \in SUBSET Number /\ U \in SUBSET Number
        /\ Lost \in SUBSET Number
    BY <1>1, LostTyped DEF Below, TypeOK
  <1>3. U \subseteq Lost \cup B
    <2> SUFFICES ASSUME NEW x \in U, x \in webms, x \notin Lost PROVE x \in B
      BY DEF Lost
    <2>1. Rank(x) \in Nat /\ page * PerPage \in Nat /\ (page + 1) * PerPage \in Nat
      BY <1>1, RankTyped, PageEnds DEF Ordered, Listed
    <2>2. ~ (Rank(x) < page * PerPage)
      BY DEF Lost, Behind
    <2>3. x \notin Ranks(page)
      OBVIOUS
    <2>4. ~ (Rank(x) < (page + 1) * PerPage)
      BY <2>1, <2>2, <2>3 DEF Ranks
    <2> QED
      BY <2>1, <2>4 DEF Below
  <1> HIDE DEF B, U
  <1>4. /\ IsFiniteSet(Lost) /\ IsFiniteSet(B)
        /\ Cardinality(Lost) \in Nat /\ Cardinality(B) \in Nat
    BY <1>1, <1>2, SomeWebms
  <1>5. Lost \cap B \in SUBSET Number /\ Lost \cup B \in SUBSET Number
    BY <1>2
  <1>6. Cardinality(Lost \cap B) \in Nat
    BY <1>1, <1>5, SomeWebms
  <1>7. Cardinality(Lost \cup B) = Cardinality(Lost) + Cardinality(B) - Cardinality(Lost \cap B)
    BY <1>4, FS_Union
  <1>8. Cardinality(U) \in Nat /\ Cardinality(U) <= Cardinality(Lost \cup B)
    BY <1>1, <1>3, <1>5, FewerWebms
  <1>9. Cardinality(U) <= Cardinality(Lost) + Cardinality(B)
    BY <1>4, <1>6, <1>7, <1>8
  <1> QED
    BY <1>4, <1>9 DEF B, U

(* Below the page of a board whose link leads to no later page there is    *)
(* nothing.                                                                *)
LEMMA LastBoardPage ==
    ASSUME ListInv, handler # "by_alias", ~ Flask, NextPage(page, Cardinality(webms)) <= page
    PROVE  Below((page + 1) * PerPage) = {}
PROOF
  <1> DEFINE n == Cardinality(webms)
             k == (page + 1) * PerPage
             q == n \div PerPage
  <1>1. Ordered /\ page \in Nat /\ n \in Nat /\ PerPage \in Nat \ {0}
    BY ListIsOrdered, SomeWebms, NumberFinite DEF ListInv, TypeOK
  <1>2. q \in Nat /\ n < (q + 1) * PerPage /\ q <= page
    BY <1>1, FullPages DEF NextPage, NextOfBoard
  <1> HIDE DEF q
  <1>3. (q + 1) * PerPage <= k /\ (q + 1) * PerPage \in Nat /\ k \in Nat
    BY <1>1, <1>2, PageEnds
  <1>4. n <= k
    BY <1>1, <1>2, <1>3
  <1> HIDE DEF k
  <1> QED
    BY <1>1, <1>3, <1>4, BelowIsTheRest DEF k

(* What a Flask page without a link leaves below it came after the count.  *)
LEMMA LastViewPage ==
    ASSUME ListInv, Flask, count <= Cardinality(webms), NextPage(page, count) <= page
    PROVE  Cardinality(Below((page + 1) * PerPage)) <= Cardinality(webms) - count
PROOF
  <1> DEFINE n == Cardinality(webms)
             k == (page + 1) * PerPage
  <1>1. /\ TypeOK /\ Ordered /\ page \in Nat /\ count \in Nat
        /\ n \in Nat /\ PerPage \in Nat \ {0}
    BY ListIsOrdered, SomeWebms, NumberFinite DEF ListInv, TypeOK, Flask
  <1>2. count \div PerPage <= page /\ count \div PerPage \in Nat
    BY <1>1, FullPages DEF NextPage, NextOfView
  <1>3. k \in Nat /\ count < k
    <2> DEFINE q == count \div PerPage
    <2>1. q \in Nat /\ q <= page /\ count < (q + 1) * PerPage
      BY <1>1, <1>2, FullPages
    <2> HIDE DEF q
    <2>2. (q + 1) * PerPage <= k /\ (q + 1) * PerPage \in Nat /\ k \in Nat
      BY <1>1, <2>1, PageEnds
    <2> QED
      BY <1>1, <2>1, <2>2
  <1>4. CASE n <= k
    <2>1. Below(k) = {}
      BY <1>1, <1>3, <1>4, BelowIsTheRest
    <2> HIDE DEF k
    <2>2. Cardinality(Below(k)) = 0
      BY <2>1, FS_EmptySet
    <2> QED
      BY <1>1, <2>2 DEF k
  <1>5. CASE n > k
    <2>1. Cardinality(Below(k)) = n - k
      BY <1>1, <1>3, <1>5, BelowIsTheRest
    <2> QED
      BY <1>1, <1>3, <2>1
  <1> QED
    BY <1>1, <1>3, <1>4, <1>5

(* The reader loses nothing by following a link.                           *)
LEMMA WalkByReader ==
    ASSUME ListInv, ListInv', WalkInv, handler # "by_alias", Read
    PROVE  WalkInv'
PROOF
  <1>1. /\ TypeOK /\ TypeOK' /\ Ordered /\ page \in Nat /\ count \in Nat /\ moves \in Nat
        /\ handler \in Handler
    BY ListIsOrdered DEF ListInv, TypeOK
  <1>2. UNCHANGED list /\ handler' = handler /\ (~ Begin => moves' = moves)
    BY DEF Read, Begin, ShowPage, CountRows, QueryRows, FollowLink, list
  <1>3. /\ \A x : Rank(x)' = Rank(x)
        /\ webms' = webms /\ (Flask' <=> Flask)
        /\ \A p, n : NextPage(p, n)' = NextPage(p, n)
    BY <1>2 DEF list, Rank, Before, Newer, ByAlias, Flask, NextPage, NextOfBoard, NextOfView
  <1>4. Cardinality(Lost) \in Nat /\ Cardinality(Lost') \in Nat /\ Lost \in SUBSET Number
    <2>1. Lost' \in SUBSET Number
      BY <1>1, <1>2 DEF list, Lost, TypeOK, Number
    <2> QED
      BY <1>1, <2>1, LostTyped, SomeWebms
  <1>5. Lost' \subseteq Lost => Cardinality(Lost') <= Cardinality(Lost)
    BY <1>1, <1>4, FewerWebms
  <1>6. \A x \in webms : Rank(x) \in Nat
    BY <1>1, RankTyped DEF Ordered, Listed
  <1>7. CASE Begin
    <2>1. page' = 0 /\ reader' = "asks" /\ present' = webms /\ moves' = 0
      BY <1>7 DEF Begin
    <2>2. Behind' = 0
      BY <1>1, <2>1 DEF Behind
    <2>3. Lost' = {}
      BY <1>3, <1>6, <2>1, <2>2 DEF Lost
    <2>4. Cardinality(Lost') <= moves'
      BY <1>1, <1>2, <2>1, <2>3, FS_EmptySet
    <2> QED
      BY <2>1, <2>4 DEF WalkInv, LostMoved, CountIsStale, LastPage, MissesOnlyWhatMoved
  <1>8. CASE ShowPage
    <2>1. /\ reader = "asks" /\ ~ Flask /\ reader' = "reads"
          /\ count' = Cardinality(webms) /\ seen' = seen \cup Ranks(page)
          /\ page' = page /\ present' = present /\ moves' = moves
      BY <1>1, <1>8, RowsAreRanked DEF ShowPage, Total
    <2>2. Cardinality(Lost) <= moves
      BY <2>1 DEF WalkInv, LostMoved
    <2>3. Lost' \subseteq Lost
      <3>1. Behind = page * PerPage /\ Behind' = (page + 1) * PerPage
        BY <2>1 DEF Behind
      <3>2. page * PerPage \in Nat /\ (page + 1) * PerPage \in Nat
        BY <1>1, PageEnds
      <3>3. \A x \in webms \ Ranks(page) : Rank(x) < (page + 1) * PerPage => Rank(x) < page * PerPage
        BY <1>6, <3>2 DEF Ranks
      <3> QED
        BY <1>3, <2>1, <3>1, <3>3 DEF Lost
    <2>4. LastPage'
      <3> SUFFICES ASSUME NextPage(page, Cardinality(webms)) <= page
                   PROVE  Cardinality(present \ (seen \cup Ranks(page))) <= moves
        BY <1>2, <1>3, <2>1 DEF LastPage
      <3>1. Cardinality(Below((page + 1) * PerPage)) = 0
        BY <2>1, LastBoardPage, FS_EmptySet
      <3>2. /\ Cardinality(Below((page + 1) * PerPage)) \in Nat
            /\ Cardinality(present \ (seen \cup Ranks(page)))
                 <= Cardinality(Lost) + Cardinality(Below((page + 1) * PerPage))
        BY <2>1, PageLeaves
      <3>3. Cardinality(present \ (seen \cup Ranks(page))) \in Nat
        BY <1>1, SomeWebms DEF TypeOK
      <3> QED
        BY <1>1, <1>4, <2>2, <3>1, <3>2, <3>3
    <2> QED
      BY <1>1, <1>2, <1>4, <1>5, <2>1, <2>2, <2>3, <2>4
      DEF WalkInv, LostMoved, CountIsStale, MissesOnlyWhatMoved
  <1>9. CASE CountRows
    <2>1. /\ reader = "asks" /\ Flask /\ reader' = "counted"
          /\ count' = Cardinality(webms) /\ moves' = moves /\ UNCHANGED <<page, present, seen>>
      BY <1>9 DEF CountRows
    <2>2. Cardinality(Lost) <= moves
      BY <2>1 DEF WalkInv, LostMoved
    <2>3. Lost' \subseteq Lost
      BY <1>3, <2>1 DEF Lost, Behind
    <2>4. count' = Cardinality(webms)
      BY <2>1
    <2>5. Cardinality(webms) \in Nat
      BY <1>1, SomeWebms DEF TypeOK
    <2>6. CountIsStale'
      BY <1>1, <1>2, <1>3, <1>4, <1>5, <2>1, <2>2, <2>3, <2>4, <2>5 DEF CountIsStale
    <2> QED
      BY <2>1, <2>6 DEF WalkInv, LostMoved, LastPage, MissesOnlyWhatMoved
  <1>10. CASE QueryRows
    <2>1. /\ reader = "counted" /\ reader' = "reads"
          /\ seen' = seen \cup Ranks(page)
          /\ page' = page /\ present' = present /\ count' = count /\ moves' = moves
      BY <1>1, <1>10, RowsAreRanked DEF QueryRows
    <2>2. /\ Flask /\ count <= Cardinality(webms)
          /\ Cardinality(Lost) + (Cardinality(webms) - count) <= moves
      BY <2>1 DEF WalkInv, CountIsStale
    <2>3. Cardinality(webms) \in Nat
      BY <1>1, SomeWebms DEF TypeOK
    <2>4. Lost' \subseteq Lost
      <3>1. Behind = page * PerPage /\ Behind' = (page + 1) * PerPage
        BY <2>1 DEF Behind
      <3>2. page * PerPage \in Nat /\ (page + 1) * PerPage \in Nat
        BY <1>1, PageEnds
      <3>3. \A x \in webms \ Ranks(page) : Rank(x) < (page + 1) * PerPage => Rank(x) < page * PerPage
        BY <1>6, <3>2 DEF Ranks
      <3> QED
        BY <1>3, <2>1, <3>1, <3>3 DEF Lost
    <2>5. LastPage'
      <3> SUFFICES ASSUME NextPage(page, count) <= page
                   PROVE  Cardinality(present \ (seen \cup Ranks(page))) <= moves
        BY <1>2, <1>3, <2>1 DEF LastPage
      <3>1. Cardinality(Below((page + 1) * PerPage)) <= Cardinality(webms) - count
        BY <2>2, LastViewPage
      <3>2. /\ Cardinality(Below((page + 1) * PerPage)) \in Nat
            /\ Cardinality(present \ (seen \cup Ranks(page)))
                 <= Cardinality(Lost) + Cardinality(Below((page + 1) * PerPage))
        BY <2>1, PageLeaves
      <3>3. Cardinality(present \ (seen \cup Ranks(page))) \in Nat
        BY <1>1, SomeWebms DEF TypeOK
      <3> QED
        BY <1>1, <1>4, <2>2, <2>3, <3>1, <3>2, <3>3
    <2>6. LostMoved'
      BY <1>1, <1>2, <1>4, <1>5, <2>1, <2>2, <2>3, <2>4 DEF LostMoved
    <2> QED
      BY <2>1, <2>5, <2>6 DEF WalkInv, CountIsStale, MissesOnlyWhatMoved
  <1>11. CASE FollowLink
    <2>1. /\ reader = "reads" /\ page' = NextPage(page, count)
          /\ reader' = IF page' > page THEN "asks" ELSE "done"
          /\ moves' = moves /\ UNCHANGED <<count, present, seen>>
      BY <1>11 DEF FollowLink
    <2>2. Cardinality(Lost) <= moves
      BY <2>1 DEF WalkInv, LostMoved
    <2>3. Lost' \subseteq Lost
      <3>1. page' \in Nat /\ page' <= page + 1
        BY <1>1, <2>1, NextPageTyped
      <3>2. Behind = (page + 1) * PerPage /\ Behind' = page' * PerPage
        BY <2>1 DEF Behind
      <3>3. \A q \in Nat : q <= page + 1 =>
              /\ q * PerPage \in Nat /\ (page + 1) * PerPage \in Nat
              /\ q * PerPage <= (page + 1) * PerPage
        <4>1. page + 1 \in Nat
          BY <1>1
        <4> QED
          BY <4>1, PageEnds
      <3>4. Behind \in Nat /\ Behind' \in Nat /\ Behind' <= Behind
        BY <3>1, <3>2, <3>3
      <3> QED
        BY <1>3, <1>6, <2>1, <3>4 DEF Lost
    <2>4. LostMoved'
      BY <1>1, <1>2, <1>4, <1>5, <2>1, <2>2, <2>3 DEF LostMoved
    <2>5. MissesOnlyWhatMoved'
      BY <1>1, <1>2, <1>3, <2>1, NextPageTyped DEF WalkInv, LastPage, MissesOnlyWhatMoved
    <2> QED
      BY <2>1, <2>4, <2>5 DEF WalkInv, CountIsStale, LastPage
  <1> QED
    BY <1>7, <1>8, <1>9, <1>10, <1>11 DEF Read

(* However many webms are added on top, and whatever lies on a page and    *)
(* however many pages there are, the reader who follows the links of a     *)
(* list with a complete order misses in each round at most one webm for    *)
(* each that moved meanwhile.                                              *)
THEOREM ReadersMissWhatMoved == Spec => []MissesOnlyWhatMoved
PROOF
  <1>1. ListInv /\ ListInv' /\ WalkInv /\ [Next]_vars => WalkInv'
    <2> SUFFICES ASSUME ListInv, ListInv', WalkInv, [Next]_vars PROVE WalkInv'
      OBVIOUS
    <2>1. CASE UNCHANGED vars
      BY <2>1 DEF vars, list, walk, WalkInv, LostMoved, CountIsStale, LastPage, MissesOnlyWhatMoved,
                  Lost, Behind, Rank, Before, Newer, ByAlias, Flask, NextPage, NextOfBoard, NextOfView
    <2>2. CASE Next /\ handler = "by_alias"
      <3>1. handler' = "by_alias"
        BY <2>2, HandlerKept
      <3> QED
        BY <3>1 DEF WalkInv, LostMoved, CountIsStale, LastPage, MissesOnlyWhatMoved
    <2> QED
      BY <2>1, <2>2, WalkByChange, WalkByReader DEF Next
  <1>2. WalkInv => MissesOnlyWhatMoved
    BY DEF WalkInv
  <1> QED
    BY <1>1, <1>2, WalkInit, ListInvariant, PTL DEF Spec

(***************************************************************************)
(* The C list by popularity.  Of the webms that have tied with none since  *)
(* the round began, those the reader has not seen are still ahead of it,   *)
(* whichever way the others were ordered.                                  *)
(***************************************************************************)
Unseen == present \ (seen \cup tied)

NotCounted == reader # "counted"

TiesNoted == reader \in {"asks", "reads"} => Ties \subseteq tied

StillAhead == reader \in {"asks", "reads"} => \A x \in Unseen : x \in webms /\ Rank(x) >= Behind

FullPage == reader = "reads" /\ Unseen # {} => count = PerPage

TiedInv ==
    handler = "by_alias" => NotCounted /\ TiesNoted /\ StillAhead /\ FullPage /\ MissesOnlyTied

(* At the start there is nothing to see.                                   *)
LEMMA TiedInit ==
    ASSUME Init
    PROVE  TiedInv
PROOF BY DEF Init, TiedInv, NotCounted, TiesNoted, StillAhead, FullPage, MissesOnlyTied

(* A webm that ties with none is on the pages its rank says, although the  *)
(* others of those pages may be in any order.                              *)
LEMMA UntiedIsRanked ==
    ASSUME Listed, handler = "by_alias", NEW x \in webms \ Ties, NEW n \in Nat, NEW F \in Top(n)
    PROVE  /\ Rank(x) \in Nat
           /\ x \in F => Rank(x) < n
           /\ x \notin F => Rank(x) >= n /\ Cardinality(F) = n
PROOF
  <1> DEFINE N == Cardinality(webms)
             S == {y \in webms : Before(y, x)}
  <1>1. /\ F \in SUBSET webms /\ Cardinality(F) = IF n < N THEN n ELSE N
        /\ \A z \in F, y \in webms \ F : ~ Before(y, z)
    BY DEF Top
  <1>2. /\ webms \in SUBSET Number /\ F \in SUBSET Number /\ S \in SUBSET Number
        /\ handler \in Handler /\ N \in Nat
    BY <1>1, SomeWebms DEF Listed
  <1>3. Rank(x) = Cardinality(S) /\ Rank(x) \in Nat
    BY <1>2, RankTyped DEF Rank
  <1>4. /\ \A y : Before(y, x) <=> copies[y] > copies[x]
        /\ \A y : Before(x, y) <=> copies[x] > copies[y]
    BY DEF Before, ByAlias
  <1>5. \A y \in webms \ {x} : copies[y] # copies[x]
    BY DEF Ties
  <1>6. \A y \in webms : copies[y] \in Nat
    BY DEF Listed
  <1>7. CASE x \in F
    <2>1. S \in SUBSET F /\ x \notin S
      BY <1>1, <1>4, <1>6, <1>7
    <2> HIDE DEF S
    <2>2. Cardinality(S) \in Nat /\ Cardinality(F) \in Nat /\ Cardinality(S) < Cardinality(F)
      BY <1>2, <1>7, <2>1, FewerWebms
    <2> QED
      BY <1>1, <1>2, <1>3, <1>7, <2>2
  <1>8. CASE x \notin F
    <2>1. F \in SUBSET S
      BY <1>1, <1>4, <1>5, <1>6, <1>8
    <2> HIDE DEF S
    <2>2. Cardinality(F) \in Nat /\ Cardinality(F) <= Cardinality(S)
      BY <1>2, <2>1, FewerWebms
    <2>3. F # webms
      BY <1>8
    <2>4. Cardinality(F) < N
      BY <1>1, <1>2, <2>3, FewerWebms
    <2> QED
      BY <1>1, <1>2, <1>3, <1>8, <2>2, <2>4
  <1> QED
    BY <1>7, <1>8

(* New aliases take no webm that ties with none closer to the top than     *)
(* they take the reader.                                                   *)
LEMMA TiedByChange ==
    ASSUME ListInv, ListInv', TiedInv, handler = "by_alias", Change
    PROVE  TiedInv'
PROOF
  <1>1. TypeOK /\ TypeOK' /\ Listed /\ Listed' /\ handler' = "by_alias"
    BY ListIsOrdered, HandlerKept DEF ListInv, Next, TypeOK, Listed, Times
  <1>2. UNCHANGED walk /\ reader # "done"
    BY DEF Change, NewWebm, Unlink, Symlink, Refetch, NewAlias
  <1>3. /\ webms \subseteq webms'
        /\ \A y \in webms : copies'[y] \in Nat /\ copies[y] \in Nat /\ copies'[y] >= copies[y]
        /\ \A y, z \in webms : copies'[y] > copies[y] /\ copies'[z] > copies[z] => y = z
        /\ \A y \in webms : copies'[y] <= copies[y] + 1
    <2>1. copies \in [Number -> Nat] /\ webms \subseteq Number
      BY <1>1 DEF Listed
    <2>2. CASE NewWebm
      BY <2>1, <2>2 DEF NewWebm
    <2>3. ASSUME NEW w \in Number, NewAlias(w)
          PROVE  webms' = webms /\ copies' = [copies EXCEPT ![w] = @ + 1]
      BY <2>3 DEF NewAlias
    <2> QED
      BY <2>1, <2>2, <2>3 DEF Change, Unlink, Symlink, Refetch
  <1>4. reader \in {"asks", "reads"} => tied' = tied \cup Ties'
    BY DEF Change, Reading
  <1>5. NotCounted'
    BY <1>2 DEF TiedInv, NotCounted, walk
  <1>6. TiesNoted'
    BY <1>2, <1>4 DEF TiesNoted, walk
  <1>7. reader \in {"asks", "reads"} => Unseen' \subseteq Unseen \ Ties'
    BY <1>2, <1>4 DEF Unseen, walk
  <1>8. StillAhead'
    <2> SUFFICES ASSUME reader \in {"asks", "reads"}, NEW x \in Unseen'
                 PROVE  x \in webms' /\ Rank(x)' >= Behind'
      BY <1>2 DEF StillAhead, walk
    <2>1. x \in webms /\ Rank(x) >= Behind /\ x \notin Ties'
      BY <1>7 DEF TiedInv, StillAhead
    <2>2. x \in webms' /\ x \in Number
      BY <1>1, <1>3, <2>1 DEF Listed
    <2>3. ASSUME NEW z \in webms, Before(z, x) PROVE z \in webms' /\ Before(z, x)'
      <3>1. copies[z] > copies[x]
        BY <2>3 DEF Before, ByAlias
      <3>2. z \in webms' /\ z # x
        BY <1>3, <2>1, <3>1
      <3>3. copies'[z] # copies'[x]
        BY <1>1, <2>1, <2>2, <3>2 DEF Ties
      <3>4. copies'[z] > copies'[x]
        BY <1>3, <2>1, <3>1, <3>3
      <3> QED
        BY <1>1, <3>2, <3>4 DEF Before, ByAlias
    <2>4. Rank(x) \in Nat /\ Rank(x)' \in Nat /\ Rank(x) <= Rank(x)'
      BY <1>1, <2>2, <2>3, RankKept
    <2>5. Behind' = Behind /\ Behind \in Nat
      BY <1>1, <1>2, BehindTyped DEF Behind, walk
    <2> QED
      BY <2>1, <2>2, <2>4, <2>5
  <1>9. FullPage'
    BY <1>2, <1>7 DEF TiedInv, FullPage, walk
  <1>10. MissesOnlyTied'
    BY <1>2 DEF MissesOnlyTied, walk
  <1> QED
    BY <1>5, <1>6, <1>8, <1>9, <1>10 DEF TiedInv

(* A page shows the webms of its ranks that tie with none, is full before  *)
(* those that come after it, and only the second links to no later one.    *)
LEMMA TiedByReader ==
    ASSUME ListInv, TiedInv, handler = "by_alias", Read
    PROVE  TiedInv'
PROOF
  <1>1. /\ TypeOK /\ Listed /\ handler' = "by_alias"
        /\ page \in Nat /\ page * PerPage \in Nat /\ (page + 1) * PerPage \in Nat
        /\ (page + 1) * PerPage = page * PerPage + PerPage /\ PerPage \in Nat \ {0}
    BY ListIsOrdered, HandlerKept, PageEnds DEF ListInv, Next, TypeOK
  <1>2. UNCHANGED list /\ ~ CountRows /\ ~ QueryRows
    BY DEF Read, Begin, ShowPage, CountRows, QueryRows, FollowLink, list, Flask, TiedInv, NotCounted
  <1>3. /\ \A x : Rank(x)' = Rank(x)
        /\ webms' = webms /\ Ties' = Ties /\ OutOfReach' = OutOfReach
    BY <1>2 DEF list, Rank, Before, Newer, ByAlias, Ties, OutOfReach
  <1>4. \A x \in webms : Rank(x) \in Nat
    BY <1>1, RankTyped DEF Listed
  <1>5. CASE Begin
    <2>1. /\ page' = 0 /\ reader' = "asks" /\ present' = webms /\ tied' = Ties
      BY <1>5 DEF Begin
    <2>2. Behind' = 0
      BY <1>1, <2>1 DEF Behind
    <2> QED
      BY <1>3, <1>4, <2>1, <2>2
      DEF TiedInv, NotCounted, TiesNoted, StillAhead, FullPage, MissesOnlyTied, Unseen
  <1>6. CASE ShowPage
    <2>1. PICK rows \in Rows(page) :
            /\ reader = "asks" /\ reader' = "reads"
            /\ count' = Cardinality(rows) /\ seen' = seen \cup rows
            /\ page' = page /\ present' = present /\ tied' = tied
      BY <1>6 DEF ShowPage, Total
    <2>2. Behind = page * PerPage /\ Behind' = (page + 1) * PerPage
      BY <2>1 DEF Behind
    <2>3. PICK A \in Top(page * PerPage), B \in Top((page + 1) * PerPage) :
            rows = B \ A /\ A \subseteq B
      BY DEF Rows
    <2>4. ASSUME NEW x \in Unseen'
          PROVE  x \in webms /\ Rank(x) >= (page + 1) * PerPage /\ count' = PerPage
      <3>1. x \in Unseen /\ x \notin rows
        BY <2>1, <2>4 DEF Unseen
      <3>2. x \in webms /\ Rank(x) >= page * PerPage /\ x \notin Ties
        BY <2>1, <2>2, <3>1 DEF TiedInv, StillAhead, TiesNoted, Unseen
      <3>3. x \notin A /\ Cardinality(A) = page * PerPage
        BY <1>1, <1>4, <3>2, UntiedIsRanked
      <3>4. x \notin B
        BY <2>3, <3>1, <3>3
      <3>5. Rank(x) >= (page + 1) * PerPage /\ Cardinality(B) = (page + 1) * PerPage
        BY <1>1, <3>2, <3>4, UntiedIsRanked
      <3>6. B \in SUBSET Number
        BY <1>1 DEF Top, Listed
      <3>7. IsFiniteSet(B)
        BY <1>1, <3>6, SomeWebms DEF Listed
      <3>8. Cardinality(B \ A) = Cardinality(B) - Cardinality(B \cap A)
        BY <3>7, FS_Difference
      <3>9. B \cap A = A
        BY <2>3
      <3> QED
        <4> DEFINE k == page * PerPage
                   m == (page + 1) * PerPage
        <4>1. k \in Nat /\ m = k + PerPage /\ PerPage \in Nat
          BY <1>1
        <4> HIDE DEF k, m
        <4>2. Cardinality(rows) = m - k
          BY <2>3, <3>3, <3>5, <3>8, <3>9 DEF k, m
        <4>3. count' = PerPage
          BY <2>1, <4>1, <4>2
        <4> QED
          BY <3>2, <3>5, <4>3
    <2> QED
      BY <1>3, <2>1, <2>2, <2>4
      DEF TiedInv, NotCounted, TiesNoted, StillAhead, FullPage, MissesOnlyTied
  <1>7. CASE FollowLink
    <2>1. /\ reader = "reads" /\ page' = NextPage(page, count)
          /\ reader' = IF page' > page THEN "asks" ELSE "done"
          /\ UNCHANGED <<count, present, seen, tied>>
      BY <1>7 DEF FollowLink
    <2>2. page' = IF page < count \div PerPage THEN page + 1 ELSE 0
      BY <2>1 DEF NextPage, NextOfBoard, Flask
    <2>3. Behind = (page + 1) * PerPage /\ Behind' = page' * PerPage
      BY <2>1 DEF Behind
    <2>4. Unseen' = Unseen
      BY <2>1 DEF Unseen
    <2>5. \A x \in Unseen : x \in webms /\ Rank(x) >= (page + 1) * PerPage
      BY <2>1, <2>3 DEF TiedInv, StillAhead
    <2>6. CASE page' > page
      <3>1. page' = page + 1
        BY <1>1, <2>2, <2>6
      <3> QED
        BY <1>3, <2>1, <2>3, <2>4, <2>5, <2>6, <3>1
        DEF TiedInv, NotCounted, TiesNoted, StillAhead, FullPage, MissesOnlyTied
    <2>7. CASE ~ (page' > page)
      <3>1. ASSUME NEW x \in Unseen PROVE x \in OutOfReach
        <4>1. count = PerPage
          BY <2>1, <3>1 DEF TiedInv, FullPage
        <4>2. PerPage \div PerPage = 1
          BY <1>1
        <4>3. 1 <= page
          BY <1>1, <2>2, <2>7, <4>1, <4>2
        <4>4. 1 * PerPage <= page * PerPage
          BY <1>1, <4>3, PageEnds
        <4>5. x \in webms /\ Rank(x) >= 2 * PerPage
          BY <1>1, <1>4, <2>5, <3>1, <4>4
        <4> QED
          BY <4>5 DEF OutOfReach
      <3>2. MissesOnlyTied'
        BY <1>3, <2>1, <2>4, <3>1 DEF MissesOnlyTied, Unseen
      <3> QED
        BY <2>1, <2>7, <3>2 DEF TiedInv, NotCounted, TiesNoted, StillAhead, FullPage
    <2> QED
      BY <2>6, <2>7
  <1> QED
    BY <1>2, <1>5, <1>6, <1>7 DEF Read

(* In whatever order the C list by popularity gives webms with as many     *)
(* aliases as one another, from page to page, and however many aliases     *)
(* come meanwhile, the reader who follows its links misses only webms that *)
(* tied with another during the round, and those of the third page on.     *)
THEOREM ReadersMissWhatTied == Spec => []MissesOnlyTied
PROOF
  <1>1. ListInv /\ ListInv' /\ TiedInv /\ [Next]_vars => TiedInv'
    <2> SUFFICES ASSUME ListInv, ListInv', TiedInv, [Next]_vars PROVE TiedInv'
      OBVIOUS
    <2>1. CASE UNCHANGED vars
      <3>1. UNCHANGED <<handler, webms, reader, page, count, present, seen, tied>>
        BY <2>1 DEF vars, list, walk
      <3>2. \A x : Rank(x)' = Rank(x)
        BY <2>1 DEF vars, list, Rank, Before, Newer, ByAlias
      <3>3. Ties' = Ties /\ OutOfReach' = OutOfReach
        BY <2>1, <3>2 DEF vars, list, Ties, OutOfReach
      <3>4. Behind' = Behind /\ Unseen' = Unseen
        BY <3>1 DEF Behind, Unseen
      <3> QED
        BY <3>1, <3>2, <3>3, <3>4
        DEF TiedInv, NotCounted, TiesNoted, StillAhead, FullPage, MissesOnlyTied
    <2>2. CASE Next /\ handler # "by_alias"
      BY <2>2, HandlerKept DEF TiedInv
    <2> QED
      BY <2>1, <2>2, TiedByChange, TiedByReader DEF Next
  <1>2. TiedInv => MissesOnlyTied
    BY DEF TiedInv, MissesOnlyTied
  <1> QED
    BY <1>1, <1>2, TiedInit, ListInvariant, PTL DEF Spec
=============================================================================
