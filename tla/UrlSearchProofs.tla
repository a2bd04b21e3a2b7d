-------------------------- MODULE UrlSearchProofs --------------------------
(***************************************************************************)
(* Proofs about Connections and UrlSearch, for any number of threads,      *)
(* requests, faults and URLs.                                              *)
(***************************************************************************)
EXTENDS UrlSearch, FiniteSetTheorems, SequenceTheorems, TLAPS

USE ServerAssumption, UrlAssumption

(***************************************************************************)
(* Sums over the threads: a thread that has n things in hand is n pairs.   *)
(***************************************************************************)
Slots(S, h) == UNION {{w} \X (1..h[w]) : w \in S}

(* The slots of one thread are as many as its share.                       *)
LEMMA SlotsOfOne ==
    ASSUME NEW w, NEW n \in Nat
    PROVE  IsFiniteSet({w} \X (1..n)) /\ Cardinality({w} \X (1..n)) = n
PROOF
  <1>1. IsFiniteSet({w}) /\ Cardinality({w}) = 1
    BY FS_Singleton
  <1>2. IsFiniteSet(1..n) /\ Cardinality(1..n) = n
    BY FS_Interval
  <1>3. IsFiniteSet({w} \X (1..n))
        /\ Cardinality({w} \X (1..n)) = Cardinality({w}) * Cardinality(1..n)
    BY <1>1, <1>2, FS_Product
  <1> QED
    BY <1>1, <1>2, <1>3

(* There are finitely many slots.                                          *)
LEMMA SlotsFinite ==
    ASSUME NEW S \in SUBSET Worker, NEW h \in [Worker -> Nat]
    PROVE  IsFiniteSet(Slots(S, h)) /\ Cardinality(Slots(S, h)) \in Nat
PROOF
  <1>1. IsFiniteSet(S)
    BY FS_Subset
  <1> DEFINE slots(w) == {w} \X (1..h[w])
             R == {slots(w) : w \in S}
             f == [w \in S |-> slots(w)]
  <1>2. \A w \in S : IsFiniteSet(slots(w))
    BY SlotsOfOne
  <1> HIDE DEF slots
  <1>3. f \in Surjection(S, R)
    BY DEF Surjection
  <1>4. IsFiniteSet(R) /\ \A T \in R : IsFiniteSet(T)
    BY <1>1, <1>2, <1>3, FS_Surjection
  <1>5. IsFiniteSet(UNION R)
    BY <1>4, FS_UNION
  <1>6. UNION R = Slots(S, h)
    BY DEF Slots, slots
  <1> QED
    BY <1>5, <1>6, FS_CardinalityType

(* Only what one thread has in hand changes: so does the sum, by as much.  *)
LEMMA SlotsChange ==
    ASSUME NEW h \in [Worker -> Nat], NEW g \in [Worker -> Nat], NEW w \in Worker,
           \A v \in Worker \ {w} : g[v] = h[v]
    PROVE  Cardinality(Slots(Worker, g)) + h[w] = Cardinality(Slots(Worker, h)) + g[w]
PROOF
  <1> DEFINE rest == Slots(Worker \ {w}, h)
             mine(n) == {w} \X (1..n)
  <1>1. ASSUME NEW k \in [Worker -> Nat], \A v \in Worker \ {w} : k[v] = h[v]
        PROVE  Cardinality(Slots(Worker, k)) = Cardinality(rest) + k[w]
    <2>1. Slots(Worker, k) = rest \cup mine(k[w])
      BY <1>1 DEF Slots
    <2>2. rest \cap mine(k[w]) = {}
      BY DEF Slots
    <2>3. IsFiniteSet(rest) /\ Cardinality(rest) \in Nat
      BY SlotsFinite
    <2>4. IsFiniteSet(mine(k[w])) /\ Cardinality(mine(k[w])) = k[w]
      BY SlotsOfOne
    <2>5. Cardinality(rest \cup mine(k[w]))
            = Cardinality(rest) + Cardinality(mine(k[w])) - Cardinality(rest \cap mine(k[w]))
      BY <2>3, <2>4, FS_Union
    <2>6. Cardinality(rest \cap mine(k[w])) = 0
      BY <2>2, FS_EmptySet
    <2> HIDE DEF rest, mine
    <2>7. Cardinality(rest \cup mine(k[w])) = Cardinality(rest) + k[w]
      BY <2>3, <2>4, <2>5, <2>6
    <2> QED
      BY <2>1, <2>7
  <1>2. Cardinality(Slots(Worker, h)) = Cardinality(rest) + h[w]
    BY <1>1
  <1>3. Cardinality(Slots(Worker, g)) = Cardinality(rest) + g[w]
    BY <1>1
  <1>4. Cardinality(rest) \in Nat
    BY SlotsFinite
  <1> QED
    BY <1>2, <1>3, <1>4

(* Nobody has anything in hand.                                            *)
LEMMA SlotsNone ==
    ASSUME NEW h \in [Worker -> Nat], \A w \in Worker : h[w] = 0
    PROVE  Cardinality(Slots(Worker, h)) = 0
PROOF
  <1>1. Slots(Worker, h) = {}
    BY DEF Slots
  <1> QED
    BY <1>1, FS_EmptySet

(***************************************************************************)
(* Queries.                                                                *)
(***************************************************************************)
(* Every handler has a plan, which starts with a query.                    *)
LEMMA PlanTyped ==
    /\ DOMAIN Plan = {"index", "stats", "thread", "by_alias", "page", "search"}
    /\ \A h \in DOMAIN Plan : Plan[h] \in Seq(Queries)
PROOF
  <1>1. DOMAIN Plan = {"index", "stats", "thread", "by_alias", "page", "search"}
    BY DEF Plan
  <1>2. /\ IndexQueries \in Seq(Queries) /\ StatsQueries \in Seq(Queries)
        /\ ThreadQueries \in Seq(Queries) /\ ByAliasQueries \in Seq(Queries)
        /\ PageQueries \in Seq(Queries) /\ SearchQueries \in Seq(Queries)
    BY DEF IndexQueries, StatsQueries, ThreadQueries, ByAliasQueries, PageQueries,
           SearchQueries, Queries, Counts, Lists, Copies
  <1>3. ASSUME NEW h \in DOMAIN Plan PROVE Plan[h] \in Seq(Queries)
    BY <1>1, <1>2, <1>3 DEF Plan
  <1> QED
    BY <1>1, <1>3

(* Every query is of one of the three kinds.                               *)
LEMMA KindsOfQueries ==
    /\ Counts \cap Lists = {} /\ Counts \cap Copies = {} /\ Lists \cap Copies = {}
    /\ \A s \in Seq(Queries) : s # <<>> =>
          Head(s) \in Counts \cup Lists \cup Copies /\ Tail(s) \in Seq(Queries)
PROOF
  <1>1. Counts \cap Lists = {} /\ Counts \cap Copies = {} /\ Lists \cap Copies = {}
    BY DEF Counts, Lists, Copies
  <1>2. \A s \in Seq(Queries) : s # <<>> => Head(s) \in Queries /\ Tail(s) \in Seq(Queries)
    BY HeadTailProperties
  <1> QED
    BY <1>1, <1>2 DEF Queries

(* Going on after a query leaves the worker at the next one.               *)
LEMMA ProceedTyped ==
    ASSUME ServerTyped, at \in [Worker -> Labels], NEW w \in Worker, left[w] # <<>>,
           NEW hit, Proceed(w, hit)
    PROVE  /\ left' \in [Worker -> Seq(Queries)]
           /\ hits' \in [Worker -> SUBSET Queries]
           /\ at' = [at EXCEPT ![w] = "query"]
           /\ at' \in [Worker -> Labels]
           /\ \A v \in Worker : v # w => left'[v] = left[v] /\ hits'[v] = hits[v]
PROOF
  <1>1. Head(left[w]) \in Queries /\ Tail(left[w]) \in Seq(Queries)
    BY KindsOfQueries DEF ServerTyped, Queries
  <1> DEFINE found == hits[w] \cup (IF hit THEN {Head(left[w])} ELSE {})
             go == Tail(left[w]) # <<>> /\ Wanted(handler[w], Head(Tail(left[w])), found)
  <1>2. hits' = [hits EXCEPT ![w] = found]
    BY DEF Proceed, Set
  <1>3. left' = [left EXCEPT ![w] = IF go THEN Tail(left[w]) ELSE <<>>]
    BY DEF Proceed, Set
  <1>4. at' = [at EXCEPT ![w] = "query"]
    BY DEF Proceed, Go, Set
  <1> HIDE DEF go
  <1> QED
    BY <1>1, <1>2, <1>3, <1>4, EmptySeq DEF ServerTyped, Labels

(***************************************************************************)
(* What is allocated.                                                      *)
(***************************************************************************)
(* Rows that are counted are there.                                        *)
CountsAnswered == \A w \in Worker : res[w] = "empty" => Head(left[w]) \notin Counts

ServerInv ==
    ServerTyped /\ at \in [Worker -> Labels] /\ NothingElseLost /\ CountsAnswered

Hands == [w \in Worker |-> InHand(w)]
InUse == {w \in Worker : Connected(w)}

(* Nothing else is lost exactly when the counters are the sums of what is  *)
(* held.                                                                   *)
LEMMA LostIsSum ==
    /\ NothingElseLost <=>
          /\ conns = refused + Cardinality(InUse)
          /\ results = counted + Cardinality(Slots(Worker, Hands))
    /\ NothingElseLost' <=>
          /\ conns' = refused' + Cardinality(InUse')
          /\ results' = counted' + Cardinality(Slots(Worker, Hands'))
PROOF
  <1>1. Slots(Worker, Hands) = UNION {{w} \X (1..InHand(w)) : w \in Worker}
    BY DEF Slots, Hands
  <1>2. Slots(Worker, Hands') = UNION {{w} \X (1..InHand(w)') : w \in Worker}
    BY DEF Slots, Hands
  <1> QED
    BY <1>1, <1>2 DEF NothingElseLost, InUse

(* There are finitely many open connections.                               *)
LEMMA OpenFinite == IsFiniteSet(InUse) /\ Cardinality(InUse) \in Nat
PROOF BY FS_Subset, FS_CardinalityType DEF InUse

(* What a thread has in hand is a number.                                  *)
LEMMA HandsTyped ==
    /\ held \in [Worker -> Nat] => Hands \in [Worker -> Nat]
    /\ held' \in [Worker -> Nat] => Hands' \in [Worker -> Nat]
PROOF BY DEF Hands, InHand

(* The sums and the counters are numbers, after a step too.                *)
LEMMA SumsTyped ==
    ASSUME held' \in [Worker -> Nat], refused' \in Nat, counted' \in Nat, NothingElseLost'
    PROVE  conns' \in Nat /\ results' \in Nat
PROOF
  <1>1. Cardinality(Slots(Worker, Hands')) \in Nat
    BY SlotsFinite, HandsTyped
  <1>2. Cardinality(InUse') \in Nat
    BY FS_Subset, FS_CardinalityType DEF InUse
  <1> QED
    BY <1>1, <1>2, LostIsSum

(* A step in which one worker goes from a place without a connection to    *)
(* another such place, and nothing else of the server's happens.           *)
LEMMA QuietStep ==
    ASSUME ServerInv, NEW w \in Worker, NEW l \in Labels \ {"idle", "exec", "finish"},
           at[w] \notin {"idle", "exec", "finish"},
           at' = [at EXCEPT ![w] = l],
           left' \in [Worker -> Seq(Queries)], \A v \in Worker : v # w => left'[v] = left[v],
           faults' \in 0..MaxFaults,
           UNCHANGED <<handler, res, hits, held, pool, asked>>
    PROVE  ServerInv'
PROOF
  <1>1. at' \in [Worker -> Labels] /\ ServerTyped'
    BY DEF ServerInv, ServerTyped, Connected, pool, Labels
  <1>2. CountsAnswered'
    BY DEF ServerInv, CountsAnswered, ServerTyped
  <1>3. InUse' = InUse /\ Hands' = Hands
    BY DEF InUse, Hands, InHand, Connected, ServerInv
  <1>4. NothingElseLost'
    BY <1>3, LostIsSum DEF ServerInv, pool
  <1> QED
    BY <1>1, <1>2, <1>4 DEF ServerInv

(* Accepting a request allocates nothing.                                  *)
LEMMA AcceptInv ==
    ASSUME ServerInv, NEW w \in Worker, NEW h \in DOMAIN Plan,
           NEW l \in Labels \ {"idle", "exec", "finish"}, Accept(w, h, l)
    PROVE  ServerInv'
PROOF
  <1>1. Plan[h] \in Seq(Queries) /\ h # "none"
    BY PlanTyped
  <1>2. at' \in [Worker -> Labels] /\ ServerTyped'
    BY <1>1 DEF ServerInv, ServerTyped, Connected, pool, Labels, Accept, Set, Go
  <1>3. CountsAnswered'
    BY DEF ServerInv, CountsAnswered, ServerTyped, Accept, Set
  <1>4. InUse' = InUse /\ Hands' = Hands
    BY DEF InUse, Hands, InHand, Connected, ServerInv, Accept, Go, Set
  <1>5. NothingElseLost'
    BY <1>4, LostIsSum DEF ServerInv, Accept, pool
  <1> QED
    BY <1>2, <1>3, <1>5 DEF ServerInv

(* A fault is one of those that may happen.                                *)
LEMMA FaultTyped ==
    ASSUME faults \in 0..MaxFaults, Fault \/ NoFault
    PROVE  faults' \in 0..MaxFaults
PROOF BY DEF Fault, NoFault

(* A connection is in use, or refused.                                     *)
LEMMA ConnectInv ==
    ASSUME ServerInv, NEW w \in Worker, Connect(w)
    PROVE  ServerInv'
PROOF
  <1>1. at[w] = "query" /\ left[w] # <<>> /\ conns' = conns + 1
        /\ UNCHANGED <<handler, res, held, results, counted, asked>>
    BY DEF Connect
  <1>2. faults' \in 0..MaxFaults
    BY FaultTyped DEF Connect, ServerInv, ServerTyped
  <1>3. CASE NoFault /\ Go(w, "exec") /\ UNCHANGED <<left, hits, refused>>
    <2>1. at' = [at EXCEPT ![w] = "exec"] /\ at' \in [Worker -> Labels]
      BY <1>3 DEF ServerInv, Go, Set, Labels
    <2>2. InUse' = InUse \cup {w} /\ w \notin InUse
      BY <1>1, <2>1 DEF InUse, Connected, ServerInv
    <2>3. Cardinality(InUse') = Cardinality(InUse) + 1
      BY <2>2, OpenFinite, FS_AddElement
    <2>4. Hands' = Hands
      BY <1>1, <2>1 DEF Hands, InHand, ServerInv
    <2>5. NothingElseLost'
      BY <1>1, <1>3, <2>3, <2>4, OpenFinite, LostIsSum DEF ServerInv, ServerTyped
    <2>6. ServerTyped' /\ CountsAnswered'
      BY <1>1, <1>2, <1>3, <2>1 DEF ServerInv, ServerTyped, Connected, CountsAnswered
    <2> QED
      BY <2>1, <2>5, <2>6 DEF ServerInv
  <1>4. CASE Fault /\ Proceed(w, FALSE) /\ refused' = refused + 1
    <2>1. /\ left' \in [Worker -> Seq(Queries)] /\ hits' \in [Worker -> SUBSET Queries]
          /\ at' = [at EXCEPT ![w] = "query"] /\ at' \in [Worker -> Labels]
          /\ \A v \in Worker : v # w => left'[v] = left[v] /\ hits'[v] = hits[v]
      BY <1>1, <1>4, ProceedTyped DEF ServerInv
    <2>2. InUse' = InUse /\ Hands' = Hands
      BY <1>1, <2>1 DEF InUse, Connected, Hands, InHand, ServerInv
    <2>3. NothingElseLost'
      BY <1>1, <1>4, <2>2, OpenFinite, LostIsSum DEF ServerInv, ServerTyped
    <2>4. \A v \in Worker : Connected(v)' => v # w
      BY <2>1 DEF Connected, ServerInv
    <2>5. ServerTyped'
      BY <1>1, <1>2, <1>4, <2>1, <2>4 DEF ServerInv, ServerTyped, Connected
    <2>6. CountsAnswered'
      BY <1>1, <2>1 DEF ServerInv, ServerTyped, CountsAnswered
    <2> QED
      BY <2>1, <2>3, <2>5, <2>6 DEF ServerInv
  <1> QED
    BY <1>3, <1>4 DEF Connect

(* One worker takes more, or less, in hand.                                *)
LEMMA HandsChange ==
    ASSUME held \in [Worker -> Nat], held' \in [Worker -> Nat], NEW w \in Worker,
           \A v \in Worker : v # w => InHand(v)' = InHand(v)
    PROVE  /\ Cardinality(Slots(Worker, Hands')) + InHand(w)
                 = Cardinality(Slots(Worker, Hands)) + InHand(w)'
           /\ Cardinality(Slots(Worker, Hands)) \in Nat
           /\ Cardinality(Slots(Worker, Hands')) \in Nat
PROOF
  <1>1. Hands \in [Worker -> Nat] /\ Hands' \in [Worker -> Nat]
    BY HandsTyped
  <1>2. /\ Hands[w] = InHand(w) /\ Hands'[w] = InHand(w)'
        /\ \A v \in Worker \ {w} : Hands'[v] = Hands[v]
    BY DEF Hands
  <1>3. Cardinality(Slots(Worker, Hands')) + Hands[w] = Cardinality(Slots(Worker, Hands)) + Hands'[w]
    BY <1>1, <1>2, SlotsChange
  <1> QED
    BY <1>1, <1>2, <1>3, SlotsFinite

(* A result is in hand, or there is none.                                  *)
LEMMA ExecInv ==
    ASSUME ServerInv, NEW w \in Worker, NEW r, Exec(w, r)
    PROVE  ServerInv'
PROOF
  <1>1. /\ at[w] = "exec" /\ r \in {"rows", "empty", "error", "null"}
        /\ at' = [at EXCEPT ![w] = "finish"] /\ res' = [res EXCEPT ![w] = r]
        /\ results' = IF r = "null" THEN results ELSE results + 1
        /\ Head(left[w]) \in Counts => r # "empty"
        /\ UNCHANGED <<handler, left, hits, held, conns, refused, counted, asked>>
    BY DEF Exec, Go, Set
  <1>2. faults' \in 0..MaxFaults
    BY FaultTyped DEF Exec, ServerInv, ServerTyped
  <1>3. at' \in [Worker -> Labels]
    BY <1>1 DEF ServerInv, Labels
  <1>4. InUse' = InUse
    BY <1>1 DEF InUse, Connected, ServerInv
  <1>5. /\ InHand(w) = held[w] /\ InHand(w)' = held[w] + IF r = "null" THEN 0 ELSE 1
        /\ \A v \in Worker : v # w => InHand(v)' = InHand(v)
    BY <1>1 DEF InHand, ServerInv, ServerTyped
  <1>6. NothingElseLost'
    <2>1. held \in [Worker -> Nat] /\ held' \in [Worker -> Nat] /\ held[w] \in Nat
      BY <1>1 DEF ServerInv, ServerTyped
    <2>2. Cardinality(Slots(Worker, Hands')) =
              Cardinality(Slots(Worker, Hands)) + IF r = "null" THEN 0 ELSE 1
      BY <1>5, <2>1, HandsChange
    <2> DEFINE before == Cardinality(Slots(Worker, Hands))
               after == Cardinality(Slots(Worker, Hands'))
    <2>3. results = counted + before /\ counted \in Nat /\ before \in Nat
      BY <1>5, <2>1, HandsChange, LostIsSum DEF ServerInv, ServerTyped
    <2>4. after = before + IF r = "null" THEN 0 ELSE 1
      BY <2>2
    <2>5. conns' = refused' + Cardinality(InUse')
      BY <1>1, <1>4, LostIsSum DEF ServerInv
    <2> HIDE DEF before, after
    <2>6. results' = counted' + after
      BY <1>1, <2>3, <2>4
    <2> QED
      BY <2>5, <2>6, LostIsSum DEF after
  <1>7. ServerTyped'
    BY <1>1, <1>2 DEF ServerInv, ServerTyped, Connected
  <1>8. CountsAnswered'
    BY <1>1 DEF ServerInv, ServerTyped, CountsAnswered
  <1> QED
    BY <1>3, <1>6, <1>7, <1>8 DEF ServerInv

(* What becomes of a result: it is cleared, or handed on, or forgotten.    *)
LEMMA FateOfResult ==
    ASSUME ServerInv, NEW w \in Worker, at[w] = "finish"
    PROVE  \/ res[w] = "null" /\ ~Clears(w) /\ ~Returns(w)
           \/ res[w] # "null" /\ Clears(w) /\ ~Returns(w)
                 /\ ~(res[w] = "rows" /\ Head(left[w]) \in Counts)
           \/ res[w] # "null" /\ ~Clears(w) /\ Returns(w)
                 /\ ~(res[w] = "rows" /\ Head(left[w]) \in Counts)
           \/ res[w] = "rows" /\ ~Clears(w) /\ ~Returns(w) /\ Head(left[w]) \in Counts
PROOF
  <1>1. res[w] \in {"rows", "empty", "error", "null"} /\ left[w] # <<>>
    BY DEF ServerInv, ServerTyped, Connected
  <1>2. Head(left[w]) \in Counts \cup Lists \cup Copies
    BY <1>1, KindsOfQueries DEF ServerInv, ServerTyped
  <1>3. res[w] = "empty" => Head(left[w]) \notin Counts
    BY DEF ServerInv, CountsAnswered
  <1> QED
    BY <1>1, <1>2, <1>3, KindsOfQueries DEF Clears, Returns

(* A connection is given back, a result cleared, handed on or forgotten by *)
(* a count.                                                                *)
LEMMA FinishInv ==
    ASSUME ServerInv, NEW w \in Worker, Finish(w)
    PROVE  ServerInv'
PROOF
  <1>1. /\ at[w] = "finish" /\ conns' = conns - 1
        /\ results' = IF Clears(w) THEN results - 1 ELSE results
        /\ held' = [held EXCEPT ![w] = IF Returns(w) THEN held[w] + 1 ELSE held[w]]
        /\ counted' = IF res[w] = "rows" /\ Head(left[w]) \in Counts
                         THEN counted + 1 ELSE counted
        /\ res' = [res EXCEPT ![w] = "none"]
        /\ UNCHANGED <<handler, refused, asked, faults>>
    BY DEF Finish, Set
  <1>2. left[w] # <<>>
    BY <1>1 DEF ServerInv, ServerTyped, Connected
  <1>3. /\ left' \in [Worker -> Seq(Queries)] /\ hits' \in [Worker -> SUBSET Queries]
        /\ at' = [at EXCEPT ![w] = "query"] /\ at' \in [Worker -> Labels]
        /\ \A v \in Worker : v # w => left'[v] = left[v] /\ hits'[v] = hits[v]
    BY <1>2, ProceedTyped DEF Finish, ServerInv
  <1>4. held' \in [Worker -> Nat] /\ held[w] \in Nat /\ held \in [Worker -> Nat]
    BY <1>1 DEF ServerInv, ServerTyped
  <1>5. conns' = refused' + Cardinality(InUse')
    <2>1. InUse' = InUse \ {w} /\ w \in InUse
      BY <1>1, <1>3 DEF InUse, Connected, ServerInv
    <2>2. Cardinality(InUse') = Cardinality(InUse) - 1
      BY <2>1, OpenFinite, FS_RemoveElement
    <2> QED
      BY <1>1, <2>2, OpenFinite, LostIsSum DEF ServerInv, ServerTyped
  <1>6. results' = counted' + Cardinality(Slots(Worker, Hands'))
    <2>1. /\ InHand(w) = held[w] + IF res[w] = "null" THEN 0 ELSE 1
          /\ InHand(w)' = held[w] + IF Returns(w) THEN 1 ELSE 0
          /\ \A v \in Worker : v # w => InHand(v)' = InHand(v)
      BY <1>1, <1>3, <1>4 DEF InHand, ServerInv, ServerTyped
    <2> DEFINE before == Cardinality(Slots(Worker, Hands))
               after == Cardinality(Slots(Worker, Hands'))
    <2>2. before \in Nat /\ after \in Nat /\ after + InHand(w) = before + InHand(w)'
      BY <1>4, <2>1, HandsChange
    <2>3. results = counted + before /\ counted \in Nat
      BY LostIsSum DEF ServerInv, ServerTyped
    <2> HIDE DEF before, after
    <2>4. after + (IF res[w] = "null" THEN 0 ELSE 1) = before + IF Returns(w) THEN 1 ELSE 0
      BY <1>4, <2>1, <2>2
    <2>5. results' = counted' + after
      BY <1>1, <2>2, <2>3, <2>4, FateOfResult
    <2> QED
      BY <2>5 DEF after
  <1>7. NothingElseLost'
    BY <1>5, <1>6, LostIsSum
  <1>8. refused' \in Nat /\ counted' \in Nat
    BY <1>1 DEF ServerInv, ServerTyped
  <1>9. ServerTyped'
    <2>1. conns' \in Nat /\ results' \in Nat
      BY <1>4, <1>7, <1>8, SumsTyped
    <2>2. \A v \in Worker : Connected(v)' => v # w
      BY <1>3 DEF Connected, ServerInv
    <2> QED
      BY <1>1, <1>3, <1>4, <1>8, <2>1, <2>2 DEF ServerInv, ServerTyped, Connected
  <1>10. CountsAnswered'
    BY <1>1, <1>3 DEF ServerInv, ServerTyped, CountsAnswered
  <1> QED
    BY <1>3, <1>7, <1>9, <1>10 DEF ServerInv

(* The lists are cleared with the response.                                *)
LEMMA RespondInv ==
    ASSUME ServerInv, NEW w \in Worker, Respond(w)
    PROVE  ServerInv'
PROOF
  <1>1. /\ at[w] = "query" /\ left[w] = <<>>
        /\ at' = [at EXCEPT ![w] = "idle"] /\ handler' = [handler EXCEPT ![w] = "none"]
        /\ results' = results - held[w] /\ held' = [held EXCEPT ![w] = 0]
        /\ hits' = [hits EXCEPT ![w] = {}]
        /\ UNCHANGED <<left, res, conns, refused, counted, asked, faults>>
    BY DEF Respond, Go, Set
  <1>2. at' \in [Worker -> Labels] /\ held' \in [Worker -> Nat]
        /\ held \in [Worker -> Nat] /\ held[w] \in Nat
    BY <1>1 DEF ServerInv, ServerTyped, Labels
  <1>3. InUse' = InUse
    BY <1>1 DEF InUse, Connected, ServerInv
  <1>4. /\ InHand(w) = held[w] /\ InHand(w)' = 0
        /\ \A v \in Worker : v # w => InHand(v)' = InHand(v)
    BY <1>1 DEF InHand, ServerInv, ServerTyped
  <1>5. NothingElseLost'
    <2> DEFINE before == Cardinality(Slots(Worker, Hands))
               after == Cardinality(Slots(Worker, Hands'))
    <2>1. before \in Nat /\ after \in Nat /\ after + InHand(w) = before + InHand(w)'
      BY <1>2, <1>4, HandsChange
    <2>2. results = counted + before /\ counted \in Nat
      BY LostIsSum DEF ServerInv, ServerTyped
    <2>3. conns' = refused' + Cardinality(InUse')
      BY <1>1, <1>3, LostIsSum DEF ServerInv
    <2> HIDE DEF before, after
    <2>5. after + held[w] = before
      BY <1>2, <1>4, <2>1
    <2>6. results' = results - held[w] /\ counted' = counted
      BY <1>1
    <2>4. results' = counted' + after
      BY <1>2, <2>1, <2>2, <2>5, <2>6
    <2> QED
      BY <2>3, <2>4, LostIsSum DEF after
  <1>6. ServerTyped'
    <2>1. conns' \in Nat /\ results' \in Nat
      BY <1>1, <1>2, <1>5, SumsTyped DEF ServerInv, ServerTyped
    <2> QED
      BY <1>1, <1>2, <2>1 DEF ServerInv, ServerTyped, Connected
  <1>7. CountsAnswered'
    BY <1>1 DEF ServerInv, CountsAnswered
  <1> QED
    BY <1>2, <1>5, <1>6, <1>7 DEF ServerInv

(* A new process has allocated nothing.                                    *)
LEMMA NewProcess ==
    ASSUME at' = [w \in Worker |-> "idle"], held' = [w \in Worker |-> 0],
           conns' = 0, results' = 0, refused' = 0, counted' = 0
    PROVE  NothingElseLost'
PROOF
  <1>1. InUse' = {} /\ Cardinality({}) = 0
    BY FS_EmptySet DEF InUse, Connected
  <1>2. Hands' \in [Worker -> Nat] /\ \A w \in Worker : Hands'[w] = 0
    BY DEF Hands, InHand
  <1>3. Cardinality(Slots(Worker, Hands')) = 0
    BY <1>2, SlotsNone
  <1> QED
    BY <1>1, <1>3, LostIsSum

(* A new process has allocated nothing.                                    *)
LEMMA RestartInv ==
    ASSUME ServerInv, Restart
    PROVE  ServerInv'
PROOF
  <1>1. NothingElseLost'
    BY NewProcess DEF Restart
  <1>2. faults' \in 0..MaxFaults
    BY FaultTyped DEF Restart, ServerInv, ServerTyped
  <1>3. ServerTyped' /\ at' \in [Worker -> Labels]
    BY <1>2, EmptySeq DEF Restart, ServerTyped, Connected, Labels
  <1>4. CountsAnswered'
    BY DEF Restart, CountsAnswered
  <1> QED
    BY <1>1, <1>3, <1>4 DEF ServerInv

(* The process starts with nothing allocated.                              *)
LEMMA ServerStarts == ServerInit => ServerInv
PROOF
  <1> SUFFICES ASSUME ServerInit PROVE ServerInv
    OBVIOUS
  <1>1. InUse = {} /\ Cardinality({}) = 0
    BY FS_EmptySet DEF ServerInit, InUse, Connected
  <1>2. Hands \in [Worker -> Nat] /\ \A w \in Worker : Hands[w] = 0
    BY DEF ServerInit, Hands, InHand
  <1>4. Cardinality(Slots(Worker, Hands)) = 0
    BY <1>2, SlotsNone
  <1>3. NothingElseLost
    BY <1>1, <1>4, LostIsSum DEF ServerInit
  <1> QED
    BY <1>3, EmptySeq
    DEF ServerInit, ServerInv, ServerTyped, Connected, Labels, CountsAnswered

(***************************************************************************)
(* Searches.                                                               *)
(***************************************************************************)
SearchTyped ==
    /\ webms \subseteq Image /\ drawn \in Nat /\ drawn <= asked
    /\ user_uploaded \in [File -> Image \cup {None, "nothing", "part", "both"}]
    /\ url \in [Worker -> Url \cup {None}]
    /\ out_filepath \in [Worker -> File \cup {None}]
    /\ image_hash \in [Worker -> Image \cup {None, "nothing", "part", "both"}]
    /\ written \in [Worker -> BOOLEAN] /\ due \in [Worker -> BOOLEAN]
    /\ \A w \in Worker :
          /\ at[w] \in {"open", "perform", "close", "hash"} => handler[w] = "search"
          /\ IF handler[w] = "search"
                THEN url[w] \in Url /\ out_filepath[w] \in File
                ELSE url[w] = None /\ out_filepath[w] = None /\ image_hash[w] = None

(* No two searches of a life of the process have drawn the same number.    *)
NumbersDiffer ==
    \A v, w \in Worker : v # w /\ handler[v] = "search" /\ handler[w] = "search" =>
        out_filepath[v][1] # out_filepath[w][1]

(* What a worker's file and its hash may be on the way.                    *)
Sought(w) == ImageAt[url[w]]

OwnFile(w) == handler[w] = "search" =>
    /\ out_filepath[w][1] <= drawn
    /\ at[w] = "perform" => user_uploaded[out_filepath[w]] = "nothing"
    /\ at[w] \in {"close", "hash"} =>
          user_uploaded[out_filepath[w]] \in {"nothing", "part", Sought(w)}
    /\ image_hash[w] \in {None, "nothing", "part", Sought(w)}

(* What has been found is recorded.                                        *)
OwnHits(w) == handler[w] = "search" =>
    /\ at[w] \in {"open", "perform", "close", "hash"} => hits[w] = {}
    /\ at[w] = "finish" /\ res[w] = "rows" /\ Head(left[w]) = "webm" => image_hash[w] \in webms
    /\ "webm" \in hits[w] => image_hash[w] \in webms

(* A search that must find its webm is on its way to it.                   *)
OnItsWay(w) == due[w] =>
    /\ handler[w] = "search" /\ Sought(w) \in webms
    /\ at[w] \in {"open", "perform", "close", "hash"} => left[w] = SearchQueries
    /\ at[w] = "close" => written[w] /\ user_uploaded[out_filepath[w]] = Sought(w)
    /\ at[w] = "hash" => user_uploaded[out_filepath[w]] = Sought(w)
    /\ at[w] \in {"query", "exec", "finish"} =>
          image_hash[w] = Sought(w) /\ (left[w] = SearchQueries \/ "webm" \in hits[w])
    /\ at[w] = "finish" /\ left[w] = SearchQueries => res[w] = "rows"

Searching(w) == OwnFile(w) /\ OwnHits(w) /\ OnItsWay(w)

SearchInv ==
    ServerInv /\ SearchTyped /\ NumbersDiffer /\ \A w \in Worker : Searching(w)

(* A worker whose own state and file stay as they are, while webms are     *)
(* recorded and numbers drawn.                                             *)
LEMMA Bystander ==
    ASSUME SearchInv, NEW v \in Worker, Searching(v),
           handler'[v] = handler[v], left'[v] = left[v], at'[v] = at[v], res'[v] = res[v],
           hits'[v] = hits[v], url'[v] = url[v], out_filepath'[v] = out_filepath[v],
           written'[v] = written[v], image_hash'[v] = image_hash[v], due'[v] = due[v],
           handler[v] = "search" =>
               user_uploaded'[out_filepath[v]] = user_uploaded[out_filepath[v]],
           webms \subseteq webms', drawn <= drawn', drawn' \in Nat
    PROVE  Searching(v)'
PROOF
  <1>1. OwnFile(v)'
    <2>1. handler[v] = "search" => out_filepath[v][1] \in Nat /\ drawn \in Nat
      BY DEF SearchInv, SearchTyped, File
    <2> QED
      BY <2>1 DEF Searching, OwnFile, Sought
  <1>2. OwnHits(v)'
    BY DEF Searching, OwnHits
  <1>3. OnItsWay(v)'
    BY DEF Searching, OnItsWay, Sought
  <1> QED
    BY <1>1, <1>2, <1>3 DEF Searching

(* Two searches write to different files.                                  *)
LEMMA FilesDiffer ==
    ASSUME NumbersDiffer, NEW v \in Worker, NEW w \in Worker, v # w,
           handler[v] = "search", handler[w] = "search"
    PROVE  out_filepath[v] # out_filepath[w]
PROOF BY DEF NumbersDiffer

(* The file of a new search has a number of its own.                       *)
LEMMA SearchStep ==
    ASSUME SearchInv, NEW w \in Worker, NEW u \in Url, Search(w, u)
    PROVE  SearchInv'
PROOF
  <1>1. /\ at[w] = "idle" /\ asked < MaxRequests /\ asked' = asked + 1
        /\ handler' = [handler EXCEPT ![w] = "search"]
        /\ left' = [left EXCEPT ![w] = Plan["search"]]
        /\ at' = [at EXCEPT ![w] = "open"]
        /\ UNCHANGED <<res, hits, held, pool, faults>>
    BY DEF Search, Accept, Go, Set
  <1>2. /\ drawn' = drawn + 1 /\ url' = [url EXCEPT ![w] = u]
        /\ out_filepath' = [out_filepath EXCEPT ![w] = FileName(u)]
        /\ due' = [due EXCEPT ![w] = ImageAt[u] \in webms]
        /\ UNCHANGED <<webms, user_uploaded, written, image_hash>>
    BY DEF Search, Set
  <1>3. "search" \in DOMAIN Plan /\ Plan["search"] = SearchQueries
    BY PlanTyped DEF Plan
  <1>4. ServerInv'
    BY <1>3, AcceptInv DEF Search, SearchInv, Labels
  <1>5. asked \in Nat /\ drawn \in Nat /\ drawn <= asked /\ FileName(u) \in File
        /\ FileName(u)[1] = drawn + 1
    BY <1>1 DEF SearchInv, SearchTyped, ServerInv, ServerTyped, FileName, File
  <1>6. handler[w] = "none" /\ image_hash[w] = None /\ hits[w] = {}
    BY <1>1, PlanTyped DEF SearchInv, SearchTyped, ServerInv, ServerTyped
  <1>7. SearchTyped'
    BY <1>1, <1>2, <1>5, <1>6 DEF SearchInv, SearchTyped, ServerInv, ServerTyped
  <1>8. NumbersDiffer'
    <2>1. \A v \in Worker : handler[v] = "search" =>
              out_filepath[v][1] \in Nat /\ out_filepath[v][1] <= drawn
      BY DEF SearchInv, Searching, OwnFile, SearchTyped, File
    <2>2. \A v \in Worker : v # w =>
              handler'[v] = handler[v] /\ out_filepath'[v] = out_filepath[v]
      BY <1>1, <1>2 DEF SearchInv, ServerInv, ServerTyped, SearchTyped
    <2>3. out_filepath'[w][1] = drawn + 1
      BY <1>2, <1>5 DEF SearchInv, SearchTyped
    <2> QED
      BY <1>5, <2>1, <2>2, <2>3 DEF SearchInv, NumbersDiffer
  <1>9. ASSUME NEW v \in Worker PROVE Searching(v)'
    <2>1. CASE v # w
      BY <1>1, <1>2, <1>5, <2>1, Bystander
      DEF SearchInv, SearchTyped, ServerInv, ServerTyped
    <2>2. CASE v = w
      <3>1. /\ handler'[w] = "search" /\ at'[w] = "open" /\ left'[w] = SearchQueries
            /\ url'[w] = u /\ out_filepath'[w] = FileName(u) /\ image_hash'[w] = None
            /\ hits'[w] = {}
        BY <1>1, <1>2, <1>3, <1>6 DEF SearchInv, SearchTyped, ServerInv, ServerTyped
      <3>2. due'[w] => ImageAt[u] \in webms
        BY <1>2 DEF SearchInv, SearchTyped
      <3> QED
        BY <1>2, <1>5, <2>2, <3>1, <3>2 DEF Searching, OwnFile, OwnHits, OnItsWay, Sought
    <2> QED
      BY <2>1, <2>2
  <1> QED
    BY <1>4, <1>7, <1>8, <1>9 DEF SearchInv

(* A step of a search that leaves the server's objects alone: what is to   *)
(* be shown of the worker that takes it.                                   *)
LEMMA DownloadStep ==
    ASSUME SearchInv, NEW w \in Worker, at[w] \in {"open", "perform", "close", "hash"},
           NEW l \in {"perform", "close", "hash", "query"}, at' = [at EXCEPT ![w] = l],
           left' = left \/ left' = [left EXCEPT ![w] = <<>>],
           Fault \/ NoFault,
           UNCHANGED <<handler, res, hits, held, pool, asked, url, out_filepath, webms, drawn>>,
           NEW x \in Image \cup {None, "nothing", "part", "both"},
           user_uploaded' = [user_uploaded EXCEPT ![out_filepath[w]] = x],
           NEW d \in BOOLEAN, due' = [due EXCEPT ![w] = d],
           NEW o \in BOOLEAN, written' = [written EXCEPT ![w] = o],
           NEW h \in Image \cup {None, "nothing", "part", "both"},
           image_hash' = [image_hash EXCEPT ![w] = h],
           OwnFile(w)', OnItsWay(w)'
    PROVE  SearchInv'
PROOF
  <1>1. faults' \in 0..MaxFaults
    BY FaultTyped DEF SearchInv, ServerInv, ServerTyped
  <1>2. /\ left' \in [Worker -> Seq(Queries)]
        /\ \A v \in Worker : v # w => left'[v] = left[v]
    <2>1. left \in [Worker -> Seq(Queries)] /\ <<>> \in Seq(Queries)
      BY EmptySeq DEF SearchInv, ServerInv, ServerTyped
    <2> QED
      BY <2>1
  <1>3. ServerInv'
    BY <1>1, <1>2, QuietStep DEF SearchInv, Labels
  <1>4. handler[w] = "search"
    BY DEF SearchInv, SearchTyped
  <1>5. SearchTyped'
    BY <1>4 DEF SearchInv, SearchTyped, ServerInv
  <1>6. NumbersDiffer'
    BY DEF SearchInv, NumbersDiffer
  <1>7. ASSUME NEW v \in Worker, v # w PROVE Searching(v)'
    <2>1. handler[v] = "search" => user_uploaded'[out_filepath[v]] = user_uploaded[out_filepath[v]]
      BY <1>4, <1>7, FilesDiffer DEF SearchInv, SearchTyped
    <2> QED
      BY <1>2, <1>7, <2>1, Bystander DEF SearchInv, SearchTyped, ServerInv, ServerTyped
  <1>8. OwnHits(w)'
    BY <1>4 DEF SearchInv, Searching, OwnHits, ServerInv
  <1> QED
    BY <1>3, <1>5, <1>6, <1>7, <1>8 DEF SearchInv, Searching

(* The state of a worker in a download.                                    *)
LEMMA InDownload ==
    ASSUME SearchInv, NEW w \in Worker, at[w] \in {"open", "perform", "close", "hash"}
    PROVE  /\ handler[w] = "search" /\ url[w] \in Url /\ out_filepath[w] \in File
           /\ Sought(w) \in Image /\ Sought(w) \notin {None, "nothing", "part", "both"}
           /\ user_uploaded[out_filepath[w]] \in Image \cup {None, "nothing", "part", "both"}
           /\ OwnFile(w) /\ OnItsWay(w)
           /\ (due[w] => Sought(w) \in webms /\ left[w] = SearchQueries)
PROOF
  <1>1. handler[w] = "search" /\ url[w] \in Url /\ out_filepath[w] \in File
    BY DEF SearchInv, SearchTyped
  <1>2. user_uploaded[out_filepath[w]] \in Image \cup {None, "nothing", "part", "both"}
    BY <1>1 DEF SearchInv, SearchTyped
  <1>3. Sought(w) \in Image /\ Sought(w) \notin {None, "nothing", "part", "both"}
    BY <1>1 DEF Sought
  <1>4. OwnFile(w) /\ OnItsWay(w)
    BY DEF SearchInv, Searching
  <1> QED
    BY <1>1, <1>2, <1>3, <1>4 DEF OnItsWay

(* Opening the upload empties it.                                          *)
LEMMA OpenInv ==
    ASSUME SearchInv, NEW w \in Worker, Open(w) \/ OpenFails(w)
    PROVE  SearchInv'
PROOF
  <1> USE DEF Unchanging, Set, Go, ApiFailure, shared, search
  <1>1. at[w] = "open"
    BY DEF Open, OpenFails
  <1> DEFINE f == out_filepath[w]
  <1>2. /\ written = [written EXCEPT ![w] = written[w]] /\ written[w] \in BOOLEAN
        /\ image_hash = [image_hash EXCEPT ![w] = image_hash[w]]
        /\ image_hash[w] \in Image \cup {None, "nothing", "part", "both"}
        /\ due = [due EXCEPT ![w] = due[w]] /\ due[w] \in BOOLEAN
        /\ user_uploaded = [user_uploaded EXCEPT ![f] = user_uploaded[f]]
    BY DEF SearchInv, SearchTyped
  <1>3. CASE Open(w)
    <2>1. OwnFile(w)' /\ OnItsWay(w)'
      BY <1>1, <1>3, InDownload
      DEF Open, OwnFile, OnItsWay, Sought, SearchInv, SearchTyped, ServerInv
    <2> QED
      BY <1>1, <1>2, <1>3, <2>1, DownloadStep DEF Open
  <1>4. CASE OpenFails(w)
    <2>1. OwnFile(w)' /\ OnItsWay(w)'
      BY <1>1, <1>4, InDownload
      DEF OpenFails, OwnFile, OnItsWay, Sought, SearchInv, SearchTyped, ServerInv
    <2> QED
      BY <1>1, <1>2, <1>4, <2>1, InDownload, DownloadStep DEF OpenFails
  <1> QED
    BY <1>3, <1>4

(* The download goes into the worker's own file.                           *)
LEMMA PerformInv ==
    ASSUME SearchInv, NEW w \in Worker, Perform(w)
    PROVE  SearchInv'
PROOF
  <1> USE DEF Unchanging, Set, Go
  <1> DEFINE f == out_filepath[w]
  <1>1. at[w] = "perform" /\ at' = [at EXCEPT ![w] = "close"] /\ left' = left
        /\ UNCHANGED <<handler, res, hits, held, pool, asked>>
        /\ UNCHANGED <<url, out_filepath, image_hash, webms, drawn>>
    BY DEF Perform
  <1>2. user_uploaded[f] = "nothing"
    BY <1>1, InDownload DEF OwnFile
  <1>3. /\ image_hash = [image_hash EXCEPT ![w] = image_hash[w]]
        /\ image_hash[w] \in Image \cup {None, "nothing", "part", "both"}
        /\ due = [due EXCEPT ![w] = due[w]] /\ due[w] \in BOOLEAN
        /\ \A x : After("nothing", x) = x
        /\ user_uploaded = [user_uploaded EXCEPT ![f] = user_uploaded[f]]
    BY DEF SearchInv, SearchTyped, After
  <1>4. PICK x \in {"nothing", "part", Sought(w)}, o \in BOOLEAN, d \in BOOLEAN :
           /\ user_uploaded' = [user_uploaded EXCEPT ![f] = x]
           /\ written' = [written EXCEPT ![w] = o]
           /\ due' = [due EXCEPT ![w] = d]
           /\ d => due[w] /\ o /\ x = Sought(w)
           /\ Fault \/ NoFault
    <2>1. CASE /\ NoFault /\ UNCHANGED due
               /\ written' = [written EXCEPT ![w] = TRUE]
               /\ user_uploaded' = [user_uploaded EXCEPT ![f] = After(user_uploaded[f], Sought(w))]
      BY <1>2, <1>3, <2>1
    <2>2. ASSUME Fault, due' = [due EXCEPT ![w] = FALSE],
                 NEW x \in {"nothing", "part"}, NEW ok \in BOOLEAN,
                 written' = [written EXCEPT ![w] = ok],
                 user_uploaded' = [user_uploaded EXCEPT ![f] =
                     IF x = "nothing" THEN user_uploaded[f] ELSE After(user_uploaded[f], x)]
          PROVE  user_uploaded' = [user_uploaded EXCEPT ![f] = x]
      BY <1>2, <1>3, <2>2
    <2> QED
      BY <2>1, <2>2 DEF Perform, Sought
  <1>5. OwnFile(w)' /\ OnItsWay(w)'
    BY <1>1, <1>4, InDownload DEF OwnFile, OnItsWay, Sought, SearchInv, SearchTyped, ServerInv
  <1>6. x \in Image \cup {None, "nothing", "part", "both"}
    BY <1>1, InDownload
  <1> QED
    BY <1>1, <1>3, <1>4, <1>5, <1>6, DownloadStep

(* Closing the upload completes what was written.                          *)
LEMMA CloseUploadInv ==
    ASSUME SearchInv, NEW w \in Worker, CloseUpload(w)
    PROVE  SearchInv'
PROOF
  <1> DEFINE f == out_filepath[w]
             kept == written[w] /\ user_uploaded[f] # "nothing"
             x == IF written[w] THEN user_uploaded[f] ELSE None
  <1>1. /\ at[w] = "close" /\ NoFault
        /\ UNCHANGED <<handler, res, hits, held, pool, asked, webms, drawn>>
        /\ UNCHANGED <<url, out_filepath, written, image_hash, due>>
    BY DEF CloseUpload, Unchanging, search
  <1>2. /\ written = [written EXCEPT ![w] = written[w]] /\ written[w] \in BOOLEAN
        /\ image_hash = [image_hash EXCEPT ![w] = image_hash[w]]
        /\ image_hash[w] \in Image \cup {None, "nothing", "part", "both"}
        /\ due = [due EXCEPT ![w] = due[w]] /\ due[w] \in BOOLEAN
        /\ user_uploaded = [user_uploaded EXCEPT ![f] = user_uploaded[f]]
    BY DEF SearchInv, SearchTyped
  <1>3. user_uploaded' = [user_uploaded EXCEPT ![f] = x]
    BY <1>2 DEF CloseUpload, Set
  <1>4. x \in Image \cup {None, "nothing", "part", "both"}
    BY <1>1, InDownload
  <1>5. user_uploaded[f] \in {"nothing", "part", Sought(w)}
    BY <1>1, InDownload DEF OwnFile
  <1>6. due[w] => kept
    BY <1>1, InDownload DEF OnItsWay
  <1>7. CASE kept
    <2>1. at' = [at EXCEPT ![w] = "hash"] /\ left' = left
      BY <1>7 DEF CloseUpload, Go, Set
    <2>2. user_uploaded' = user_uploaded
      BY <1>7 DEF CloseUpload
    <2>3. OwnFile(w)' /\ OnItsWay(w)'
      BY <1>1, <1>5, <2>1, <2>2, InDownload
      DEF OwnFile, OnItsWay, Sought, SearchInv, SearchTyped, ServerInv
    <2> HIDE DEF x
    <2> QED
      BY <1>1, <1>2, <1>3, <1>4, <2>1, <2>3, DownloadStep
  <1>8. CASE ~kept
    <2>1. at' = [at EXCEPT ![w] = "query"] /\ left' = [left EXCEPT ![w] = <<>>]
      BY <1>8 DEF CloseUpload, Go, Set, ApiFailure
    <2>2. OwnFile(w)' /\ OnItsWay(w)'
      BY <1>1, <1>6, <1>8, <2>1, InDownload
      DEF OwnFile, OnItsWay, Sought, SearchInv, SearchTyped, ServerInv
    <2> HIDE DEF x
    <2> QED
      BY <1>1, <1>2, <1>3, <1>4, <2>1, <2>2, DownloadStep
  <1> QED
    BY <1>7, <1>8

(* The hash is that of what is in the file.                                *)
LEMMA HashUploadInv ==
    ASSUME SearchInv, NEW w \in Worker, HashUpload(w)
    PROVE  SearchInv'
PROOF
  <1> DEFINE f == out_filepath[w]
  <1>1. /\ at[w] = "hash" /\ at' = [at EXCEPT ![w] = "query"] /\ left' = left
        /\ UNCHANGED <<handler, res, hits, held, pool, asked, webms, drawn>>
        /\ UNCHANGED <<url, out_filepath, written, user_uploaded>>
    BY DEF HashUpload, Unchanging, shared, Go, Set
  <1>2. /\ written = [written EXCEPT ![w] = written[w]] /\ written[w] \in BOOLEAN
        /\ image_hash = [image_hash EXCEPT ![w] = image_hash[w]]
        /\ due = [due EXCEPT ![w] = due[w]] /\ due[w] \in BOOLEAN
        /\ user_uploaded = [user_uploaded EXCEPT ![f] = user_uploaded[f]]
        /\ user_uploaded[f] \in Image \cup {None, "nothing", "part", "both"}
    BY <1>1, InDownload DEF SearchInv, SearchTyped
  <1>3. PICK h \in {user_uploaded[f], image_hash[w]}, d \in BOOLEAN :
           /\ image_hash' = [image_hash EXCEPT ![w] = h]
           /\ due' = [due EXCEPT ![w] = d]
           /\ d => due[w] /\ h = user_uploaded[f]
           /\ Fault \/ NoFault
    BY <1>2 DEF HashUpload, Set
  <1>4. h \in Image \cup {None, "nothing", "part", "both"}
    BY <1>1, InDownload DEF SearchInv, SearchTyped
  <1>5. OwnFile(w)' /\ OnItsWay(w)'
    BY <1>1, <1>3, InDownload DEF OwnFile, OnItsWay, Sought, SearchInv, SearchTyped, ServerInv
  <1> QED
    BY <1>1, <1>2, <1>3, <1>4, <1>5, DownloadStep

(***************************************************************************)
(* Queries of a search, and the rest.                                      *)
(***************************************************************************)
(* A step of a query keeps what only downloads change.                     *)
LEMMA QueryStep ==
    ASSUME SearchInv, ServerInv', NEW w \in Worker,
           at[w] \in {"query", "exec", "finish"}, at'[w] \in {"query", "exec", "finish"},
           NEW d \in BOOLEAN, due' = [due EXCEPT ![w] = d],
           UNCHANGED <<handler, asked, url, out_filepath, written, image_hash, shared>>,
           \A v \in Worker : v # w => /\ left'[v] = left[v] /\ at'[v] = at[v]
                                      /\ res'[v] = res[v] /\ hits'[v] = hits[v],
           OwnHits(w)', OnItsWay(w)'
    PROVE  SearchInv'
PROOF
  <1>1. SearchTyped'
    BY DEF SearchInv, SearchTyped, shared
  <1>2. NumbersDiffer'
    BY DEF SearchInv, NumbersDiffer
  <1>3. ASSUME NEW v \in Worker, v # w PROVE Searching(v)'
    BY <1>3, Bystander DEF SearchInv, SearchTyped, shared
  <1>4. OwnFile(w)'
    BY DEF SearchInv, Searching, OwnFile, Sought, shared
  <1> QED
    BY <1>1, <1>2, <1>3, <1>4 DEF SearchInv, Searching

(* A query loses nothing of what the search knows.                         *)
LEMMA QueryInv ==
    ASSUME SearchInv, NEW w \in Worker, Query(w)
    PROVE  SearchInv'
PROOF
  <1> DEFINE d == due[w] /\ faults' = faults
  <1>1. /\ due' = [due EXCEPT ![w] = d] /\ d \in BOOLEAN
        /\ UNCHANGED <<url, out_filepath, written, image_hash, shared>>
    BY DEF Query, Set
  <1>2. d => due[w]
    OBVIOUS
  <1>3. Searching(w) /\ (d => faults' = faults)
    BY DEF SearchInv
  <1>4. SearchQueries # <<>> /\ Head(SearchQueries) = "webm"
    BY DEF SearchQueries
  <1>5. due'[w] => d
    BY <1>1 DEF SearchInv, SearchTyped
  <1>6. faults \in Nat
    BY DEF SearchInv, ServerInv, ServerTyped
  <1> HIDE DEF d
  <1>7. CASE Connect(w)
    <2>1. ServerInv'
      BY <1>7, ConnectInv DEF SearchInv
    <2>2. /\ at[w] = "query" /\ left[w] # <<>>
          /\ UNCHANGED <<handler, res, held, counted, asked>>
      BY <1>7 DEF Connect
    <2>3. CASE NoFault /\ Go(w, "exec") /\ UNCHANGED <<left, hits, refused>>
      <3>1. at' = [at EXCEPT ![w] = "exec"]
        BY <2>3 DEF Go, Set
      <3>2. OwnHits(w)' /\ OnItsWay(w)'
        BY <1>1, <1>2, <1>3, <1>5, <2>2, <2>3, <3>1
        DEF Searching, OwnHits, OnItsWay, Sought, shared, SearchInv, ServerInv
      <3> QED
        BY <1>1, <2>1, <2>2, <2>3, <3>1, <3>2, QueryStep DEF SearchInv, ServerInv
    <2>4. CASE Fault /\ Proceed(w, FALSE)
      <3>1. /\ at' = [at EXCEPT ![w] = "query"]
            /\ \A v \in Worker : v # w => left'[v] = left[v] /\ hits'[v] = hits[v]
        BY <2>2, <2>4, ProceedTyped DEF SearchInv, ServerInv
      <3>2. hits'[w] = hits[w]
        BY <2>4 DEF Proceed, Set, SearchInv, ServerInv, ServerTyped
      <3>3. ~d
        BY <1>3, <1>6, <2>4 DEF Fault
      <3>4. OwnHits(w)' /\ OnItsWay(w)'
        BY <1>1, <1>3, <1>5, <2>2, <3>1, <3>2, <3>3
        DEF Searching, OwnHits, OnItsWay, shared, SearchInv, ServerInv
      <3> QED
        BY <1>1, <2>1, <2>2, <3>1, <3>4, QueryStep DEF SearchInv, ServerInv
    <2> QED
      BY <1>7, <2>3, <2>4 DEF Connect
  <1>8. ASSUME NEW r, Exec(w, r), Answers(w, r) PROVE SearchInv'
    <2>1. ServerInv'
      BY <1>8, ExecInv DEF SearchInv
    <2>2. /\ at[w] = "exec" /\ at' = [at EXCEPT ![w] = "finish"]
          /\ res' = [res EXCEPT ![w] = r] /\ r \in {"rows", "empty", "error", "null"}
          /\ r \in {"error", "null"} => Fault
          /\ UNCHANGED <<handler, left, hits, held, asked>>
      BY <1>8 DEF Exec, Go, Set
    <2>3. handler[w] = "search" /\ r \in {"rows", "empty"} /\ Head(left[w]) = "webm" =>
              (r = "rows" <=> image_hash[w] \in webms)
      BY <1>8 DEF Answers
    <2>4. d => r \in {"rows", "empty"}
      BY <1>3, <1>6, <2>2 DEF Fault
    <2>5. OwnHits(w)'
      BY <1>1, <1>3, <2>2, <2>3 DEF Searching, OwnHits, shared, SearchInv, ServerInv, ServerTyped
    <2>6. OnItsWay(w)'
      BY <1>1, <1>2, <1>3, <1>4, <1>5, <2>2, <2>3, <2>4
      DEF Searching, OnItsWay, Sought, shared, SearchInv, ServerInv, ServerTyped
    <2>7. /\ at'[w] = "finish"
          /\ \A v \in Worker : v # w => /\ left'[v] = left[v] /\ at'[v] = at[v]
                                       /\ res'[v] = res[v] /\ hits'[v] = hits[v]
      BY <2>2 DEF SearchInv, ServerInv, ServerTyped
    <2> QED
      BY <1>1, <2>1, <2>2, <2>5, <2>6, <2>7, QueryStep
  <1>9. CASE Finish(w)
    <2>1. ServerInv'
      BY <1>9, FinishInv DEF SearchInv
    <2>2. /\ at[w] = "finish" /\ res' = [res EXCEPT ![w] = "none"]
          /\ UNCHANGED <<handler, refused, asked, faults>>
      BY <1>9 DEF Finish, Set
    <2>3. /\ at' = [at EXCEPT ![w] = "query"]
          /\ \A v \in Worker : v # w => left'[v] = left[v] /\ hits'[v] = hits[v]
      BY <1>9, <2>2, ProceedTyped DEF Finish, SearchInv, ServerInv, ServerTyped, Connected
    <2>4. hits'[w] = hits[w] \cup (IF res[w] = "rows" THEN {Head(left[w])} ELSE {})
      BY <1>9 DEF Finish, Proceed, Set, SearchInv, ServerInv, ServerTyped
    <2>5. OwnHits(w)'
      BY <1>1, <1>3, <2>2, <2>3, <2>4
      DEF Searching, OwnHits, shared, SearchInv, ServerInv
    <2>6. OnItsWay(w)'
      BY <1>1, <1>2, <1>3, <1>4, <1>5, <2>2, <2>3, <2>4
      DEF Searching, OnItsWay, Sought, shared, SearchInv, ServerInv
    <2>7. /\ at'[w] = "query"
          /\ \A v \in Worker : v # w => /\ left'[v] = left[v] /\ at'[v] = at[v]
                                       /\ res'[v] = res[v] /\ hits'[v] = hits[v]
      BY <2>2, <2>3 DEF SearchInv, ServerInv, ServerTyped
    <2> QED
      BY <1>1, <2>1, <2>2, <2>5, <2>6, <2>7, QueryStep
  <1> QED
    BY <1>7, <1>8, <1>9 DEF Query

(* A request of another kind arrives, or a page is sent.                   *)
LEMMA OtherInv ==
    ASSUME SearchInv, NEW w \in Worker, NEW h \in Others, Accept(w, h, "query"),
           UNCHANGED <<search, shared>>
    PROVE  SearchInv'
PROOF
  <1>1. h \in DOMAIN Plan /\ h # "search"
    BY DEF Others
  <1>2. ServerInv'
    BY <1>1, AcceptInv DEF SearchInv, Labels
  <1>3. /\ at[w] = "idle" /\ asked' = asked + 1 /\ asked \in Nat
        /\ handler' = [handler EXCEPT ![w] = h]
        /\ left' = [left EXCEPT ![w] = Plan[h]] /\ at' = [at EXCEPT ![w] = "query"]
        /\ UNCHANGED <<res, hits, held, pool, faults>>
    BY DEF Accept, Go, Set, SearchInv, ServerInv, ServerTyped
  <1>4. handler[w] = "none" /\ ~due[w]
    BY <1>3, PlanTyped DEF SearchInv, ServerInv, ServerTyped, Searching, OnItsWay
  <1>5. SearchTyped'
    BY <1>1, <1>3, <1>4 DEF SearchInv, SearchTyped, ServerInv, ServerTyped, search, shared
  <1>6. NumbersDiffer'
    BY <1>1, <1>3 DEF SearchInv, NumbersDiffer, ServerInv, ServerTyped, search
  <1>7. ASSUME NEW v \in Worker PROVE Searching(v)'
    <2>1. CASE v # w
      BY <1>3, <2>1, Bystander DEF SearchInv, SearchTyped, ServerInv, ServerTyped, search, shared
    <2>2. CASE v = w
      BY <1>1, <1>3, <1>4, <2>2
      DEF Searching, OwnFile, OwnHits, OnItsWay, SearchInv, ServerInv, ServerTyped, search
    <2> QED
      BY <2>1, <2>2
  <1> QED
    BY <1>2, <1>5, <1>6, <1>7 DEF SearchInv

(* The response says what the lookup found.                                *)
LEMMA SendInv ==
    ASSUME SearchInv, NEW w \in Worker, Send(w)
    PROVE  SearchInv'
PROOF
  <1>1. ServerInv'
    BY RespondInv DEF Send, SearchInv
  <1>2. /\ at' = [at EXCEPT ![w] = "idle"] /\ handler' = [handler EXCEPT ![w] = "none"]
        /\ hits' = [hits EXCEPT ![w] = {}]
        /\ UNCHANGED <<left, res, conns, refused, counted, asked, faults>>
    BY DEF Send, Respond, Go, Set
  <1>3. /\ url' = [url EXCEPT ![w] = None] /\ out_filepath' = [out_filepath EXCEPT ![w] = None]
        /\ written' = [written EXCEPT ![w] = FALSE] /\ image_hash' = [image_hash EXCEPT ![w] = None]
        /\ due' = [due EXCEPT ![w] = FALSE]
        /\ UNCHANGED shared
    BY DEF Send, Set
  <1>4. SearchTyped'
    BY <1>2, <1>3 DEF SearchInv, SearchTyped, ServerInv, ServerTyped, shared
  <1>5. NumbersDiffer'
    BY <1>2, <1>3 DEF SearchInv, NumbersDiffer, ServerInv, ServerTyped, SearchTyped
  <1>6. ASSUME NEW v \in Worker PROVE Searching(v)'
    <2>1. CASE v # w
      <3>1. /\ handler'[v] = handler[v] /\ left'[v] = left[v] /\ at'[v] = at[v]
            /\ res'[v] = res[v] /\ hits'[v] = hits[v]
        BY <1>2, <2>1 DEF SearchInv, ServerInv, ServerTyped
      <3>2. /\ url'[v] = url[v] /\ out_filepath'[v] = out_filepath[v]
            /\ written'[v] = written[v] /\ image_hash'[v] = image_hash[v] /\ due'[v] = due[v]
        BY <1>3, <2>1 DEF SearchInv, SearchTyped
      <3>3. UNCHANGED shared /\ drawn \in Nat /\ Searching(v)
        BY <1>3 DEF SearchInv, SearchTyped
      <3> QED
        BY <3>1, <3>2, <3>3, Bystander DEF shared
    <2>2. CASE v = w
      BY <1>2, <1>3, <2>2
      DEF Searching, OwnFile, OwnHits, OnItsWay, SearchInv, SearchTyped, ServerInv, ServerTyped
    <2> QED
      BY <2>1, <2>2
  <1> QED
    BY <1>1, <1>4, <1>5, <1>6 DEF SearchInv

(* A new webm makes no search miss what it was to find.                    *)
LEMMA NewWebmInv ==
    ASSUME SearchInv, NEW h \in Image, NewWebm(h)
    PROVE  SearchInv'
PROOF
  <1>1. webms' = webms \cup {h} /\ UNCHANGED <<server, search, user_uploaded, drawn>>
    BY DEF NewWebm
  <1> USE <1>1 DEF server, work, pool, search
  <1>2. NothingElseLost' = NothingElseLost
    BY DEF NothingElseLost, InHand, Connected
  <1>3. ServerInv'
    BY <1>2 DEF SearchInv, ServerInv, ServerTyped, Connected, CountsAnswered
  <1>4. SearchTyped' /\ NumbersDiffer'
    BY DEF SearchInv, SearchTyped, NumbersDiffer
  <1>5. ASSUME NEW v \in Worker PROVE Searching(v)'
    BY <1>5, Bystander DEF SearchInv, SearchTyped
  <1> QED
    BY <1>3, <1>4, <1>5 DEF SearchInv

(* A new process has no search under way.                                  *)
LEMMA StartAgainInv ==
    ASSUME SearchInv, StartAgain
    PROVE  SearchInv'
PROOF
  <1>1. ServerInv'
    BY RestartInv DEF StartAgain, SearchInv
  <1>2. \A w \in Worker : handler'[w] = "none" /\ at'[w] = "idle" /\ ~due'[w]
    BY DEF StartAgain, Restart
  <1>3. SearchTyped'
    BY <1>2 DEF StartAgain, Restart, SearchInv, SearchTyped
  <1>4. NumbersDiffer'
    BY <1>2 DEF NumbersDiffer
  <1>5. ASSUME NEW v \in Worker PROVE Searching(v)'
    BY <1>2 DEF Searching, OwnFile, OwnHits, OnItsWay
  <1> QED
    BY <1>1, <1>3, <1>4, <1>5 DEF SearchInv

(* At the start no search is under way.                                    *)
LEMMA SearchStarts == Init => SearchInv
PROOF
  <1> SUFFICES ASSUME Init PROVE SearchInv
    OBVIOUS
  <1>1. ServerInv
    BY ServerStarts DEF Init
  <1>2. \A w \in Worker : handler[w] = "none" /\ at[w] = "idle" /\ ~due[w]
    BY DEF Init, ServerInit
  <1>3. SearchTyped
    BY <1>2 DEF Init, ServerInit, SearchTyped
  <1>4. NumbersDiffer /\ \A v \in Worker : Searching(v)
    BY <1>2 DEF NumbersDiffer, Searching, OwnFile, OwnHits, OnItsWay
  <1> QED
    BY <1>1, <1>3, <1>4 DEF SearchInv

(* Every step of every worker keeps what is known of the searches.         *)
LEMMA SearchSteps == SearchInv /\ [Next]_vars => SearchInv'
PROOF
  <1> SUFFICES ASSUME SearchInv, [Next]_vars PROVE SearchInv'
    OBVIOUS
  <1>1. ASSUME NEW w \in Worker, Work(w) PROVE SearchInv'
    BY <1>1, OpenInv, PerformInv, CloseUploadInv, HashUploadInv, QueryInv, SendInv
    DEF Work, Download
  <1>2. CASE UNCHANGED vars
    <2> USE <1>2 DEF vars, server, work, pool, search, shared
    <2>1. NothingElseLost' = NothingElseLost
      BY DEF NothingElseLost, InHand, Connected
    <2>2. ServerInv'
      BY <2>1 DEF SearchInv, ServerInv, ServerTyped, Connected, CountsAnswered
    <2>3. SearchTyped' /\ NumbersDiffer'
      BY DEF SearchInv, SearchTyped, NumbersDiffer
    <2>4. ASSUME NEW v \in Worker PROVE Searching(v)'
      BY <2>4, Bystander DEF SearchInv, SearchTyped
    <2> QED
      BY <2>2, <2>3, <2>4 DEF SearchInv
  <1> QED
    BY <1>1, <1>2, NewWebmInv, OtherInv, SearchStep, StartAgainInv DEF Next

(* It holds in every history.                                              *)
LEMMA SearchInvariant == Spec => []SearchInv
PROOF BY SearchStarts, SearchSteps, PTL DEF Spec

(* Every variable has its type, in every state.                            *)
THEOREM Typing == Spec => []TypeOK
PROOF
  <1>1. SearchInv => TypeOK
    BY DEF SearchInv, SearchTyped, ServerInv, ServerTyped, TypeOK
  <1> QED
    BY <1>1, SearchInvariant, PTL

(* Whatever fails, only refused connections and counts lose anything.      *)
THEOREM OnlyCountsAndRefusalsLose == Spec => []NothingElseLost
PROOF
  <1>1. SearchInv => NothingElseLost
    BY DEF SearchInv, ServerInv
  <1> QED
    BY <1>1, SearchInvariant, PTL

(* A search shows the webm at its URL, however many others run and         *)
(* whatever earlier lives of the process left in the directory.            *)
THEOREM SearchesShowTheirWebm == Spec => []ShowsItsWebm
PROOF
  <1>1. ASSUME SearchInv, NEW w \in Worker, Answering(w), "webm" \in hits[w]
        PROVE  image_hash[w] = ImageAt[url[w]]
    <2>1. handler[w] = "search" /\ image_hash[w] \in Image
      BY <1>1 DEF Answering, SearchInv, SearchTyped, Searching, OwnHits
    <2> QED
      BY <1>1, <2>1 DEF SearchInv, Searching, OwnFile, Sought
  <1>2. SearchInv => ShowsItsWebm
    BY <1>1 DEF ShowsItsWebm
  <1> QED
    BY <1>2, SearchInvariant, PTL

(* A search for what was recorded finds it, unless it fails itself.        *)
THEOREM SearchesFindKnown == Spec => []FindsKnown
PROOF
  <1>1. ASSUME SearchInv, NEW w \in Worker, Answering(w), due[w]
        PROVE  "webm" \in hits[w]
    <2>1. left[w] = SearchQueries \/ "webm" \in hits[w]
      BY <1>1 DEF Answering, SearchInv, Searching, OnItsWay
    <2> QED
      BY <1>1, <2>1 DEF Answering, SearchQueries
  <1>2. SearchInv => FindsKnown
    BY <1>1 DEF FindsKnown
  <1> QED
    BY <1>2, SearchInvariant, PTL
=============================================================================
