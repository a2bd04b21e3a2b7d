------------------------- MODULE BoardCacheProofs -------------------------
(***************************************************************************)
(* Proofs about BoardCache, for all boards, threads and times.             *)
(***************************************************************************)
EXTENDS BoardCache, SequenceTheorems, TLAPS

USE CacheAssumption

(* The rows of a page are still rows of boards when there are more boards. *)
LEMMA RowsGrow ==
    ASSUME NEW S, NEW T, S \subseteq T, NEW f \in [Worker -> Seq(S)]
    PROVE  f \in [Worker -> Seq(T)]
PROOF
  <1>1. ASSUME NEW w \in Worker PROVE f[w] \in Seq(T)
    <2>1. f[w] \in Seq(S)
      OBVIOUS
    <2>2. \A k \in 1..Len(f[w]) : f[w][k] \in T
      BY <2>1
    <2> QED
      BY <2>1, <2>2, IsASeq
  <1> QED
    BY <1>1

(* Naming a row leaves the page typed, and in some place but "set".        *)
LEMMA LookUpTyped ==
    ASSUME TypeOK, NEW w \in Worker, NEW val, rows[w] # <<>>, LookUp(w, val)
    PROVE  /\ view' \in [Worker -> {"idle", "name", "set", "failed"}]
           /\ rows' \in [Worker -> Seq(boards)]
           /\ \A v \in Worker : Len(rows'[v]) <= MaxRows
           /\ \A v \in Worker : v # w => view'[v] = view[v]
           /\ view'[w] # "set"
           /\ view'[w] = "failed" => rows'[w] # <<>>
           /\ \A v \in Worker : v # w => rows'[v] = rows[v]
PROOF
  <1> DEFINE s == rows[w]
  <1>1. s \in Seq(boards) /\ Len(s) <= MaxRows
    BY DEF TypeOK
  <1>2. Tail(s) \in Seq(boards) /\ Len(Tail(s)) <= MaxRows
    BY <1>1, HeadTailProperties
  <1> QED
    BY <1>1, <1>2 DEF TypeOK, LookUp, Go

(* The types hold at the start.                                            *)
LEMMA InitTyped == Init => TypeOK
PROOF BY EmptySeq DEF Init, TypeOK

(* The types are kept by every step.                                       *)
LEMMA StepTyped == TypeOK /\ [Next]_vars => TypeOK'
PROOF
  <1> SUFFICES ASSUME TypeOK, [Next]_vars PROVE TypeOK'
    OBVIOUS
  <1>1. ASSUME NEW b \in Board, NewBoard(b) PROVE TypeOK'
    <2>1. rows' \in [Worker -> Seq(boards')]
      BY <1>1, RowsGrow DEF TypeOK, NewBoard, pages
    <2> QED
      BY <1>1, <2>1 DEF TypeOK, NewBoard, map, pages
  <1>2. ASSUME NEW w \in Worker, Ask(w) PROVE TypeOK'
    <2>n. PICK n \in 0..MaxRows : \E s \in [1..n -> boards] : rows' = [rows EXCEPT ![w] = s]
      BY <1>2 DEF Ask
    <2>1. PICK s \in [1..n -> boards] : rows' = [rows EXCEPT ![w] = s]
      BY <2>n
    <2>2. s \in Seq(boards) /\ Len(s) <= MaxRows
      BY <2>1
    <2>3. rows' \in [Worker -> Seq(boards)] /\ \A v \in Worker : Len(rows'[v]) <= MaxRows
      BY <2>1, <2>2 DEF TypeOK
    <2> QED
      BY <1>2, <2>3 DEF TypeOK, Ask, Go, table, map
  <1>3. ASSUME NEW w \in Worker, NameFromCache(w) PROVE TypeOK'
    BY <1>3, LookUpTyped DEF TypeOK, NameFromCache, table, map
  <1>4. ASSUME NEW w \in Worker, ReadBoards(w) PROVE TypeOK'
    BY <1>4 DEF TypeOK, ReadBoards, Go, table, map
  <1>5. ASSUME NEW w \in Worker, SetCache(w) PROVE TypeOK'
    BY <1>5, LookUpTyped DEF TypeOK, SetCache, table
  <1>6. ASSUME NEW w \in Worker, Answer(w) PROVE TypeOK'
    BY <1>6, EmptySeq DEF TypeOK, Answer, Go, table, map
  <1>7. CASE Tick
    BY <1>7 DEF TypeOK, Tick, Clocks, Making
  <1>8. CASE Restart
    BY <1>8, EmptySeq DEF TypeOK, Restart, table
  <1>9. CASE UNCHANGED vars
    BY <1>9 DEF TypeOK, vars, table, map, pages
  <1> QED
    BY <1>1, <1>2, <1>3, <1>4, <1>5, <1>6, <1>7, <1>8, <1>9 DEF Next, Make

(* Every variable has its type, in every state.                            *)
THEOREM Typing == Spec => []TypeOK
PROOF
  <1> QED
    BY InitTyped, StepTyped, PTL DEF Spec

(***************************************************************************)
(* How old a board can be that a map lacks.                                *)
(***************************************************************************)
(* A board that does not exist has no age.                                 *)
UnbornAgeless == \A b \in Board \ boards : age[b] = 0

(* What a worker has read lacks no board that is older than its page.      *)
ReadLacksYoung ==
    \A w \in Worker : view[w] = "set" =>
        \A b \in boards \ new_val[w] : age[b] <= elapsed[w]

(* The map lacks no board that is older than itself and a page.            *)
MapLacksYoung ==
    cached # {} => \A b \in boards \ cached : age[b] + ttl <= Timeout + Slow

AgesInv == TypeOK /\ UnbornAgeless /\ ReadLacksYoung /\ MapLacksYoung

(* At the start there are no boards.                                       *)
LEMMA InitAges == Init => AgesInv
PROOF BY InitTyped DEF Init, AgesInv, UnbornAgeless, ReadLacksYoung, MapLacksYoung

(* Every step keeps what is known of the ages of the boards that are       *)
(* lacking.                                                                *)
LEMMA StepAges == AgesInv /\ [Next]_vars => AgesInv'
PROOF
  <1> SUFFICES ASSUME AgesInv, [Next]_vars
               PROVE  UnbornAgeless' /\ ReadLacksYoung' /\ MapLacksYoung'
    BY StepTyped DEF AgesInv
  <1> USE DEF AgesInv, UnbornAgeless, ReadLacksYoung, MapLacksYoung
  <1>1. ASSUME NEW b \in Board, NewBoard(b)
        PROVE  UnbornAgeless' /\ ReadLacksYoung' /\ MapLacksYoung'
    <2>1. age[b] = 0
      BY <1>1 DEF NewBoard
    <2> QED
      BY <1>1, <2>1 DEF TypeOK, NewBoard, map, pages
  <1>2. ASSUME NEW w \in Worker, Ask(w)
        PROVE  UnbornAgeless' /\ ReadLacksYoung' /\ MapLacksYoung'
    BY <1>2 DEF TypeOK, Ask, Go, table, map
  <1>3. ASSUME NEW w \in Worker, NameFromCache(w)
        PROVE  UnbornAgeless' /\ ReadLacksYoung' /\ MapLacksYoung'
    <2>1. \A v \in Worker : view'[v] = "set" => view[v] = "set"
      BY <1>3, LookUpTyped DEF NameFromCache
    <2> QED
      BY <1>3, <2>1 DEF NameFromCache, table, map
  <1>4. ASSUME NEW w \in Worker, ReadBoards(w)
        PROVE  UnbornAgeless' /\ ReadLacksYoung' /\ MapLacksYoung'
    BY <1>4 DEF TypeOK, ReadBoards, Go, table, map
  <1>5. ASSUME NEW w \in Worker, SetCache(w)
        PROVE  UnbornAgeless' /\ ReadLacksYoung' /\ MapLacksYoung'
    <2>1. \A v \in Worker : view'[v] = "set" => view[v] = "set" /\ v # w
      BY <1>5, LookUpTyped DEF SetCache, TypeOK
    <2>2. ReadLacksYoung'
      BY <1>5, <2>1 DEF SetCache, TypeOK, table
    <2>3. \A b \in boards \ new_val[w] : age[b] <= elapsed[w]
      BY <1>5 DEF SetCache
    <2>4. MapLacksYoung'
      BY <1>5, <2>3 DEF SetCache, TypeOK, table
    <2> QED
      BY <1>5, <2>2, <2>4 DEF SetCache, table
  <1>6. ASSUME NEW w \in Worker, Answer(w)
        PROVE  UnbornAgeless' /\ ReadLacksYoung' /\ MapLacksYoung'
    BY <1>6 DEF TypeOK, Answer, Go, table, map
  <1>7. CASE Tick
    <2>1. \A b \in Board : age'[b] <= age[b] + 1 /\ (b \notin boards => age'[b] = age[b])
      BY <1>7 DEF TypeOK, Tick, Clocks
    <2>2. ReadLacksYoung'
      BY <1>7, <2>1 DEF TypeOK, Tick, Clocks, Making
    <2>3. MapLacksYoung'
      BY <1>7, <2>1 DEF TypeOK, Tick, Clocks
    <2> QED
      BY <1>7, <2>1, <2>2, <2>3 DEF Tick, Clocks
  <1>8. CASE Restart
    BY <1>8 DEF TypeOK, Restart, table
  <1>9. CASE UNCHANGED vars
    BY <1>9 DEF vars, table, map, pages
  <1> QED
    BY <1>1, <1>2, <1>3, <1>4, <1>5, <1>6, <1>7, <1>8, <1>9 DEF Next, Make

(* A page that fails does so where a worker looks a row up: in the map,    *)
(* which is then still kept, or in what the worker has just read.          *)
LEMMA FailingStep ==
    AgesInv /\ [Next]_vars =>
        \A w \in Worker : view[w] # "failed" /\ view'[w] = "failed" =>
            age[Head(rows[w])] < Timeout + Slow
PROOF
  <1> SUFFICES ASSUME AgesInv, [Next]_vars, NEW w \in Worker,
                      view[w] # "failed", view'[w] = "failed"
               PROVE  age[Head(rows[w])] < Timeout + Slow
    OBVIOUS
  <1> DEFINE b == Head(rows[w])
  <1>1. ASSUME NEW v \in Worker, NEW val, LookUp(v, val)
        PROVE  v = w /\ b \notin val
    BY <1>1 DEF AgesInv, TypeOK, LookUp, Go
  <1>2. ASSUME rows[w] # <<>> PROVE b \in boards
    BY <1>2, HeadTailProperties DEF AgesInv, TypeOK
  <1>3. ASSUME NEW v \in Worker, NameFromCache(v) PROVE age[b] < Timeout + Slow
    <2>1. v = w /\ b \notin cached /\ rows[w] # <<>> /\ cached # {}
      BY <1>1, <1>3 DEF NameFromCache
    <2>2. b \in boards /\ b \in Board /\ ttl \in 1..Timeout /\ age[b] \in Nat
      BY <1>2, <2>1 DEF AgesInv, TypeOK
    <2>3. age[b] + ttl <= Timeout + Slow
      BY <2>1, <2>2 DEF AgesInv, MapLacksYoung
    <2> QED
      BY <2>2, <2>3
  <1>4. ASSUME NEW v \in Worker, SetCache(v) PROVE age[b] < Timeout + Slow
    <2>1. v = w /\ b \notin new_val[w] /\ view[w] = "set"
      BY <1>1, <1>4 DEF SetCache
    <2>2. b \in boards /\ b \in Board /\ elapsed[w] \in 0..Slow /\ age[b] \in Nat
      BY <1>2, <2>1 DEF AgesInv, TypeOK
    <2>3. age[b] <= elapsed[w]
      BY <2>1, <2>2 DEF AgesInv, ReadLacksYoung
    <2> QED
      BY <2>2, <2>3
  <1>5. ASSUME NEW c \in Board, NewBoard(c) PROVE FALSE
    BY <1>5 DEF NewBoard, pages
  <1>6. ASSUME NEW v \in Worker, Ask(v) \/ ReadBoards(v) \/ Answer(v) PROVE FALSE
    BY <1>6 DEF AgesInv, TypeOK, Ask, ReadBoards, Answer, Go
  <1>7. ASSUME Tick \/ Restart \/ UNCHANGED vars PROVE FALSE
    BY <1>7 DEF Tick, Clocks, Restart, vars, pages
  <1> QED
    BY <1>3, <1>4, <1>5, <1>6, <1>7 DEF Next, Make

(* A page fails only for a board younger than a map and a page together,   *)
(* whatever worker stores its map over whose.                              *)
THEOREM FailsOnlyForYoung == Spec => FailsOnlyYoung
PROOF
  <1>1. Init => AgesInv
    BY InitAges
  <1>2. AgesInv /\ [Next]_vars => AgesInv'
    BY StepAges
  <1>3. AgesInv /\ [Next]_vars =>
            [\A w \in Worker : view[w] # "failed" /\ view'[w] = "failed" =>
                age[Head(rows[w])] < Timeout + Slow]_vars
    BY FailingStep
  <1> QED
    BY <1>1, <1>2, <1>3, PTL DEF Spec, FailsOnlyYoung
=============================================================================
