---------------------------- MODULE BoardCache ----------------------------
(***************************************************************************)
(* The names of boards on the pages of mzbh (mzbh/filters.py): the filter  *)
(* id_to_board turns the category of every webm on a page into the name of *)
(* its board, from a map of all boards that flask_caching keeps in the     *)
(* memory of the process for CACHE_DEFAULT_TIMEOUT.  The threads that make *)
(* pages share the map; a scraper, another process, makes new boards.      *)
(*                                                                         *)
(* Time is counted in ticks.                                               *)
(***************************************************************************)
EXTENDS Naturals, Sequences

CONSTANTS
    Board,          \* the categories there may be
    Worker,         \* the threads that make pages
    Timeout,        \* CACHE_DEFAULT_TIMEOUT
    Slow,           \* bound on the time a page takes
    MaxRows         \* bound on the webms of a page, IMAGE_COUNT

ASSUME CacheAssumption ==
    Timeout \in Nat \ {0} /\ Slow \in Nat /\ MaxRows \in Nat

VARIABLES
    boards,         \* the rows of category
    age,            \* [Board -> 0..Timeout + Slow]: since then, at least
    cached,         \* the map kept: the boards it knows; {}: none, or empty
    ttl,            \* how long it is still kept
    view,           \* where the page a worker makes is
    rows,           \* the boards of the webms it has still to name
    new_val,        \* the boards it has read to fill the map with
    elapsed         \* how long it has taken

table == <<boards, age>>
map == <<cached, ttl>>
pages == <<view, rows, new_val, elapsed>>
vars == <<table, map, pages>>

Init ==
    /\ boards = {} /\ age = [b \in Board |-> 0]
    /\ cached = {} /\ ttl = 0
    /\ view = [w \in Worker |-> "idle"]
    /\ rows = [w \in Worker |-> <<>>]
    /\ new_val = [w \in Worker |-> {}]
    /\ elapsed = [w \in Worker |-> 0]

NewBoard(b) ==
    /\ b \notin boards
    /\ boards' = boards \cup {b}
    /\ UNCHANGED <<age, map, pages>>

(***************************************************************************)
(* A page.                                                                 *)
(***************************************************************************)
Go(w, l) == view' = [view EXCEPT ![w] = l]

(* The webms of the page are read: each has a board.                       *)
Ask(w) ==
    /\ view[w] = "idle"
    /\ Go(w, "name")
    /\ \E n \in 0..MaxRows : \E s \in [1..n -> boards] : rows' = [rows EXCEPT ![w] = s]
    /\ UNCHANGED <<table, map, new_val, elapsed>>

(* val[x] for the next webm: its name, or KeyError and the end of a page.  *)
LookUp(w, val) ==
    IF Head(rows[w]) \in val THEN Go(w, "name") /\ rows' = [rows EXCEPT ![w] = Tail(@)]
                             ELSE Go(w, "failed") /\ UNCHANGED rows

(* Mutant: what is asked for is kept for longer.                           *)
NameFromRenewed(w) ==
    /\ view[w] = "name" /\ rows[w] # <<>> /\ cached # {}
    /\ LookUp(w, cached)
    /\ ttl' = Timeout
    /\ UNCHANGED <<table, cached, new_val, elapsed>>

(* "if val": an empty map counts for none.                                 *)
NameFromCache(w) ==
    /\ view[w] = "name" /\ rows[w] # <<>> /\ cached # {}
    /\ LookUp(w, cached)
    /\ UNCHANGED <<table, map, new_val, elapsed>>

ReadBoards(w) ==
    /\ view[w] = "name" /\ rows[w] # <<>> /\ cached = {}
    /\ Go(w, "set")
    /\ new_val' = [new_val EXCEPT ![w] = boards]
    /\ UNCHANGED <<table, map, rows, elapsed>>

(* cache.set: whatever another worker has put there meanwhile.             *)
SetCache(w) ==
    /\ view[w] = "set"
    /\ cached' = new_val[w] /\ ttl' = Timeout
    /\ LookUp(w, new_val[w])
    /\ new_val' = [new_val EXCEPT ![w] = {}]
    /\ UNCHANGED <<table, elapsed>>

(* The page, or an error in its place, is sent.                            *)
Answer(w) ==
    /\ view[w] = "failed" \/ (view[w] = "name" /\ rows[w] = <<>>)
    /\ Go(w, "idle")
    /\ rows' = [rows EXCEPT ![w] = <<>>]
    /\ elapsed' = [elapsed EXCEPT ![w] = 0]
    /\ UNCHANGED <<table, map, new_val>>

(***************************************************************************)
(* Time passes; the process starts again with nothing in its memory.       *)
(***************************************************************************)
Making(w) == view[w] # "idle"

Clocks ==
    /\ \A w \in Worker : Making(w) => elapsed[w] < Slow
    /\ elapsed' = [w \in Worker |-> IF Making(w) THEN elapsed[w] + 1 ELSE 0]
    /\ age' = [b \in Board |->
                  IF b \in boards /\ age[b] < Timeout + Slow THEN age[b] + 1 ELSE age[b]]
    /\ UNCHANGED <<boards, view, rows, new_val>>

(* Mutant: what has expired is found all the same.                         *)
TickForever ==
    /\ Clocks
    /\ ttl' = IF ttl > 0 THEN ttl - 1 ELSE 0
    /\ UNCHANGED cached

Tick ==
    /\ Clocks
    /\ ttl' = IF ttl > 0 THEN ttl - 1 ELSE 0
    /\ cached' = IF ttl > 1 THEN cached ELSE {}

Restart ==
    /\ cached' = {} /\ ttl' = 0
    /\ view' = [w \in Worker |-> "idle"]
    /\ rows' = [w \in Worker |-> <<>>]
    /\ new_val' = [w \in Worker |-> {}]
    /\ elapsed' = [w \in Worker |-> 0]
    /\ UNCHANGED table

Make(w) == NameFromCache(w) \/ ReadBoards(w) \/ SetCache(w) \/ Answer(w)

Next ==
    \/ \E b \in Board : NewBoard(b)
    \/ \E w \in Worker : Ask(w) \/ Make(w)
    \/ Tick
    \/ Restart

Spec == Init /\ [][Next]_vars

(* A page that is begun is made, and time goes on.                         *)
FairSpec == Spec /\ (\A w \in Worker : WF_vars(Make(w))) /\ WF_vars(Tick)

(***************************************************************************)
(* Properties.                                                             *)
(***************************************************************************)
(* The map outlives its time to live in no state, what a worker has read   *)
(* is what it is about to store, and it names the board of some row.       *)
TypeOK ==
    /\ cached \subseteq boards /\ boards \subseteq Board
    /\ age \in [Board -> 0..Timeout + Slow]
    /\ ttl \in 0..Timeout /\ (ttl = 0 => cached = {})
    /\ view \in [Worker -> {"idle", "name", "set", "failed"}]
    /\ rows \in [Worker -> Seq(boards)]
    /\ new_val \in [Worker -> SUBSET boards]
    /\ elapsed \in [Worker -> 0..Slow]
    /\ \A w \in Worker :
          /\ Len(rows[w]) <= MaxRows
          /\ view[w] \in {"set", "failed"} => rows[w] # <<>>
          /\ new_val[w] # {} => view[w] = "set"

(* A page fails for a board only while the board is young: not longer than *)
(* the map is kept and the slowest page takes to fill it, though a worker  *)
(* that read the boards earlier may replace the map of a later one.        *)
FailsOnlyYoung ==
    [][\A w \in Worker : view[w] # "failed" /\ view'[w] = "failed" =>
          age[Head(rows[w])] < Timeout + Slow]_vars

(* For every board the day comes from which on no page fails for it.       *)
EventuallyNamed ==
    \A b \in Board :
        <>(b \in boards) =>
            <>[](\A w \in Worker : view[w] = "failed" => Head(rows[w]) # b)
=============================================================================
