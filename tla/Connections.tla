--------------------------- MODULE Connections ---------------------------
(***************************************************************************)
(* The requests of the C server and their queries (old/src/server.c with   *)
(* db.c and models.c).  Every query opens a connection of its own, and the *)
(* threads that answer requests share nothing but the process: what the    *)
(* library has allocated for one of them and nobody gives back is gone     *)
(* until the process ends.                                                 *)
(*                                                                         *)
(* What a query finds is left open here; UrlSearch says more.              *)
(***************************************************************************)
EXTENDS Naturals, Sequences, FiniteSets

CONSTANTS
    Worker,         \* the threads of the server
    MaxRequests,    \* bound on the requests of one life of the process
    MaxFaults       \* bound on what goes wrong

ASSUME ServerAssumption ==
    IsFiniteSet(Worker) /\ MaxRequests \in Nat /\ MaxFaults \in Nat

VARIABLES
    handler,        \* what a worker answers
    left,           \* the queries it has still to make
    at,             \* where it is
    res,            \* the result of the query in hand
    hits,           \* the queries that have found something
    held,           \* results a worker reads and has to clear
    conns, results, \* PGconn and PGresult objects that are allocated
    refused,        \* history: connections that could not be made
    counted,        \* history: rows that have been counted
    asked,          \* requests so far
    faults          \* what may still go wrong

work == <<handler, left, at, res, hits, held>>
pool == <<conns, results, refused, counted>>
server == <<work, pool, asked, faults>>

(* What a query gives its handler: a number, the result itself to read, or *)
(* a copy of the first row.                                                *)
Counts == {"webms", "aliases", "posts"}
Lists == {"per day", "posts of thread", "popular", "aliases of webm"}
Copies == {"thread", "webm", "alias", "post"}
Queries == Counts \cup Lists \cup Copies

(* The queries of the handlers, in order.  admin_index_handler makes those *)
(* of index_handler.                                                       *)
IndexQueries == <<"webms", "aliases", "posts">>
StatsQueries == <<"per day", "per day", "per day">>
ThreadQueries == <<"thread", "posts of thread">>
ByAliasQueries == <<"popular">>
PageQueries == <<"webm", "alias", "post", "aliases of webm">>
SearchQueries == <<"webm", "alias", "post">>

Plan == [index    |-> IndexQueries,
         stats    |-> StatsQueries,
         thread   |-> ThreadQueries,
         by_alias |-> ByAliasQueries,
         page     |-> PageQueries,
         search   |-> SearchQueries]

(* Whether a handler goes on to a query after what it has found.           *)
Wanted(h, q, found) ==
    CASE h = "thread" -> "thread" \in found
      [] h = "page" /\ q \in {"post", "aliases of webm"} -> found \cap {"webm", "alias"} # {}
      [] h = "search" /\ q = "post" -> "webm" \in found
      [] OTHER -> TRUE

ServerInit ==
    /\ handler = [w \in Worker |-> "none"]
    /\ left = [w \in Worker |-> <<>>]
    /\ at = [w \in Worker |-> "idle"]
    /\ res = [w \in Worker |-> "none"]
    /\ hits = [w \in Worker |-> {}]
    /\ held = [w \in Worker |-> 0]
    /\ conns = 0 /\ results = 0 /\ refused = 0 /\ counted = 0
    /\ asked = 0
    /\ faults = MaxFaults

Set(f, w, x) == [f EXCEPT ![w] = x]
Go(w, l) == at' = Set(at, w, l)
Fault == faults > 0 /\ faults' = faults - 1
NoFault == UNCHANGED faults

(* A request arrives at an idle worker, which starts at label l.           *)
Accept(w, h, l) ==
    /\ at[w] = "idle" /\ asked < MaxRequests
    /\ asked' = asked + 1
    /\ handler' = Set(handler, w, h) /\ left' = Set(left, w, Plan[h])
    /\ Go(w, l)
    /\ UNCHANGED <<res, hits, held, pool, faults>>

(***************************************************************************)
(* A query.                                                                *)
(***************************************************************************)
(* The handler has the answer of the query, or NULL, and goes on.          *)
Proceed(w, hit) ==
    LET found == hits[w] \cup (IF hit THEN {Head(left[w])} ELSE {})
        rest == Tail(left[w])
    IN /\ hits' = Set(hits, w, found)
       /\ left' = Set(left, w,
             IF rest # <<>> /\ Wanted(handler[w], Head(rest), found) THEN rest ELSE <<>>)
       /\ Go(w, "query")

(* _get_pg_connection: a connection that failed is dropped unfinished.     *)
Connect(w) ==
    /\ at[w] = "query" /\ left[w] # <<>>
    /\ conns' = conns + 1
    /\ \/ /\ NoFault /\ Go(w, "exec")
          /\ UNCHANGED <<left, hits, refused>>
       \/ /\ Fault /\ Proceed(w, FALSE)
          /\ refused' = refused + 1
    /\ UNCHANGED <<handler, res, held, results, counted, asked>>

(* PQexec, PQexecParams: the rows asked for, none, or a failure, with or   *)
(* without a result that says so.                                          *)
Exec(w, r) ==
    /\ at[w] = "exec"
    /\ r \in {"rows", "empty", "error", "null"}
    /\ IF r \in {"error", "null"} THEN Fault ELSE NoFault
    /\ Head(left[w]) \in Counts => r # "empty"
    /\ res' = Set(res, w, r)
    /\ results' = IF r = "null" THEN results ELSE results + 1
    /\ Go(w, "finish")
    /\ UNCHANGED <<handler, left, hits, held, conns, refused, counted, asked>>

(* The result is cleared before the function returns if it is an error, or *)
(* has been copied from; a list is returned, and a count forgotten.        *)
Clears(w) ==
    \/ res[w] = "error"
    \/ res[w] \in {"rows", "empty"} /\ Head(left[w]) \in Copies

Returns(w) == res[w] \in {"rows", "empty"} /\ Head(left[w]) \in Lists

Finish(w) ==
    /\ at[w] = "finish"
    /\ conns' = conns - 1
    /\ results' = IF Clears(w) THEN results - 1 ELSE results
    /\ held' = Set(held, w, IF Returns(w) THEN held[w] + 1 ELSE held[w])
    /\ counted' = IF res[w] = "rows" /\ Head(left[w]) \in Counts THEN counted + 1 ELSE counted
    /\ res' = Set(res, w, "none")
    /\ Proceed(w, res[w] = "rows")
    /\ UNCHANGED <<handler, refused, asked, faults>>

(* Mutant: what was found is still known to the next request.              *)
RespondUnreset(w) ==
    /\ at[w] = "query" /\ left[w] = <<>>
    /\ Go(w, "idle")
    /\ handler' = Set(handler, w, "none")
    /\ results' = results - held[w] /\ held' = Set(held, w, 0)
    /\ UNCHANGED <<left, res, hits, conns, refused, counted, asked, faults>>

(* The lists are cleared and the page is sent.                             *)
Respond(w) ==
    /\ at[w] = "query" /\ left[w] = <<>>
    /\ Go(w, "idle")
    /\ handler' = Set(handler, w, "none")
    /\ results' = results - held[w] /\ held' = Set(held, w, 0)
    /\ hits' = Set(hits, w, {})
    /\ UNCHANGED <<left, res, conns, refused, counted, asked, faults>>

(* Another life of the process: all its memory is new.                     *)
Restart ==
    /\ Fault
    /\ handler' = [w \in Worker |-> "none"]
    /\ left' = [w \in Worker |-> <<>>]
    /\ at' = [w \in Worker |-> "idle"]
    /\ res' = [w \in Worker |-> "none"]
    /\ hits' = [w \in Worker |-> {}]
    /\ held' = [w \in Worker |-> 0]
    /\ conns' = 0 /\ results' = 0 /\ refused' = 0 /\ counted' = 0
    /\ asked' = 0

(***************************************************************************)
(* Properties.                                                             *)
(***************************************************************************)
Connected(w) == at[w] \in {"exec", "finish"}

ServerTyped ==
    /\ handler \in [Worker -> DOMAIN Plan \cup {"none"}]
    /\ left \in [Worker -> Seq(Queries)]
    /\ res \in [Worker -> {"none", "rows", "empty", "error", "null"}]
    /\ hits \in [Worker -> SUBSET Queries]
    /\ held \in [Worker -> Nat]
    /\ \A w \in Worker :
          /\ at[w] = "idle" <=> handler[w] = "none"
          /\ at[w] = "idle" => left[w] = <<>> /\ hits[w] = {} /\ held[w] = 0
          /\ at[w] = "finish" <=> res[w] # "none"
          /\ Connected(w) => left[w] # <<>>
    /\ conns \in Nat /\ results \in Nat /\ refused \in Nat /\ counted \in Nat
    /\ asked \in 0..MaxRequests /\ faults \in 0..MaxFaults

Quiet == \A w \in Worker : at[w] = "idle"

(* When no request is being answered, neither results nor connections are  *)
(* kept, those that could not be made included: the server can run         *)
(* indefinitely.                                                           *)
NothingLeaks == Quiet => results = 0 /\ conns = 0

(* Whatever fails at whichever worker, every connection and every result   *)
(* is in somebody's hands, but for one connection each time one is refused *)
(* and one result each time rows are counted.                              *)
InHand(w) == held[w] + (IF at[w] = "finish" /\ res[w] # "null" THEN 1 ELSE 0)

NothingElseLost ==
    /\ conns = refused + Cardinality({w \in Worker : Connected(w)})
    /\ results = counted + Cardinality(UNION {{w} \X (1..InHand(w)) : w \in Worker})
=============================================================================
