------------------------------ MODULE Paging ------------------------------
(***************************************************************************)
(* Lists of webms shown a page at a time, and a reader who follows the     *)
(* link to the next page while webms are added and move: the C server's    *)
(* boards and its list by popularity (old/src/server.c), and the views of  *)
(* mzbh/blueprints/main.py.                                                *)
(*                                                                         *)
(* A list is the order its key induces.  Boards of the C server are        *)
(* ordered by the time stat finds, which for a link is the time of the     *)
(* file it leads to: a new copy appears at the top, disappears, and comes  *)
(* back as a link further down.                                            *)
(***************************************************************************)
EXTENDS Naturals, FiniteSets

CONSTANTS
    Handler,        \* the lists a reader can walk through
    PerPage,        \* RESULTS_PER_PAGE, IMAGE_COUNT
    MaxWebms,       \* [Handler -> Nat], bound on the webms that ever appear
    MaxMoves        \* bound on what moves while the reader reads

ASSUME PagingAssumption ==
    /\ Handler \subseteq {"board", "by_alias", "newest", "popular"}
    /\ PerPage \in Nat \ {0}
    /\ MaxWebms \in [Handler -> Nat] /\ MaxMoves \in Nat

VARIABLES
    handler,        \* which list the reader walks through
    webms,          \* the webms, numbered as they were found
    clock,          \* how many there have been, files written again included
    time,           \* when the file of a webm was written, 0: never
    copies,         \* how many aliases a webm has
    away,           \* webms between unlink and symlink
    reader,         \* "away", "asks", "counted", "reads", "done"
    page,           \* the page asked for
    count,          \* the number of webms the page goes by
    present, seen,  \* what was there when the round began; what it has seen
    moves,          \* what has moved since
    tied            \* by_alias: webms that had as many aliases as another since

list == <<handler, webms, clock, time, copies, away>>
walk == <<reader, page, count, present, seen>>
vars == <<list, walk, moves, tied>>

Flask == handler \in {"newest", "popular"}
ByAlias == handler \in {"by_alias", "popular"}

Number == 1..MaxWebms[handler]
Times == 0..MaxWebms[handler] + MaxMoves

(***************************************************************************)
(* The order of a list and its pages.                                      *)
(***************************************************************************)
Newer(x, y) == time[x] > time[y] \/ (time[x] = time[y] /\ x > y)

(* compare_dates, ORDER BY: the Flask views order by popularity and then   *)
(* by age, the query of the C server by the number of aliases alone.       *)
Before(x, y) ==
    \/ ByAlias /\ copies[x] > copies[y]
    \/ ~ByAlias /\ Newer(x, y)
    \/ handler = "popular" /\ copies[x] = copies[y] /\ Newer(x, y)

Rank(x) == Cardinality({y \in webms : Before(y, x)})

(* What can come first when n rows are taken: of those that tie, any.      *)
Top(n) ==
    {F \in SUBSET webms :
        /\ Cardinality(F) = IF n < Cardinality(webms) THEN n ELSE Cardinality(webms)
        /\ \A x \in F, y \in webms \ F : ~Before(y, x)}

(* Mutant: the offset counts from one.                                     *)
RowsFromOne(p) ==
    UNION {{G \ F : G \in {H \in Top((p + 1) * PerPage + 1) : F \subseteq H}} :
            F \in Top(p * PerPage + 1)}

(* LIMIT and OFFSET: what a page can show.                                 *)
Rows(p) ==
    UNION {{G \ F : G \in {H \in Top((p + 1) * PerPage) : F \subseteq H}} :
            F \in Top(p * PerPage)}

(* The number a page of these rows shows and computes its links from: the  *)
(* C list by popularity counts the rows of the page.                       *)
Total(rows) == IF handler = "by_alias" THEN Cardinality(rows) ELSE Cardinality(webms)

(* Mutant: the empty link of the last page leads to that page again.       *)
NextPageStays(p, total) == IF p < total \div PerPage THEN p + 1 ELSE p

(* The link to the next page.  The C templates always render it: without a *)
(* number it leads to page 0, which is what strtol makes of it.  The last  *)
(* page of a Flask view links to itself.                                   *)
NextOfBoard(p, total) == IF p < total \div PerPage THEN p + 1 ELSE 0

NextOfView(p, total) ==
    IF p + 1 < total \div PerPage THEN p + 1 ELSE total \div PerPage

(* Mutant: the links end where the list of page numbers does.              *)
NextPageListed(p, total) == IF p + 1 < total \div PerPage THEN p + 1 ELSE 0

NextPage(p, total) == IF Flask THEN NextOfView(p, total) ELSE NextOfBoard(p, total)

(***************************************************************************)
(* The list changes.                                                       *)
(***************************************************************************)
Init ==
    /\ handler \in Handler
    /\ webms = {} /\ clock = 0
    /\ time = [x \in Number |-> 0] /\ copies = [x \in Number |-> 0]
    /\ away = {}
    /\ reader = "away" /\ page = 0 /\ count = 0
    /\ present = {} /\ seen = {}
    /\ moves = 0 /\ tied = {}

Reading == reader \notin {"away", "done"}
Moved == IF Reading THEN moves < MaxMoves /\ moves' = moves + 1 ELSE UNCHANGED moves

Ties ==
    IF handler = "by_alias"
        THEN {x \in webms : \E y \in webms \ {x} : copies[y] = copies[x]}
        ELSE {}

NewWebm ==
    LET x == Cardinality(webms \cup away) + 1
    IN /\ x \in Number
       /\ webms' = webms \cup {x}
       /\ clock < MaxWebms[handler] + MaxMoves /\ clock' = clock + 1
       /\ time' = [time EXCEPT ![x] = clock + 1]
       /\ IF reader = "counted" THEN Moved ELSE UNCHANGED moves
       /\ UNCHANGED <<handler, copies, away, walk>>

(* Mutant: the directory is read before, and stat after the file has gone. *)
UnlinkListed(x) ==
    /\ handler = "board" /\ x \in webms
    /\ \E y \in webms : time[y] < time[x]
    /\ away' = away \cup {x}
    /\ Moved
    /\ UNCHANGED <<handler, webms, clock, time, copies, walk>>

(* A repost's file is removed ...                                          *)
Unlink(x) ==
    /\ handler = "board" /\ x \in webms
    /\ \E y \in webms : time[y] < time[x]
    /\ webms' = webms \ {x} /\ away' = away \cup {x}
    /\ Moved
    /\ UNCHANGED <<handler, clock, time, copies, walk>>

(* ... and is back as a link, as old as the file it leads to.              *)
Symlink(x) ==
    /\ x \in away
    /\ webms' = webms \cup {x} /\ away' = away \ {x}
    /\ \E y \in webms : time[y] < time[x] /\ time' = [time EXCEPT ![x] = time[y]]
    /\ Moved
    /\ UNCHANGED <<handler, clock, copies, walk>>

(* A file that was cut is downloaded again.                                *)
Refetch(x) ==
    /\ handler = "board" /\ x \in webms /\ clock < MaxWebms[handler] + MaxMoves
    /\ clock' = clock + 1
    /\ time' = [time EXCEPT ![x] = clock + 1]
    /\ Moved
    /\ UNCHANGED <<handler, webms, copies, away, walk>>

NewAlias(x) ==
    /\ ByAlias /\ x \in webms /\ copies[x] < MaxMoves
    /\ copies' = [copies EXCEPT ![x] = @ + 1]
    /\ Moved
    /\ UNCHANGED <<handler, webms, clock, time, away, walk>>

(***************************************************************************)
(* The reader.                                                             *)
(***************************************************************************)
(* The first page, and the first page again once the links have led there. *)
Begin ==
    /\ reader = "away" \/ (reader = "done" /\ page = 0)
    /\ reader' = "asks" /\ page' = 0
    /\ present' = webms /\ seen' = {}
    /\ moves' = 0 /\ tied' = Ties
    /\ UNCHANGED <<list, count>>

(* The C handlers list and count at once.                                  *)
ShowPage ==
    /\ reader = "asks" /\ ~Flask
    /\ reader' = "reads"
    /\ \E rows \in Rows(page) : count' = Total(rows) /\ seen' = seen \cup rows
    /\ UNCHANGED <<list, page, present, moves, tied>>

(* The Flask views count, and query the rows when the template wants them. *)
CountRows ==
    /\ reader = "asks" /\ Flask
    /\ reader' = "counted"
    /\ count' = Cardinality(webms)
    /\ UNCHANGED <<list, page, present, seen, moves, tied>>

QueryRows ==
    /\ reader = "counted"
    /\ reader' = "reads"
    /\ \E rows \in Rows(page) : seen' = seen \cup rows
    /\ UNCHANGED <<list, page, count, present, moves, tied>>

(* A round is done when the link leads no further down.                    *)
FollowLink ==
    /\ reader = "reads"
    /\ page' = NextPage(page, count)
    /\ reader' = IF page' > page THEN "asks" ELSE "done"
    /\ UNCHANGED <<list, count, present, seen, moves, tied>>

(* What the list does between two rounds it may as well do in the next.    *)
Change ==
    /\ reader # "done"
    /\ \/ NewWebm
       \/ \E x \in Number : Unlink(x) \/ Symlink(x) \/ Refetch(x) \/ NewAlias(x)
    /\ tied' = IF Reading THEN tied \cup Ties' ELSE tied

Read == Begin \/ ShowPage \/ CountRows \/ QueryRows \/ FollowLink

Next == Change \/ Read

Spec == Init /\ [][Next]_vars

(* The reader goes on reading.                                             *)
FairSpec == Spec /\ WF_vars(Read)

(***************************************************************************)
(* Properties.                                                             *)
(***************************************************************************)
TypeOK ==
    /\ handler \in Handler
    /\ webms \subseteq Number /\ away \subseteq Number
    /\ webms \cap away = {}
    /\ clock \in Times
    /\ time \in [Number -> Times] /\ copies \in [Number -> 0..MaxMoves]
    /\ reader \in {"away", "asks", "counted", "reads", "done"}
    /\ page \in Nat /\ count \in 0..MaxWebms[handler]
    /\ present \subseteq Number /\ seen \subseteq Number
    /\ moves \in 0..MaxMoves /\ tied \subseteq Number

(* The links of the C list by popularity lead to two pages: it takes the   *)
(* rows of a page for all there are.                                       *)
OutOfReach == {x \in webms : Rank(x) >= 2 * PerPage}

(* However many webms are added on top, the reader who goes from page to   *)
(* page of a list with a complete order misses none of those that were     *)
(* there when the round began, but at most one for each webm that moved    *)
(* meanwhile, or that came between the two queries of a Flask view.        *)
MissesOnlyWhatMoved ==
    reader = "done" /\ handler # "by_alias" => Cardinality(present \ seen) <= moves

(* The C list by popularity says nothing of webms with as many aliases as  *)
(* one another, and two of its pages may order them differently.  A webm   *)
(* that had its number of aliases to itself for the whole round, however   *)
(* that number and those of others rose, is missed only on the third page  *)
(* and further, where no link leads.                                       *)
MissesOnlyTied ==
    reader = "done" /\ handler = "by_alias" => present \ seen \subseteq tied \cup OutOfReach

(* Once a board has come to rest its reader, whom the last page sends back *)
(* to the first, sees each of its webms in round after round.              *)
ComesRound ==
    handler = "board" /\ <>[][FALSE]_list =>
        \A x \in 1..MaxWebms["board"] : []<>(x \in webms) => []<>(x \in seen)
=============================================================================
