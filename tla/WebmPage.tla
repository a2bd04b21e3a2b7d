----------------------------- MODULE WebmPage -----------------------------
(***************************************************************************)
(* The page of a webm (webm_handler in old/src/server.c) beside the        *)
(* scraper: another process, no lock, one file read and three queries.     *)
(*                                                                         *)
(* The page is found by the hash of what is at the path when it is read,   *)
(* or else by an alias row with that path.  In the second case the alias   *)
(* is cast to a webm, and the list of aliases is asked for by its id.      *)
(*                                                                         *)
(* Pages only read, so one request at a time stands for all the threads of *)
(* the server.                                                             *)
(***************************************************************************)
EXTENDS Archive

CONSTANT MaxPageFaults          \* bound on the queries of pages that fail

ASSUME PageAssumption == MaxPageFaults \in Nat

VARIABLES
    webm_ids,       \* the rows of webms in the order of their ids: 1, 2, ...
    alias_ids,      \* the rows of aliases likewise, with the id of the webm
    page_pc,        \* where webm_handler is
    full_path,      \* the file asked for
    image_hash,     \* its hash, or None
    webm_id,        \* the id of the row found by the hash; 0: none
    alias_id,       \* the id of the alias found by the path; 0: none
    shown,          \* ids of the aliases on the page
    page_faults,
    due             \* history: what was catalogued when the page was asked for

ids == <<webm_ids, alias_ids>>
request == <<page_pc, full_path, image_hash, webm_id, alias_id, shown>>
page_vars == <<vars, ids, request, page_faults, due>>

(***************************************************************************)
(* The tables with their ids.                                              *)
(***************************************************************************)
IdsOfWebms(h) == {i \in 1..Len(webm_ids) : webm_ids[i].hash = h}
IdsOfAliasesAt(p) == {i \in 1..Len(alias_ids) : alias_ids[i].path = p}
AliasesOfWebm(id) == {i \in 1..Len(alias_ids) : alias_ids[i].webm_id = id}

(* What the rows say of p: the webm whose file is there, or that a link    *)
(* there leads to, and the reposts listed under it.                        *)
Catalogued(p) ==
    {i \in 1..Len(webm_ids) : webm_ids[i].path = p \/ fs[p] = Link(webm_ids[i].path)}
Reposts(id) == {i \in 1..Len(alias_ids) : alias_ids[i].hash = webm_ids[id].hash}

NothingDue == [webm |-> {}, aliases |-> {}]

PageInit ==
    /\ Init
    /\ webm_ids = <<>> /\ alias_ids = <<>>
    /\ page_pc = "idle" /\ full_path = None
    /\ image_hash = None /\ webm_id = 0 /\ alias_id = 0 /\ shown = {}
    /\ page_faults = MaxPageFaults
    /\ due = NothingDue

(* Mutant: the alias gets an id of its own table.                          *)
NumberedByItself(a) ==
    [hash |-> a.hash, path |-> a.path, post |-> a.post, webm_id |-> Len(alias_ids) + 1]

(* _insert_aliased_webm stores the id of the webm found by the hash.       *)
Numbered(a) ==
    [hash |-> a.hash, path |-> a.path, post |-> a.post,
     webm_id |-> CHOOSE i \in IdsOfWebms(a.hash) : TRUE]

(* A step of the scraper, the board or the operator; the database numbers  *)
(* the row it inserts, if it does: an alias inserted again, after a failed *)
(* lookup, is another row.                                                 *)
ScraperStep ==
    /\ Next
    /\ \/ webms' = webms /\ UNCHANGED webm_ids
       \/ \E r \in webms' \ webms : webm_ids' = Append(webm_ids, r)
    /\ \/ aliases' = aliases /\ UNCHANGED alias_ids
       \/ /\ InsertAlias
          /\ alias_ids' = Append(alias_ids,
                Numbered([hash |-> old_webm.hash, path |-> PathOf(match), post |-> match]))
    /\ UNCHANGED <<request, page_faults, due>>

(***************************************************************************)
(* webm_handler.                                                           *)
(***************************************************************************)
AskForPage(p) ==
    /\ page_pc = "idle"
    /\ page_pc' = "hash" /\ full_path' = p
    /\ due' = [webm |-> Catalogued(p), aliases |-> UNION {Reposts(i) : i \in Catalogued(p)}]
    /\ UNCHANGED <<vars, ids, image_hash, webm_id, alias_id, shown, page_faults>>

(* Mutant: what is at the path itself, not where it leads.                 *)
HashPlainFile ==
    /\ page_pc = "hash"
    /\ page_pc' = "row"
    /\ image_hash' = IF IsReg(full_path) THEN fs[full_path].data ELSE None
    /\ UNCHANGED <<vars, ids, full_path, webm_id, alias_id, shown, page_faults, due>>

(* A file that cannot be opened leaves the hash empty, which no row has,   *)
(* as no row has that of a cut file.                                       *)
HashFile ==
    /\ page_pc = "hash"
    /\ page_pc' = "row"
    /\ \/ \E q \in RealPath(full_path) : image_hash' = fs[q].data
       \/ RealPath(full_path) = {} /\ image_hash' = None
    /\ UNCHANGED <<vars, ids, full_path, webm_id, alias_id, shown, page_faults, due>>

(* Row 0 of what was found, or nothing; a failed query finds nothing.      *)
FoundBy(rows, id) ==
    \/ UNCHANGED page_faults /\ IF rows = {} THEN id = 0 ELSE id \in rows
    \/ page_faults > 0 /\ page_faults' = page_faults - 1 /\ id = 0

FindWebm ==
    /\ page_pc = "row"
    /\ page_pc' = "alias"
    /\ FoundBy(IdsOfWebms(image_hash), webm_id')
    /\ UNCHANGED <<vars, ids, full_path, image_hash, alias_id, shown, due>>

FindAlias ==
    /\ page_pc = "alias"
    /\ page_pc' = "list"
    /\ FoundBy(IdsOfAliasesAt(full_path), alias_id')
    /\ UNCHANGED <<vars, ids, full_path, image_hash, webm_id, shown, due>>

(* The id the page goes by: cast to a webm, an alias keeps its own id.     *)
PageId == IF webm_id # 0 THEN webm_id ELSE alias_id

ListAliases ==
    /\ page_pc = "list"
    /\ page_pc' = "done"
    /\ \/ shown' = AliasesOfWebm(PageId) /\ UNCHANGED page_faults
       \/ page_faults > 0 /\ page_faults' = page_faults - 1 /\ shown' = {}
    /\ UNCHANGED <<vars, ids, full_path, image_hash, webm_id, alias_id, due>>

(* Mutant: the next request starts with the rows of this one.              *)
SendPageUnreset ==
    /\ page_pc = "done"
    /\ page_pc' = "idle"
    /\ UNCHANGED <<vars, ids, full_path, image_hash, webm_id, alias_id, shown, page_faults, due>>

SendPage ==
    /\ page_pc = "done"
    /\ page_pc' = "idle" /\ full_path' = None
    /\ image_hash' = None /\ webm_id' = 0 /\ alias_id' = 0 /\ shown' = {}
    /\ due' = NothingDue
    /\ UNCHANGED <<vars, ids, page_faults>>

Page ==
    \/ \E p \in Path : AskForPage(p)
    \/ HashFile \/ FindWebm \/ FindAlias \/ ListAliases \/ SendPage

PageNext == ScraperStep \/ Page

PageSpec == PageInit /\ [][PageNext]_page_vars

(***************************************************************************)
(* Properties.                                                             *)
(***************************************************************************)
PageTypeOK ==
    /\ webm_ids \in Seq(Row)
    /\ alias_ids \in Seq([hash : Content, path : Path, post : Post, webm_id : 1..Len(webm_ids)])
    /\ page_pc \in {"idle", "hash", "row", "alias", "list", "done"}
    /\ IF page_pc = "idle" THEN full_path = None ELSE full_path \in Path
    /\ image_hash \in Content \cup {Cut, None}
    /\ webm_id \in 0..Len(webm_ids) /\ alias_id \in 0..Len(alias_ids)
    /\ shown \subseteq 1..Len(alias_ids)
    /\ page_faults \in 0..MaxPageFaults

(* Whatever the scraper does to the directory while the page is made, the  *)
(* page of a file that had a row, or of a link to one, is the page of that *)
(* row (where the site serves no error bodies and no query of it fails).   *)
NoQueryFailed == page_faults = MaxPageFaults
PageFindsFile ==
    page_pc = "done" /\ NoQueryFailed => due.webm \subseteq {webm_id}

(* ... and it lists every repost known when the page was asked for.        *)
PageListsReposts ==
    page_pc = "done" /\ NoQueryFailed => due.aliases \subseteq shown
=============================================================================
