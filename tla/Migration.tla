----------------------------- MODULE Migration -----------------------------
(***************************************************************************)
(* waifu_migrate (mzbh/commands/waifu_migrate.py): the tables of the C     *)
(* programs are copied, one after the other and row by row, into those of  *)
(* the Flask application.  A row keeps its old id in a column added for    *)
(* it, and references are resolved by that column.                         *)
(*                                                                         *)
(* The C scraper may go on inserting.  Each table is read once, when its   *)
(* turn comes; every row is a transaction of its own, and what is          *)
(* committed stays when the script fails.  What the Flask scraper inserts  *)
(* has no old_id and hashes of another kind, and is in nobody's way.       *)
(***************************************************************************)
EXTENDS Naturals, FiniteSets

CONSTANTS
    Thread, Post, Webm, Alias,      \* rows of the old tables, by their ids
    RefOf,                          \* what a post, webm or alias refers to
    WebmOf,                         \* the webm an alias is an alias of
    None,
    MaxFaults                       \* bound on how often the script is interrupted

ASSUME MigrationAssumption ==
    /\ Thread \cap (Post \cup Webm \cup Alias) = {} /\ Post \cap (Webm \cup Alias) = {}
    /\ Webm \cap Alias = {}
    /\ \A p \in Post : RefOf[p] \in Thread
    /\ \A w \in Webm \cup Alias : RefOf[w] \in Post
    /\ WebmOf \in [Alias -> Webm]
    /\ None \notin Thread \cup Post \cup Webm
    /\ MaxFaults \in Nat

Old == Thread \cup Post \cup Webm \cup Alias

VARIABLES
    old,            \* the rows of the old tables
    altered,        \* the columns old_id are there
    phase,          \* the table the script is at
    selected,       \* what its SELECT returned and is still to be copied
    new,            \* the rows of the new tables that have an old_id
    at_start,       \* history: the old rows when the script began to copy
    faults

vars == <<old, altered, phase, selected, new, at_start, faults>>

(* Mutant: the posts are copied before their threads.                      *)
PostsFirst(ph) ==
    CASE ph = "start" -> "posts" [] ph = "posts" -> "threads" [] ph = "threads" -> "webms"
      [] ph = "webms" -> "aliases" [] ph = "aliases" -> "done"

After(ph) ==
    CASE ph = "start" -> "threads" [] ph = "threads" -> "posts" [] ph = "posts" -> "webms"
      [] ph = "webms" -> "aliases" [] ph = "aliases" -> "done"

Table(ph) ==
    CASE ph = "threads" -> Thread [] ph = "posts" -> Post
      [] ph = "webms" -> Webm [] ph = "aliases" -> Alias [] ph = "done" -> {}

Init ==
    /\ old = {} /\ altered = FALSE
    /\ phase = "idle" /\ selected = {}
    /\ new = {}
    /\ at_start = {}
    /\ faults = MaxFaults

(* A row of the new table with this old id, or None: what a later row      *)
(* refers to.                                                              *)
Resolved(o) == IF \E r \in new : r.old = o THEN o ELSE None

(* Mutant: the columns post_id and webm_id are taken for each other.       *)
CopySwapped(o) ==
    [old |-> o,
     ref |-> IF o \in Alias THEN Resolved(WebmOf[o]) ELSE None,
     webm |-> IF o \in Thread THEN None ELSE Resolved(RefOf[o])]

Copy(o) ==
    [old |-> o,
     ref |-> IF o \in Thread THEN None ELSE Resolved(RefOf[o]),
     webm |-> IF o \in Alias THEN Resolved(WebmOf[o]) ELSE None]

(***************************************************************************)
(* The C scraper.  A row is inserted after those it refers to.             *)
(***************************************************************************)
Insert(o) ==
    /\ o \notin old
    /\ o \notin Thread => RefOf[o] \in old
    /\ o \in Alias => WebmOf[o] \in old
    /\ old' = old \cup {o}
    /\ UNCHANGED <<altered, phase, selected, new, at_start, faults>>

(***************************************************************************)
(* The script.                                                             *)
(***************************************************************************)
Select(ph) ==
    /\ phase' = After(ph)
    /\ selected' = old \cap Table(phase')

(* Mutant: ADD COLUMN IF NOT EXISTS.                                       *)
StartAgain ==
    /\ phase = "idle"
    /\ altered' = TRUE /\ at_start' = old
    /\ Select("start")
    /\ UNCHANGED <<old, new, faults>>

(* ALTER TABLE fails where the columns are there.                          *)
Start ==
    /\ phase = "idle" /\ ~altered
    /\ altered' = TRUE /\ at_start' = old
    /\ Select("start")
    /\ UNCHANGED <<old, new, faults>>

(* Mutant: fetchone() is forgotten.                                        *)
CopyRowAgain(o) ==
    /\ o \in selected
    /\ new' = new \cup {Copy(o)}
    /\ UNCHANGED <<old, altered, phase, selected, at_start, faults>>

(* get_or_create: a row is the same if everything in it is.                *)
CopyRow(o) ==
    /\ o \in selected
    /\ new' = new \cup {Copy(o)}
    /\ selected' = selected \ {o}
    /\ UNCHANGED <<old, altered, phase, at_start, faults>>

NextTable ==
    /\ phase \notin {"idle", "done"} /\ selected = {}
    /\ Select(phase)
    /\ UNCHANGED <<old, altered, new, at_start, faults>>

Stop == phase' = "idle" /\ selected' = {}

Interrupted ==
    /\ phase \notin {"idle", "done"}
    /\ faults > 0 /\ faults' = faults - 1
    /\ Stop
    /\ UNCHANGED <<old, altered, new, at_start>>

Script ==
    \/ Start \/ NextTable
    \/ \E o \in Old : CopyRow(o)

Next ==
    \/ Script \/ Interrupted
    \/ \E o \in Old : Insert(o)

Spec == Init /\ [][Next]_vars

(* Somebody runs the script, and it runs on.                               *)
FairSpec == Spec /\ WF_vars(Script)

(***************************************************************************)
(* Properties.                                                             *)
(***************************************************************************)
TypeOK ==
    /\ old \subseteq Old /\ at_start \subseteq old
    /\ altered \in BOOLEAN
    /\ phase \in {"idle", "threads", "posts", "webms", "aliases", "done"}
    /\ selected \subseteq old
    /\ new \subseteq [old : old, ref : Thread \cup Post \cup {None}, webm : Webm \cup {None}]
    /\ faults \in 0..MaxFaults

(* No old row has two new ones, however often the script is started and    *)
(* whatever the scraper inserts between two attempts.                      *)
CopiedOnce == \A q, r \in new : q.old = r.old => q = r

(* When the script is done, everything that was there when it began has    *)
(* been copied with its references, though the scraper went on and a       *)
(* table is read while another one has grown.                              *)
CompleteWhenDone ==
    phase = "done" =>
        \A o \in at_start : \E r \in new :
            /\ r.old = o
            /\ o \notin Thread => r.ref = RefOf[o]
            /\ o \in Alias => r.webm = WebmOf[o]

(* If nobody interrupts the script, it is done some day, however the old   *)
(* tables grow.                                                            *)
EventuallyDone == [](faults = MaxFaults) => <>(phase = "done")
=============================================================================
