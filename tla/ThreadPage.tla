----------------------------- MODULE ThreadPage -----------------------------
(***************************************************************************)
(* The page of a thread (by_thread_handler in old/src/server.c): one query *)
(* for the thread and one that joins its posts with the webms and aliases  *)
(* they brought.  A thread's row comes before its posts' and stays, so the *)
(* page is what the join finds when it is made.                            *)
(***************************************************************************)
EXTENDS WebmPage

(* FULL OUTER JOIN .. ON post_id = p.id: a post nothing belongs to is a    *)
(* row with nothing in that column, here 0.                                *)
Joined(rows, p) ==
    LET brought == {i \in 1..Len(rows) : rows[i].post = p}
    IN IF brought = {} THEN {0} ELSE brought

(* What get_posts_by_thread_id returns: post, webm, alias.                 *)
PostsByThread(t) ==
    UNION {{p} \X Joined(webm_ids, p) \X Joined(alias_ids, p) :
              p \in {q \in posts : ThreadOf[q] = t}}

Total(t) == Cardinality(PostsByThread(t))

(* "@total Posts" (by_thread.html): whatever is downloaded again, a post   *)
(* is on the page of its thread once and counted once, until two things    *)
(* have failed (where the site serves no error bodies).                    *)
CountsPostsOnce ==
    MaxFaults - faults <= 1 =>
        \A t \in Thread : Total(t) = Cardinality({p \in posts : ThreadOf[p] = t})
=============================================================================
