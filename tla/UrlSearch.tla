----------------------------- MODULE UrlSearch -----------------------------
(***************************************************************************)
(* Searching for a webm by its URL (url_search_handler in old/src/server.c *)
(* with download_sent_webm_url in http.c), beside the other requests of    *)
(* the server: the file is downloaded into a directory the threads share,  *)
(* hashed, and the hash looked up.                                         *)
(*                                                                         *)
(* The name of the download is a number from rand(), which nobody seeds,   *)
(* and the last part of the URL: within a life of the process the numbers  *)
(* differ, and the next life draws the same ones again.                    *)
(***************************************************************************)
EXTENDS Connections

CONSTANTS
    Url,
    BaseName,       \* [Url -> names], what follows the last slash
    ImageAt,        \* [Url -> Image]
    Image,          \* contents, and their hashes
    None            \* no file, no content, no URL

ASSUME UrlAssumption ==
    /\ ImageAt \in [Url -> Image]
    /\ {None, "nothing", "part", "both"} \cap Image = {}

VARIABLES
    webms,          \* the hashes the scraper has recorded
    user_uploaded,  \* the files of the directory: [File -> content], in part
    drawn,          \* how often rand has been called
    url, out_filepath, written, image_hash,         \* of each worker
    due             \* history: the search must find its webm

File == (0..MaxRequests) \X {BaseName[u] : u \in Url}
search == <<url, out_filepath, written, image_hash, due>>
shared == <<webms, user_uploaded, drawn>>
vars == <<server, search, shared>>

Init ==
    /\ ServerInit
    /\ webms = {} /\ drawn = 0
    /\ user_uploaded = [f \in File |-> None]
    /\ url = [w \in Worker |-> None]
    /\ out_filepath = [w \in Worker |-> None]
    /\ written = [w \in Worker |-> FALSE]
    /\ image_hash = [w \in Worker |-> None]
    /\ due = [w \in Worker |-> FALSE]

(* The scraper records a webm.                                             *)
NewWebm(h) ==
    /\ h \notin webms
    /\ webms' = webms \cup {h}
    /\ UNCHANGED <<server, search, user_uploaded, drawn>>

(***************************************************************************)
(* A search.                                                               *)
(***************************************************************************)
(* Mutant: the name is that of the URL.                                    *)
FileNameAsSent(u) == <<0, BaseName[u]>>

(* The numbers rand() returns are taken to differ within a life, as they   *)
(* all but always do.                                                      *)
FileName(u) == <<drawn + 1, BaseName[u]>>

Search(w, u) ==
    /\ Accept(w, "search", "open")
    /\ drawn' = drawn + 1
    /\ url' = Set(url, w, u)
    /\ out_filepath' = Set(out_filepath, w, FileName(u))
    /\ due' = Set(due, w, ImageAt[u] \in webms)
    /\ UNCHANGED <<webms, user_uploaded, written, image_hash>>

Unchanging == UNCHANGED <<handler, res, hits, held, pool, asked>>

(* "Could not download webm."                                              *)
ApiFailure(w) == Go(w, "query") /\ left' = Set(left, w, <<>>)

(* Mutant: the file is opened to write at its end.                         *)
OpenToAppend(w) ==
    /\ at[w] = "open" /\ NoFault
    /\ Go(w, "perform")
    /\ user_uploaded' = Set(user_uploaded, out_filepath[w],
          IF user_uploaded[out_filepath[w]] = None THEN "nothing" ELSE user_uploaded[out_filepath[w]])
    /\ Unchanging
    /\ UNCHANGED <<left, search, webms, drawn>>

Open(w) ==
    /\ at[w] = "open" /\ NoFault
    /\ Go(w, "perform")
    /\ user_uploaded' = Set(user_uploaded, out_filepath[w], "nothing")
    /\ Unchanging
    /\ UNCHANGED <<left, search, webms, drawn>>

OpenFails(w) ==
    /\ at[w] = "open" /\ Fault
    /\ ApiFailure(w)
    /\ due' = Set(due, w, FALSE)
    /\ Unchanging
    /\ UNCHANGED <<url, out_filepath, written, image_hash, shared>>

(* curl_easy_perform: the file, a part of it or none of it after a status  *)
(* of 200, or another status or no answer.  It writes where the file ends. *)
After(before, x) == IF before \in {"nothing", x} THEN x ELSE "both"

Perform(w) ==
    /\ at[w] = "perform"
    /\ Go(w, "close")
    /\ \/ /\ NoFault /\ UNCHANGED due
          /\ written' = Set(written, w, TRUE)
          /\ user_uploaded' = Set(user_uploaded, out_filepath[w],
                After(user_uploaded[out_filepath[w]], ImageAt[url[w]]))
       \/ /\ Fault /\ due' = Set(due, w, FALSE)
          /\ \E x \in {"nothing", "part"}, ok \in BOOLEAN :
                /\ written' = Set(written, w, ok)
                /\ user_uploaded' = Set(user_uploaded, out_filepath[w],
                      IF x = "nothing" THEN user_uploaded[out_filepath[w]]
                                       ELSE After(user_uploaded[out_filepath[w]], x))
    /\ Unchanging
    /\ UNCHANGED <<left, url, out_filepath, image_hash, webms, drawn>>

(* What came with another status is removed; an empty file is left, and    *)
(* answered for likewise.                                                  *)
CloseUpload(w) ==
    /\ at[w] = "close" /\ NoFault
    /\ LET f == out_filepath[w]
       IN /\ user_uploaded' = IF written[w] THEN user_uploaded ELSE Set(user_uploaded, f, None)
          /\ IF written[w] /\ user_uploaded[f] # "nothing"
               THEN Go(w, "hash") /\ UNCHANGED left
               ELSE ApiFailure(w)
    /\ Unchanging
    /\ UNCHANGED <<search, webms, drawn>>

(* hash_file; a file it cannot read has a hash no row has.                 *)
HashUpload(w) ==
    /\ at[w] = "hash"
    /\ Go(w, "query")
    /\ \/ /\ NoFault /\ UNCHANGED due
          /\ image_hash' = Set(image_hash, w, user_uploaded[out_filepath[w]])
       \/ Fault /\ due' = Set(due, w, FALSE) /\ UNCHANGED image_hash
    /\ Unchanging
    /\ UNCHANGED <<left, url, out_filepath, written, shared>>

(* The lookup by hash; no alias has the path of an upload.                 *)
Answers(w, r) ==
    handler[w] = "search" /\ r \in {"rows", "empty"} =>
        CASE Head(left[w]) = "webm"  -> (r = "rows") <=> image_hash[w] \in webms
          [] Head(left[w]) = "alias" -> r = "empty"
          [] OTHER -> TRUE

(***************************************************************************)
(* All requests.                                                           *)
(***************************************************************************)
Others == DOMAIN Plan \ {"search"}

(* A failure while a worker works on a search excuses it.                  *)
Query(w) ==
    /\ \/ Connect(w)
       \/ \E r \in {"rows", "empty", "error", "null"} : Exec(w, r) /\ Answers(w, r)
       \/ Finish(w)
    /\ due' = Set(due, w, due[w] /\ faults' = faults)
    /\ UNCHANGED <<url, out_filepath, written, image_hash, shared>>

Send(w) ==
    /\ Respond(w)
    /\ url' = Set(url, w, None) /\ out_filepath' = Set(out_filepath, w, None)
    /\ written' = Set(written, w, FALSE) /\ image_hash' = Set(image_hash, w, None)
    /\ due' = Set(due, w, FALSE)
    /\ UNCHANGED shared

(* What has been downloaded stays where it is.                             *)
StartAgain ==
    /\ Restart
    /\ drawn' = 0
    /\ url' = [w \in Worker |-> None]
    /\ out_filepath' = [w \in Worker |-> None]
    /\ written' = [w \in Worker |-> FALSE]
    /\ image_hash' = [w \in Worker |-> None]
    /\ due' = [w \in Worker |-> FALSE]
    /\ UNCHANGED <<webms, user_uploaded>>

Download(w) == Open(w) \/ OpenFails(w) \/ Perform(w) \/ CloseUpload(w) \/ HashUpload(w)
Work(w) == Download(w) \/ Query(w) \/ Send(w)

Next ==
    \/ \E h \in Image : NewWebm(h)
    \/ \E w \in Worker :
          \/ \E h \in Others : Accept(w, h, "query") /\ UNCHANGED <<search, shared>>
          \/ \E u \in Url : Search(w, u)
          \/ Work(w)
    \/ StartAgain

Spec == Init /\ [][Next]_vars

(***************************************************************************)
(* Properties.                                                             *)
(***************************************************************************)
Labels == {"idle", "open", "perform", "close", "hash", "query", "exec", "finish"}

TypeOK ==
    /\ ServerTyped
    /\ at \in [Worker -> Labels]
    /\ webms \subseteq Image /\ drawn \in 0..MaxRequests
    /\ user_uploaded \in [File -> Image \cup {None, "nothing", "part", "both"}]
    /\ url \in [Worker -> Url \cup {None}]
    /\ out_filepath \in [Worker -> File \cup {None}]
    /\ image_hash \in [Worker -> Image \cup {None, "nothing", "part", "both"}]
    /\ written \in [Worker -> BOOLEAN] /\ due \in [Worker -> BOOLEAN]
    /\ \A w \in Worker :
          /\ at[w] \in {"open", "perform", "close", "hash"} => handler[w] = "search"
          /\ IF handler[w] = "search"
                THEN url[w] \in Url /\ out_filepath[w] \in File
                ELSE url[w] = None /\ out_filepath[w] = None /\ image_hash[w] = None

Answering(w) == handler[w] = "search" /\ at[w] = "query" /\ left[w] = <<>>

(* What a search shows is the webm at its URL: no other search writes to   *)
(* its file, and what an earlier life of the process left there under the  *)
(* same name does not count.                                               *)
ShowsItsWebm ==
    \A w \in Worker : Answering(w) /\ "webm" \in hits[w] => image_hash[w] = ImageAt[url[w]]

(* A webm that had been recorded when its URL was sent is found, unless    *)
(* something fails for that very search.                                   *)
FindsKnown ==
    \A w \in Worker : Answering(w) /\ due[w] => "webm" \in hits[w]
=============================================================================
