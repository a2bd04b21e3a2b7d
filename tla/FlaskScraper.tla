--------------------------- MODULE FlaskScraper ---------------------------
(***************************************************************************)
(* The Flask scraper (mzbh/commands/downloader.py, run again and again by  *)
(* downloader.sh) and the spider (mzbh/commands/spider.py) over the same   *)
(* files and tables.                                                       *)
(*                                                                         *)
(* The downloader believes the hash the site announces and looks it up     *)
(* before it downloads; the spider hashes what it finds on disk, gives a   *)
(* row to a file that has none and corrects the hash of a row.  The UNIQUE *)
(* constraint on the hash is all that arbitrates between them.             *)
(*                                                                         *)
(* Nothing in the downloader catches a failed query or request: the        *)
(* exception ends the pass, which is what its death at that point does.    *)
(***************************************************************************)
EXTENDS Naturals, Sequences

CONSTANTS
    Board, Thread, Post,    \* what the site holds
    Name,                   \* file names as stored: <board>_<size>_<name><ext>
    Image,                  \* contents the site serves; also the announced hash
    BoardOf, ThreadOf, NameOf, ImageOf,     \* as in Archive
    Listing,                \* [Thread -> Seq(Post)], oldest first
    WebmPost,               \* posts with a hash and the extension .webm
    Spoken,                 \* threads whose first post has a comment
    Mentions,               \* ... that says "gif" or "webm"
    ErrorBody,              \* bodies an HTTP error may carry
    Cut,                    \* a file that is not all there
    Playable,               \* whole contents ffmpeg finds a frame in
    None,                   \* no file, no post
    MayFailAt,              \* where the downloader may fail or be killed
    MaxFaults               \* bound on what goes wrong in a behaviour

Content == Image \cup ErrorBody \cup {Cut}
Path == Board \X Name
(* What is left of a file has a hash of its own.                           *)
Part(p) == [part |-> p]
Hash == Image \cup ErrorBody \cup {Part(p) : p \in Path}
Row == [hash : Hash, path : Path, post : Post \cup {None}]

ASSUME FlaskAssumption ==
    /\ BoardOf \in [Thread -> Board] /\ ThreadOf \in [Post -> Thread]
    /\ NameOf \in [Post -> Name] /\ ImageOf \in [Post -> Image]
    /\ Listing \in [Thread -> Seq(Post)]
    /\ WebmPost \subseteq Post
    /\ Mentions \subseteq Spoken /\ Spoken \subseteq Thread
    /\ Playable \subseteq Image \cup ErrorBody
    /\ None \notin Post \cup Content \cup Path
    /\ \A p \in Path : Part(p) \notin Image \cup ErrorBody
    /\ Cut \notin Image \cup ErrorBody
    /\ MaxFaults \in Nat

VARIABLES
    published,          \* how much of each listing the site shows
    files,              \* [Path -> Content \cup {None}]
    thumbs,             \* [Path -> Content \cup {None}]: what a thumbnail was made of
    categories, threads, posts,     \* tables; a row is what it describes
    webms,              \* table; its ids are 1, 2, ...
    aliases,            \* table; a row names the id of its webm
    dpc,                \* where the downloader is
    boards_left, matches, todo,     \* what its pass still has to look at
    post,               \* the post being worked on
    original,           \* the id of the webm to make an alias of
    spc,                \* where the spider is
    dirs, found,        \* what its walk still has to list and to look at
    file_path, row,     \* the file in hand; the id of its row, 0: none
    digest,             \* the hash of what was read, or None
    faults              \* what may still go wrong

tables == <<categories, threads, posts, webms, aliases>>
pass == <<boards_left, matches, todo>>
hand == <<post, original>>
walk == <<dirs, found>>
seen == <<file_path, row, digest>>
downloader == <<dpc, pass, hand>>
spider == <<spc, walk, seen>>
vars == <<published, files, thumbs, tables, downloader, spider, faults>>

Shown(t) == {Listing[t][i] : i \in 1..published[t]}
PathOf(p) == <<BoardOf[ThreadOf[p]], NameOf[p]>>

(* Without a comment the lookup of "com" ends the test of the first post,  *)
(* its extension included.                                                 *)
SurelyMatched(t) ==
    /\ published[t] > 0
    /\ t \in Spoken
    /\ t \in Mentions \/ Listing[t][1] \in WebmPost

(* A reply counts while it is one of last_replies.                         *)
PossiblyMatched(t) ==
    SurelyMatched(t) \/ \E i \in 2..published[t] : Listing[t][i] \in WebmPost

(***************************************************************************)
(* The tables.                                                             *)
(***************************************************************************)
RowsWith(h) == {i \in 1..Len(webms) : webms[i].hash = h}
RowsAt(p) == {i \in 1..Len(webms) : webms[i].path = p}
AliasesOf(p) == {k \in 1..Len(aliases) : aliases[k].post = p /\ aliases[k].hash = ImageOf[p]}

Init ==
    /\ published = [t \in Thread |-> 0]
    /\ files = [p \in Path |-> None] /\ thumbs = [p \in Path |-> None]
    /\ categories = {} /\ threads = {} /\ posts = {}
    /\ webms = <<>> /\ aliases = <<>>
    /\ dpc = "sleep"
    /\ boards_left = {} /\ matches = {} /\ todo = <<>>
    /\ post = None /\ original = 0
    /\ spc = "idle"
    /\ dirs = {} /\ found = {}
    /\ file_path = None /\ row = 0 /\ digest = None
    /\ faults = MaxFaults

Fault == dpc \in MayFailAt /\ faults > 0 /\ faults' = faults - 1
NoFault == faults' = faults

(* Mutant: the next post starts with the row found for this one.           *)
KeepOriginal == dpc' = "index" /\ UNCHANGED <<pass, hand>>

NextPost == dpc' = "index" /\ post' = None /\ original' = 0 /\ UNCHANGED pass

(* The pass ends; downloader.sh starts another one an hour later.          *)
Die ==
    /\ dpc' = "sleep"
    /\ boards_left' = {} /\ matches' = {} /\ todo' = <<>>
    /\ post' = None /\ original' = 0

NewPost(t) ==
    /\ published[t] < Len(Listing[t])
    /\ published' = [published EXCEPT ![t] = @ + 1]
    /\ UNCHANGED <<files, thumbs, tables, downloader, spider, faults>>

(***************************************************************************)
(* The downloader.                                                         *)
(***************************************************************************)
StartPass ==
    /\ dpc = "sleep"
    /\ dpc' = "index" /\ boards_left' = Board
    /\ UNCHANGED <<published, files, thumbs, tables, matches, todo, hand, spider, faults>>

ReadCatalog(b) ==
    /\ dpc = "index" /\ todo = <<>> /\ matches = {} /\ b \in boards_left
    /\ boards_left' = boards_left \ {b}
    /\ categories' = categories \cup {b}
    /\ LET on == {t \in Thread : BoardOf[t] = b}
       IN \E S \in SUBSET {t \in on : PossiblyMatched(t)} :
             /\ {t \in on : SurelyMatched(t)} \subseteq S
             /\ matches' = S
    /\ UNCHANGED <<published, files, thumbs, threads, posts, webms, aliases,
                   dpc, todo, hand, spider, faults>>

(* A thread that is not JSON is passed over.                               *)
ReadThread(t) ==
    /\ dpc = "index" /\ todo = <<>> /\ t \in matches
    /\ matches' = matches \ {t}
    /\ \/ /\ NoFault
          /\ todo' = SubSeq(Listing[t], 1, published[t])
          /\ threads' = threads \cup {t}
       \/ Fault /\ UNCHANGED <<todo, threads>>
    /\ UNCHANGED <<published, files, thumbs, categories, posts, webms, aliases,
                   dpc, boards_left, hand, spider>>

SavePost ==
    /\ dpc = "index" /\ todo # <<>>
    /\ posts' = posts \cup {Head(todo)}
    /\ todo' = Tail(todo)
    /\ IF Head(todo) \in WebmPost THEN dpc' = "check" /\ post' = Head(todo)
                                  ELSE UNCHANGED <<dpc, post>>
    /\ UNCHANGED <<published, files, thumbs, categories, threads, webms, aliases,
                   boards_left, matches, original, spider, faults>>

PassDone ==
    /\ dpc = "index" /\ todo = <<>> /\ matches = {} /\ boards_left = {}
    /\ dpc' = "sleep"
    /\ UNCHANGED <<published, files, thumbs, tables, pass, hand, spider, faults>>

(* Mutant: what has a row is passed over.                                  *)
SkipKnown ==
    /\ dpc = "check"
    /\ IF RowsWith(ImageOf[post]) # {} THEN NextPost ELSE dpc' = "download" /\ UNCHANGED <<pass, hand>>
    /\ UNCHANGED <<published, files, thumbs, tables, spider, faults>>

(* Mutant: only a post that is an alias already is not downloaded.         *)
DownloadUnlessAliased ==
    /\ dpc = "check"
    /\ dpc' = IF AliasesOf(post) # {} THEN "alias" ELSE "download"
    /\ UNCHANGED <<published, files, thumbs, tables, pass, hand, spider, faults>>

CheckHash ==
    /\ dpc = "check"
    /\ dpc' = IF RowsWith(ImageOf[post]) # {} THEN "alias" ELSE "download"
    /\ UNCHANGED <<published, files, thumbs, tables, pass, hand, spider, faults>>

SkipAlias ==
    /\ dpc = "alias"
    /\ AliasesOf(post) # {}
    /\ NextPost
    /\ UNCHANGED <<published, files, thumbs, tables, spider, faults>>

(* Mutant: no look at the aliases that are there.                          *)
PickAlways ==
    /\ dpc = "alias"
    /\ \E i \in RowsWith(ImageOf[post]) : original' = i
    /\ dpc' = "insert_alias"
    /\ UNCHANGED <<published, files, thumbs, tables, pass, post, spider, faults>>

(* Mutant: any row will do.                                                *)
PickAnyRow ==
    /\ dpc = "alias"
    /\ AliasesOf(post) = {}
    /\ \E i \in 1..Len(webms) : original' = i
    /\ dpc' = "insert_alias"
    /\ UNCHANGED <<published, files, thumbs, tables, pass, post, spider, faults>>

(* The row is asked for again; first() has no id to give when the spider   *)
(* has changed the hash meanwhile.                                         *)
PickOriginal ==
    /\ dpc = "alias"
    /\ AliasesOf(post) = {}
    /\ \/ /\ \E i \in RowsWith(ImageOf[post]) : original' = i
          /\ dpc' = "insert_alias"
          /\ UNCHANGED <<pass, post>>
       \/ RowsWith(ImageOf[post]) = {} /\ Die
    /\ UNCHANGED <<published, files, thumbs, tables, spider, faults>>

InsertAlias ==
    /\ dpc = "insert_alias"
    /\ aliases' = Append(aliases, [hash |-> ImageOf[post], post |-> post, webm |-> original])
    /\ NextPost
    /\ UNCHANGED <<published, files, thumbs, categories, threads, posts, webms, spider, faults>>

(* Mutant: a file that is there is not downloaded again.                   *)
OpenNewFile ==
    /\ dpc = "download"
    /\ \/ /\ NoFault
          /\ IF files[PathOf(post)] = None
               THEN files' = [files EXCEPT ![PathOf(post)] = Cut] /\ dpc' = "fetch"
               ELSE UNCHANGED files /\ dpc' = "thumb"
       \/ Fault /\ UNCHANGED files /\ dpc' = "thumb"
    /\ UNCHANGED <<published, thumbs, tables, pass, hand, spider>>

(* open(.., "wb") has emptied the file, or failed and left what was there. *)
OpenFile ==
    /\ dpc = "download"
    /\ \/ /\ NoFault
          /\ files' = [files EXCEPT ![PathOf(post)] = Cut]
          /\ dpc' = "fetch"
       \/ Fault /\ UNCHANGED files /\ dpc' = "thumb"
    /\ UNCHANGED <<published, thumbs, tables, pass, hand, spider>>

(* Neither the status nor a broken transfer stops what follows.            *)
Fetch ==
    /\ dpc = "fetch"
    /\ \/ NoFault /\ files' = [files EXCEPT ![PathOf(post)] = ImageOf[post]]
       \/ Fault /\ \E e \in ErrorBody : files' = [files EXCEPT ![PathOf(post)] = e]
       \/ Fault /\ UNCHANGED files
    /\ dpc' = "thumb"
    /\ UNCHANGED <<published, thumbs, tables, pass, hand, spider>>

(* The first frame is all ffmpeg needs, and a file that is not all there   *)
(* may have it.  It refuses to write over the thumbnail of an earlier      *)
(* attempt.  From here on the output exists, though ffmpeg may yet fail.   *)
Thumbnail ==
    /\ dpc = "thumb"
    /\ files[PathOf(post)] \in Playable \cup {Cut} /\ thumbs[PathOf(post)] = None
    /\ thumbs' = [thumbs EXCEPT ![PathOf(post)] = files[PathOf(post)]]
    /\ dpc' = "save"
    /\ UNCHANGED <<published, files, tables, pass, hand, spider, faults>>

NoThumbnail ==
    /\ \/ /\ dpc = "thumb" /\ NoFault
          /\ files[PathOf(post)] \notin Playable \/ thumbs[PathOf(post)] # None
       \/ dpc \in {"thumb", "save"} /\ Fault
    /\ NextPost
    /\ UNCHANGED <<published, files, thumbs, tables, spider>>

(* When the spider was faster, the violation of the UNIQUE hash ends the   *)
(* pass.                                                                   *)
SaveWebm ==
    /\ dpc = "save"
    /\ \/ /\ RowsWith(ImageOf[post]) = {}
          /\ webms' = Append(webms, [hash |-> ImageOf[post], path |-> PathOf(post), post |-> post])
          /\ NextPost
       \/ RowsWith(ImageOf[post]) # {} /\ Die /\ UNCHANGED webms
    /\ UNCHANGED <<published, files, thumbs, categories, threads, posts, aliases, spider, faults>>

(* Killed, or an exception nobody catches.                                 *)
Crash ==
    /\ dpc # "sleep"
    /\ Fault /\ Die
    /\ UNCHANGED <<published, files, thumbs, tables, spider>>

(***************************************************************************)
(* The spider.  os.walk lists a directory when it gets there.              *)
(***************************************************************************)
StartWalk ==
    /\ spc = "idle"
    /\ spc' = "walk" /\ dirs' = Board /\ found' = {}
    /\ UNCHANGED <<published, files, thumbs, tables, downloader, seen, faults>>

ListDirectory(b) ==
    /\ spc = "walk" /\ found = {} /\ b \in dirs
    /\ dirs' = dirs \ {b}
    /\ found' = {p \in Path : p[1] = b /\ files[p] # None}
    /\ UNCHANGED <<published, files, thumbs, tables, downloader, spc, seen, faults>>

(* first() of the rows with this path is any of them.                      *)
LookUpFile(p) ==
    /\ spc = "walk" /\ p \in found
    /\ found' = found \ {p}
    /\ file_path' = p
    /\ IF RowsAt(p) = {} THEN row' = 0 ELSE row' \in RowsAt(p)
    /\ spc' = "read"
    /\ UNCHANGED <<published, files, thumbs, tables, downloader, dirs, digest, faults>>

HashOf(p) == IF files[p] = Cut THEN Part(p) ELSE files[p]

ReadFile ==
    /\ spc = "read"
    /\ digest' = HashOf(file_path)
    /\ spc' = "write"
    /\ UNCHANGED <<published, files, thumbs, tables, downloader, walk, file_path, row, faults>>

NextFile == spc' = "walk" /\ file_path' = None /\ row' = 0 /\ digest' = None /\ UNCHANGED walk

AdoptFile ==
    /\ spc = "write" /\ row = 0
    /\ webms' = IF RowsWith(digest) = {}
                THEN Append(webms, [hash |-> digest, path |-> file_path, post |-> None])
                ELSE webms
    /\ NextFile
    /\ UNCHANGED <<published, files, thumbs, categories, threads, posts, aliases, downloader, faults>>

CorrectHash ==
    /\ spc = "write" /\ row # 0
    /\ webms' = IF RowsWith(digest) \subseteq {row}
                THEN [webms EXCEPT ![row].hash = digest]
                ELSE webms
    /\ NextFile
    /\ UNCHANGED <<published, files, thumbs, categories, threads, posts, aliases, downloader, faults>>

(* The walk is over, or whoever started it stops it.                       *)
StopWalk ==
    /\ spc # "idle"
    /\ spc' = "idle" /\ dirs' = {} /\ found' = {}
    /\ file_path' = None /\ row' = 0 /\ digest' = None
    /\ UNCHANGED <<published, files, thumbs, tables, downloader, faults>>

(***************************************************************************)
(* The specification.                                                      *)
(***************************************************************************)
Downloader ==
    \/ StartPass \/ PassDone
    \/ \E b \in Board : ReadCatalog(b)
    \/ \E t \in Thread : ReadThread(t)
    \/ SavePost \/ CheckHash
    \/ SkipAlias \/ PickOriginal \/ InsertAlias
    \/ OpenFile \/ Fetch \/ Thumbnail \/ NoThumbnail \/ SaveWebm

Spider ==
    \/ StartWalk \/ StopWalk
    \/ \E b \in Board : ListDirectory(b)
    \/ \E p \in Path : LookUpFile(p)
    \/ ReadFile \/ AdoptFile \/ CorrectHash

Next ==
    \/ \E t \in Thread : NewPost(t)
    \/ Downloader
    \/ Crash
    \/ Spider

Spec == Init /\ [][Next]_vars

(* downloader.sh loops for ever; nobody has to run the spider.             *)
FairSpec == Spec /\ WF_vars(Downloader)

(***************************************************************************)
(* Properties.                                                             *)
(***************************************************************************)
FilesTyped ==
    /\ published \in [Thread -> Nat]
    /\ \A t \in Thread : published[t] <= Len(Listing[t])
    /\ files \in [Path -> Content \cup {None}]
    /\ thumbs \in [Path -> Content \cup {None}]
    /\ faults \in 0..MaxFaults

TablesTyped ==
    /\ categories \subseteq Board /\ threads \subseteq Thread /\ posts \subseteq Post
    /\ webms \in Seq(Row)
    /\ aliases \in Seq([hash : Image, post : Post, webm : 1..Len(webms)])

DownloaderTyped ==
    /\ dpc \in {"sleep", "index", "check", "alias", "insert_alias",
                "download", "fetch", "thumb", "save"}
    /\ boards_left \subseteq Board /\ matches \subseteq Thread /\ todo \in Seq(Post)
    /\ post \in WebmPost \cup {None}
    /\ (post = None) <=> (dpc \in {"sleep", "index"})
    /\ original \in 0..Len(webms)
    /\ (dpc = "insert_alias") => original > 0

SpiderTyped ==
    /\ spc \in {"idle", "walk", "read", "write"}
    /\ dirs \subseteq Board /\ found \subseteq Path
    /\ file_path \in Path \cup {None}
    /\ (file_path = None) <=> (spc \in {"idle", "walk"})
    /\ row \in 0..Len(webms) /\ digest \in Hash \cup {None}

(* The files, the tables, the downloader and the spider between them have  *)
(* their types: the webm a step holds on to is a row, an alias is one of a *)
(* row, and the post and the path in hand are there while they are needed. *)
TypeOK == FilesTyped /\ TablesTyped /\ DownloaderTyped /\ SpiderTyped

(* A webm the downloader recorded when it was all there is on disk under   *)
(* the hash of its row: whatever was tried again since, whatever failed    *)
(* then, and whatever the spider saw of the file before and wrote after.   *)
HashIsContent ==
    \A i \in 1..Len(webms) :
        webms[i].post # None /\ thumbs[webms[i].path] = ImageOf[webms[i].post] =>
            files[webms[i].path] = webms[i].hash

(* As long as nothing fails, an alias has the hash of the webm it is an    *)
(* alias of, though its webm was looked up one statement before the alias  *)
(* was inserted and the spider rewrites hashes.                            *)
AliasAgrees ==
    faults = MaxFaults =>
        \A k \in 1..Len(aliases) : webms[aliases[k].webm].hash = aliases[k].hash

(* However often the thread is read again, a post becomes an alias of a    *)
(* webm at most once.                                                      *)
AliasesOnce ==
    \A j, k \in 1..Len(aliases) : aliases[j].post = aliases[k].post => j = k

Described(p) ==
    \/ \E i \in 1..Len(webms) : webms[i].post = p
    \/ \E k \in 1..Len(aliases) : aliases[k].post = p

(* As long as nothing fails, the downloader lets go of a webm when the     *)
(* tables describe it, and otherwise only because the spider was faster to *)
(* give the file a row, whose UNIQUE hash ends the pass.                   *)
NoneDropped ==
    [][\A p \in WebmPost : post = p /\ post' # p /\ faults' = MaxFaults =>
          \/ Described(p)'
          \/ dpc = "save" /\ \E i \in RowsWith(ImageOf[p]) : webms[i].path = PathOf(p)]_vars

Seen(p) == p \in Shown(ThreadOf[p]) /\ SurelyMatched(ThreadOf[p])

EitherCalmOrAlone == [](faults = MaxFaults) \/ [](spc = "idle")

Stored(p) == \E f \in Path : files[f] = ImageOf[p]

(* A failure has left a thumbnail of something that is not the webm, or a  *)
(* thumbnail and nothing in the tables.                                    *)
Misjudged(p) ==
    \E q \in WebmPost : ImageOf[q] = ImageOf[p] /\ thumbs[PathOf(q)] \notin {None, ImageOf[q]}
Interrupted(p) == faults < MaxFaults /\ thumbs[PathOf(p)] # None /\ ~Described(p)

(* As long as nothing fails, or nobody runs the spider, a webm of a thread *)
(* the catalog test lets through ends up in the tables for good, as the    *)
(* post of a webm or of an alias, and its content on disk: later passes    *)
(* repair what failed in earlier ones, except after those two failures.    *)
EventuallyKept ==
    EitherCalmOrAlone =>
        \A p \in WebmPost :
            Seen(p) ~> [](\/ Described(p) /\ (Stored(p) \/ Misjudged(p))
                         \/ Interrupted(p))

(* ... whatever has failed: the downloader tolerates faults, and retains   *)
(* what it can of webms and metadata.                                      *)
EventuallyArchived ==
    EitherCalmOrAlone => \A p \in WebmPost : Seen(p) ~> [](Described(p) /\ Stored(p))
=============================================================================
