------------------------------ MODULE Archive ------------------------------
(***************************************************************************)
(* The C scraper (old/src/downloader.c with db.c, utils.c, parse.c): one   *)
(* process that polls an image board, keeps the webms it finds as files,   *)
(* and describes them in four PostgreSQL tables.                           *)
(*                                                                         *)
(* A webm is stored once.  The first file with a given hash becomes a row  *)
(* of webms; a later file with the same hash becomes a row of webm_aliases *)
(* and is replaced on disk by a symbolic link to the first one.            *)
(*                                                                         *)
(* Steps that leave nothing behind when the process dies between them are  *)
(* one action; every durable effect (a file written, unlinked or linked, a *)
(* row inserted) is a step of its own.  Whatever may go wrong outside the  *)
(* program (a request, a query, a file operation, the process itself) is   *)
(* charged to the budget MaxFaults.                                        *)
(***************************************************************************)
EXTENDS Naturals, Sequences, FiniteSets

CONSTANTS
    Board, Thread, Post,    \* what the site holds; a post here carries a file
    Name,                   \* file names as stored: <size>_<name><ext>
    Image,                  \* the contents the site serves; also their hash
    BoardOf,                \* [Thread -> Board]
    ThreadOf,               \* [Post -> Thread]
    NameOf,                 \* [Post -> Name]
    ImageOf,                \* [Post -> Image]
    Listing,                \* [Thread -> Seq(Post)], oldest first
    WebmPost,               \* posts whose extension contains "webm"
    Mentions,               \* threads whose first post says "webm" or "gif"
    ErrorBody,              \* bodies an HTTP error may carry; {}: none is served
    Cut,                    \* what a transfer that did not finish leaves
    SizeOf,                 \* [Content -> Nat], bytes
    SizeIn,                 \* [Name -> Nat], the size a name starts with
    None,                   \* no post, no row, no path
    MaxFaults               \* bound on what goes wrong in a behaviour

Content == Image \cup ErrorBody
Path == Board \X Name
Row == [hash : Content, path : Path, post : Post]

(* A name starts with the size the site announces for the file, which is   *)
(* the size of the image; an announced file is not empty.                  *)
ASSUME SiteAssumption ==
    /\ BoardOf \in [Thread -> Board]
    /\ ThreadOf \in [Post -> Thread]
    /\ NameOf \in [Post -> Name]
    /\ ImageOf \in [Post -> Image]
    /\ Listing \in [Thread -> Seq(Post)]
    /\ \A t \in Thread : \A i \in 1..Len(Listing[t]) : ThreadOf[Listing[t][i]] = t
    /\ WebmPost \subseteq Post
    /\ Mentions \subseteq Thread
    /\ MaxFaults \in Nat

ASSUME SizeAssumption ==
    /\ SizeOf \in [Content -> Nat]
    /\ SizeIn \in [Name -> Nat]
    /\ \A p \in Post : SizeIn[NameOf[p]] = SizeOf[ImageOf[p]] /\ SizeOf[ImageOf[p]] > 0

ASSUME NoneAssumption ==
    /\ None \notin Post
    /\ None \notin Row
    /\ None \notin Path
    /\ Cut \notin Content

VARIABLES
    published,          \* how much of each listing the site shows
    fs,                 \* WFU_WEBMS_DIR: the state of every path
    threads, posts,     \* the tables; a row is what it describes
    webms, aliases,     \* the tables; sets of Row
    pc,                 \* where the scraper is
    boards_left,        \* boards whose catalog this cycle still has to ask for
    matches,            \* threads found in the last catalog, not yet read
    thread_matches,     \* stack of posts of the thread being read, top first
    queue,              \* images_to_download, a stack, top first
    match,              \* the post being worked on
    post_saved,         \* post_id # 0
    old_webm,           \* the webms row that has the hash of the new file
    real_fpath, real_old_fpath,     \* as resolved by modify_aliased_file
    faults              \* what may still go wrong

tables == <<threads, posts, webms, aliases>>
index == <<boards_left, matches, thread_matches>>
links == <<real_fpath, real_old_fpath>>
work == <<match, post_saved, old_webm, links>>
vars == <<published, fs, tables, pc, index, queue, work, faults>>

(***************************************************************************)
(* The site.                                                               *)
(***************************************************************************)
Shown(t) == {Listing[t][i] : i \in 1..published[t]}

(* The thread's first post carries a webm or talks of one: the catalog     *)
(* shows the first post of every thread.                                   *)
SurelyMatched(t) ==
    /\ published[t] > 0
    /\ t \in Mentions \/ Listing[t][1] \in WebmPost

(* A webm among the replies is seen only while it is one of last_replies.  *)
PossiblyMatched(t) == SurelyMatched(t) \/ Shown(t) \cap WebmPost # {}

ThreadsOn(b) == {t \in Thread : BoardOf[t] = b}

(***************************************************************************)
(* The files.                                                              *)
(***************************************************************************)
Absent == [kind |-> "absent"]
Reg(d) == [kind |-> "reg", data |-> d]
Link(q) == [kind |-> "link", to |-> q]
FileState == {Absent} \cup {Reg(d) : d \in Content \cup {Cut}} \cup {Link(q) : q \in Path}

PathOf(p) == <<BoardOf[ThreadOf[p]], NameOf[p]>>

IsReg(q) == fs[q].kind = "reg"
IsLink(q) == fs[q].kind = "link"

Links == {q \in Path : IsLink(q)}

ClosedUnderLinks(S) == \A q \in S : fs[q].to \in Links => fs[q].to \in S
LeadsTo(p, q) ==
    \A S \in SUBSET Links : p \in S /\ ClosedUnderLinks(S) => \E l \in S : fs[l].to = q

(* Where opening p leads (a new file at the end of a dangling link), and   *)
(* what stat and realpath find there; both are empty or a single path.     *)
Sink(p) == IF IsLink(p) THEN {q \in Path \ Links : LeadsTo(p, q)} ELSE {p}
RealPath(p) == {q \in Sink(p) : IsReg(q)}

(* get_file_size: 0 when there is no file.  A cut transfer is shorter than *)
(* the file; how much shorter nobody asks.                                 *)
DataSize(d) == IF d = Cut THEN 0 ELSE SizeOf[d]
(* Mutant: any file at the path counts.                                    *)
HasAnySize(p, n) == RealPath(p) # {}

HasSize(p, n) == \E q \in RealPath(p) : DataSize(fs[q].data) = n

(* Mutant: lstat in place of stat.                                         *)
AlreadyOnDiskItself(p) == IsReg(PathOf(p)) /\ HasSize(PathOf(p), SizeIn[NameOf[p]])

AlreadyOnDisk(p) == HasSize(PathOf(p), SizeIn[NameOf[p]])

(***************************************************************************)
(* The tables.                                                             *)
(***************************************************************************)
RowsWithHash(h) == {r \in webms : r.hash = h}

(* Mutant: the lookup never finds the alias.                               *)
AliasRowsForgotten(p) == {}

AliasRowsAt(p) == {a \in aliases : a.path = p}

PostKnown(p) == p \in posts

(* INSERTs that go through.  Threads, posts and webms have UNIQUE keys;    *)
(* webm_aliases has none, and a row inserted again (WebmPage counts them)  *)
(* says nothing new here.                                                  *)
AddThread(t) == threads' = threads \cup {t}
AddPost(p) == posts' = posts \cup {p}
AddWebm(h, p) == webms' = webms \cup {[hash |-> h, path |-> PathOf(p), post |-> p]}
AddAlias(h, p) == aliases' = aliases \cup {[hash |-> h, path |-> PathOf(p), post |-> p]}

(***************************************************************************)
(* The scraper.                                                            *)
(***************************************************************************)
Labels == {"sleep", "index", "pop", "post", "insert_post", "download", "fetch",
           "record", "alias", "link", "symlink", "down"}

Init ==
    /\ published = [t \in Thread |-> 0]
    /\ fs = [p \in Path |-> Absent]
    /\ threads = {} /\ posts = {} /\ webms = {} /\ aliases = {}
    /\ pc = "sleep"
    /\ boards_left = {} /\ matches = {} /\ thread_matches = <<>> /\ queue = <<>>
    /\ match = None /\ post_saved = FALSE /\ old_webm = None
    /\ real_fpath = None /\ real_old_fpath = None
    /\ faults = MaxFaults

Goto(l) == pc' = l
Fault == faults > 0 /\ faults' = faults - 1
NoFault == faults' = faults

ForgetWork ==
    /\ match' = None /\ post_saved' = FALSE /\ old_webm' = None
    /\ real_fpath' = None /\ real_old_fpath' = None

(* Mutant: the next iteration starts with what the last one left.          *)
NextPostUnreset == Goto("pop") /\ UNCHANGED <<work, index, queue>>

(* The end of an iteration of download_images' loop.                       *)
NextPost == Goto("pop") /\ ForgetWork /\ UNCHANGED <<index, queue>>

(* The end of the process: all it held in memory is gone.                  *)
Die ==
    /\ Goto("down") /\ ForgetWork
    /\ boards_left' = {} /\ matches' = {} /\ thread_matches' = <<>> /\ queue' = <<>>

NewPost(t) ==
    /\ published[t] < Len(Listing[t])
    /\ published' = [published EXCEPT ![t] = @ + 1]
    /\ UNCHANGED <<fs, tables, pc, index, queue, work, faults>>

(* download_images starts over, 20 minutes after the last time.            *)
StartCycle ==
    /\ pc = "sleep"
    /\ Goto("index")
    /\ boards_left' = Board
    /\ UNCHANGED <<published, fs, tables, matches, thread_matches, queue, work, faults>>

(* The catalog of a board; a failed request loses the board this cycle.    *)
ReadCatalog(b) ==
    /\ pc = "index" /\ thread_matches = <<>> /\ matches = {} /\ b \in boards_left
    /\ boards_left' = boards_left \ {b}
    /\ \/ /\ NoFault
          /\ \E S \in SUBSET {t \in ThreadsOn(b) : PossiblyMatched(t)} :
                /\ {t \in ThreadsOn(b) : SurelyMatched(t)} \subseteq S
                /\ matches' = S
       \/ Fault /\ matches' = {}
    /\ UNCHANGED <<published, fs, tables, pc, thread_matches, queue, work>>

(* Mutant: the posts come as listed.                                       *)
OldestFirst(t) == [i \in 1..published[t] |-> Listing[t][i]]

(* parse_thread_json pushes the posts in the order of the listing.         *)
NewestFirst(t) == [i \in 1..published[t] |-> Listing[t][published[t] + 1 - i]]

ReadThread(t) ==
    /\ pc = "index" /\ thread_matches = <<>> /\ t \in matches
    /\ matches' = matches \ {t}
    /\ \/ NoFault /\ thread_matches' = NewestFirst(t)
       \/ Fault /\ thread_matches' = <<>>
    /\ UNCHANGED <<published, fs, tables, pc, boards_left, queue, work>>

(* The newest post not yet looked at is queued unless its file is there or *)
(* its path is a known alias; a failed query answers "no alias".           *)
IndexPost ==
    /\ pc = "index" /\ thread_matches # <<>>
    /\ LET p == Head(thread_matches)
           known == AliasRowsAt(PathOf(p)) # {}
       IN \/ /\ NoFault
             /\ queue' = IF AlreadyOnDisk(p) \/ known THEN queue ELSE <<p>> \o queue
          \/ /\ Fault /\ known /\ ~AlreadyOnDisk(p)
             /\ queue' = <<p>> \o queue
    /\ thread_matches' = Tail(thread_matches)
    /\ UNCHANGED <<published, fs, tables, pc, boards_left, matches, work>>

IndexDone ==
    /\ pc = "index" /\ thread_matches = <<>> /\ matches = {} /\ boards_left = {}
    /\ Goto("pop")
    /\ UNCHANGED <<published, fs, tables, index, queue, work, faults>>

(* Mutant: a queue in place of the stack.                                  *)
PopOldestMatch ==
    /\ pc = "pop" /\ queue # <<>>
    /\ Goto("post")
    /\ match' = queue[Len(queue)] /\ queue' = SubSeq(queue, 1, Len(queue) - 1)
    /\ UNCHANGED <<published, fs, tables, index, post_saved, old_webm, links, faults>>

PopMatch ==
    /\ pc = "pop" /\ queue # <<>>
    /\ Goto("post")
    /\ match' = Head(queue) /\ queue' = Tail(queue)
    /\ UNCHANGED <<published, fs, tables, index, post_saved, old_webm, links, faults>>

CycleDone ==
    /\ pc = "pop" /\ queue = <<>>
    /\ Goto("sleep")
    /\ UNCHANGED <<published, fs, tables, index, queue, work, faults>>

(* add_post_to_db up to the post's own INSERT.  A failed query makes the   *)
(* later INSERTs violate a key: the answer is 0.  A failed INSERT may have *)
(* been committed.                                                         *)
SaveThread ==
    /\ pc = "post"
    /\ LET t == ThreadOf[match]
       IN \/ /\ PostKnown(match)
             /\ NoFault /\ Goto("download") /\ post_saved' = TRUE
             /\ UNCHANGED threads
          \/ /\ ~PostKnown(match)
             /\ NoFault /\ Goto("insert_post")
             /\ AddThread(t)
             /\ UNCHANGED post_saved
          \/ /\ Fault /\ Goto("download") /\ post_saved' = FALSE
             /\ UNCHANGED threads \/ (~PostKnown(match) /\ AddThread(t))
    /\ UNCHANGED <<published, fs, posts, webms, aliases, index, queue, match, old_webm, links>>

InsertPost ==
    /\ pc = "insert_post"
    /\ Goto("download")
    /\ \/ NoFault /\ AddPost(match) /\ post_saved' = TRUE
       \/ Fault /\ (UNCHANGED posts \/ AddPost(match)) /\ post_saved' = FALSE
    /\ UNCHANGED <<published, fs, threads, webms, aliases, index, queue, match, old_webm, links>>

SkipDownload ==
    /\ pc = "download"
    /\ match \notin WebmPost \/ AlreadyOnDisk(match)
    /\ NextPost
    /\ UNCHANGED <<published, fs, tables, faults>>

WillDownload == pc = "download" /\ match \in WebmPost /\ ~AlreadyOnDisk(match)

(* The thumbnail is there and fopen(.., "wb") has emptied the image file,  *)
(* the one a link at that path leads to if there is one.                   *)
OpenImage ==
    /\ WillDownload
    /\ \E q \in Sink(PathOf(match)) : fs' = [fs EXCEPT ![q] = Reg(Cut)]
    /\ Goto("fetch")
    /\ UNCHANGED <<published, tables, index, queue, work, faults>>

(* The error label closes files that are closed already: free to go on or  *)
(* to abort the process.                                                   *)
CloseTwice == NextPost \/ Die

ThumbFails ==
    /\ WillDownload
    /\ Fault /\ CloseTwice
    /\ UNCHANGED <<published, fs, tables>>

(* get_file does not look at the status: the body of an error is a file    *)
(* like any other.                                                         *)
FetchImage ==
    /\ pc = "fetch"
    /\ \/ NoFault /\ \E q \in Sink(PathOf(match)) :
                        fs' = [fs EXCEPT ![q] = Reg(ImageOf[match])]
       \/ Fault /\ \E q \in Sink(PathOf(match)), e \in ErrorBody :
                        fs' = [fs EXCEPT ![q] = Reg(e)]
    /\ Goto("record")
    /\ UNCHANGED <<published, tables, index, queue, work>>

FetchFails ==
    /\ pc = "fetch"
    /\ Fault /\ CloseTwice
    /\ UNCHANGED <<published, fs, tables>>

(* add_image_to_db hashes the file and looks the hash up.                  *)
FileHash == {fs[q].data : q \in RealPath(PathOf(match))}

InsertWebm ==
    /\ pc = "record" /\ post_saved
    /\ \E h \in FileHash :
          /\ RowsWithHash(h) = {} /\ DataSize(h) > 0
          /\ AddWebm(h, match)
    /\ NextPost
    /\ UNCHANGED <<published, fs, threads, posts, aliases, faults>>

(* The row is refused (post_id 0 is nobody's id, an empty file is nobody's *)
(* webm), or a query, the hashing or the INSERT failed.                    *)
NotRecorded ==
    /\ pc = "record"
    /\ \/ /\ \E h \in FileHash : RowsWithHash(h) = {} /\ (~post_saved \/ DataSize(h) = 0)
          /\ NoFault
       \/ Fault
    /\ NextPost
    /\ UNCHANGED <<published, fs, tables>>

FoundItself ==
    /\ pc = "record"
    /\ \E h \in FileHash : \E r \in RowsWithHash(h) : r.path = PathOf(match)
    /\ NextPost
    /\ UNCHANGED <<published, fs, tables, faults>>

(* Mutant: the row found may be the one of this very file.                 *)
FoundAnything ==
    /\ pc = "record"
    /\ \E h \in FileHash : old_webm' \in RowsWithHash(h)
    /\ Goto("alias")
    /\ UNCHANGED <<published, fs, tables, index, queue, match, post_saved, links, faults>>

FoundOriginal ==
    /\ pc = "record"
    /\ \E h \in FileHash : \E r \in RowsWithHash(h) :
          r.path # PathOf(match) /\ old_webm' = r
    /\ Goto("alias")
    /\ UNCHANGED <<published, fs, tables, index, queue, match, post_saved, links, faults>>

(* A failed lookup answers "no alias" and the alias is inserted again.     *)
InsertAlias ==
    /\ pc = "alias" /\ post_saved
    /\ \/ AliasRowsAt(PathOf(match)) = {} /\ NoFault
       \/ AliasRowsAt(PathOf(match)) # {} /\ Fault
    /\ AddAlias(old_webm.hash, match)
    /\ Goto("link")
    /\ UNCHANGED <<published, fs, threads, posts, webms, index, queue, work>>

(* The alias is known, or its INSERT failed: the file is linked all the    *)
(* same.                                                                   *)
KeepAliases ==
    /\ pc = "alias"
    /\ \/ AliasRowsAt(PathOf(match)) # {} /\ NoFault
       \/ ~post_saved /\ NoFault
       \/ Fault
    /\ Goto("link")
    /\ UNCHANGED <<published, fs, tables, index, queue, work>>

(* modify_aliased_file gives up when one of the files is missing or both   *)
(* are the same one; when unlink fails, symlink does too.                  *)
RefuseLink ==
    /\ pc = "link"
    /\ LET new == RealPath(PathOf(match))
           old == RealPath(old_webm.path)
       IN \/ (new = {} \/ old = {} \/ new = old) /\ NoFault
          \/ Fault
    /\ NextPost
    /\ UNCHANGED <<published, fs, tables>>

(* Mutant: no refusal to link a file to itself.                            *)
UnlinkItself ==
    /\ pc = "link"
    /\ \E new \in RealPath(PathOf(match)), old \in RealPath(old_webm.path) :
          /\ real_fpath' = new /\ real_old_fpath' = old
          /\ fs' = [fs EXCEPT ![new] = Absent]
    /\ Goto("symlink")
    /\ UNCHANGED <<published, tables, index, queue, match, post_saved, old_webm, faults>>

(* Mutant: the original is removed in place of the copy.                   *)
UnlinkOriginal ==
    /\ pc = "link"
    /\ \E new \in RealPath(PathOf(match)), old \in RealPath(old_webm.path) :
          /\ new # old
          /\ real_fpath' = old /\ real_old_fpath' = new
          /\ fs' = [fs EXCEPT ![old] = Absent]
    /\ Goto("symlink")
    /\ UNCHANGED <<published, tables, index, queue, match, post_saved, old_webm, faults>>

Unlink ==
    /\ pc = "link"
    /\ \E new \in RealPath(PathOf(match)), old \in RealPath(old_webm.path) :
          /\ new # old
          /\ real_fpath' = new /\ real_old_fpath' = old
          /\ fs' = [fs EXCEPT ![new] = Absent]
    /\ Goto("symlink")
    /\ UNCHANGED <<published, tables, index, queue, match, post_saved, old_webm, faults>>

(* Mutant: the copy is removed and nothing put in its place.               *)
SymlinkForgotten ==
    /\ pc = "symlink"
    /\ NextPost
    /\ UNCHANGED <<published, fs, tables, faults>>

Symlink ==
    /\ pc = "symlink"
    /\ \/ NoFault /\ fs' = [fs EXCEPT ![real_fpath] = Link(real_old_fpath)]
       \/ Fault /\ UNCHANGED fs
    /\ NextPost
    /\ UNCHANGED <<published, tables>>

Crash ==
    /\ pc # "down"
    /\ Fault /\ Die
    /\ UNCHANGED <<published, fs, tables>>

Restart ==
    /\ pc = "down"
    /\ Goto("sleep")
    /\ UNCHANGED <<published, fs, tables, index, queue, work, faults>>

(***************************************************************************)
(* The specification.                                                      *)
(***************************************************************************)
Indexing ==
    \/ StartCycle
    \/ \E b \in Board : ReadCatalog(b)
    \/ \E t \in Thread : ReadThread(t)
    \/ IndexPost
    \/ IndexDone

Downloading ==
    \/ PopMatch \/ CycleDone
    \/ SaveThread \/ InsertPost
    \/ SkipDownload \/ OpenImage \/ ThumbFails
    \/ FetchImage \/ FetchFails

Recording ==
    \/ InsertWebm \/ NotRecorded \/ FoundItself \/ FoundOriginal
    \/ InsertAlias \/ KeepAliases
    \/ RefuseLink \/ Unlink \/ Symlink

Scraper == Indexing \/ Downloading \/ Recording

Next ==
    \/ \E t \in Thread : NewPost(t)
    \/ Scraper
    \/ Crash
    \/ Restart

Spec == Init /\ [][Next]_vars

(* main loops for ever, and somebody starts the program again.             *)
FairSpec == Spec /\ WF_vars(Scraper) /\ WF_vars(Restart)

(***************************************************************************)
(* What a reader of the directory sees, and the catalogue it amounts to.   *)
(***************************************************************************)
View == [p \in Path |-> {fs[q].data : q \in RealPath(p)} \ {Cut}]
Described(rows) == {<<r.hash, r.path>> : r \in rows}

Kept == INSTANCE Catalogue WITH
    Hash <- Image, Place <- Path, shelf <- View,
    originals <- Described(webms), reposts <- Described(aliases)

(* Where the site serves no error bodies, the scraper keeps the promise of *)
(* Catalogue: truncating, linking, and failing in between hide nothing     *)
(* that is an original, and a repost is filed under what its path shows.   *)
KeepsCatalogue == Kept!Spec

(***************************************************************************)
(* Safety.                                                                 *)
(***************************************************************************)
DurableTyped ==
    /\ published \in [Thread -> Nat]
    /\ \A t \in Thread : published[t] <= Len(Listing[t])
    /\ fs \in [Path -> FileState]
    /\ threads \subseteq Thread /\ posts \subseteq Post
    /\ webms \subseteq Row /\ aliases \subseteq Row
    /\ faults \in 0..MaxFaults

LocalsTyped ==
    /\ pc \in Labels
    /\ boards_left \subseteq Board /\ matches \subseteq Thread
    /\ thread_matches \in Seq(Post) /\ queue \in Seq(Post)
    /\ IF pc \in {"sleep", "index", "pop", "down"} THEN match = None ELSE match \in Post
    /\ post_saved \in BOOLEAN
    /\ IF pc \in {"alias", "link", "symlink"} THEN old_webm \in Row ELSE old_webm = None
    /\ IF pc = "symlink" THEN real_fpath \in Path /\ real_old_fpath \in Path
                         ELSE real_fpath = None /\ real_old_fpath = None

(* Every variable keeps its type, and the variables of the work in hand    *)
(* are set exactly while the labels that use them are reached.             *)
TypeOK == DurableTyped /\ LocalsTyped

(* However files are downloaded again, relinked and downloaded through     *)
(* links, modify_aliased_file never closes a loop: every nonempty set of   *)
(* links holds one that leads out of the set.                              *)
NoLinkLoop ==
    \A S \in SUBSET Links : S # {} => \E l \in S : fs[l].to \notin S

(* An alias has an original with the same hash, and the original is some   *)
(* other file: add_image_to_db never makes a file an alias of itself.      *)
AliasOfOriginal ==
    \A a \in aliases : \E r \in webms : r.hash = a.hash /\ r.path # a.path

(* Where the site serves no error bodies, the file of an original is there *)
(* and has the content that was hashed, for ever: no download, link or     *)
(* crash damages it, fopen through a link included.                        *)
RowsBacked == \A r \in webms : fs[r.path] = Reg(r.hash)

(* A webm is taken for one that is there (by name and size: "We already    *)
(* have that file") only where the file shown is the very one posted, as   *)
(* long as no board has two files of one name and size.                    *)
OnDiskIsTheFile ==
    \A p \in WebmPost : AlreadyOnDisk(p) =>
        \E q \in RealPath(PathOf(p)) : fs[q].data = ImageOf[p]

(* Two stacks undo each other: the posts of one thread wait in the order   *)
(* they were posted, so that the first one becomes the original.           *)
PostedBefore(p, q) ==
    \E i, j \in 1..Len(Listing[ThreadOf[p]]) :
        i < j /\ Listing[ThreadOf[p]][i] = p /\ Listing[ThreadOf[p]][j] = q

QueueOldestFirst ==
    \A i, j \in 1..Len(queue) :
        i < j /\ ThreadOf[queue[i]] = ThreadOf[queue[j]] => PostedBefore(queue[i], queue[j])

(* While nothing fails, the original of a webm posted several times in one *)
(* thread is the first of those posts.                                     *)
OriginalIsOldest ==
    faults = MaxFaults => \A r \in webms : \A a \in aliases :
        r.hash = a.hash /\ ThreadOf[r.post] = ThreadOf[a.post] => PostedBefore(r.post, a.post)

(* Where the site serves no error bodies, nothing is lost through any      *)
(* download, failure or death: an image that is stored stays stored, what  *)
(* is unlinked for being a copy being a copy of something; and a path that *)
(* shows a webm goes on showing it, but for the one modify_aliased_file is *)
(* about to link, between unlink and symlink.                              *)
Stored(h) == \E q \in Path : fs[q] = Reg(h)

NothingLost ==
    [][/\ \A h \in Image : Stored(h) => Stored(h)'
       /\ \A p \in Path : View[p] # {} =>
             View'[p] = View[p] \/ (pc' = "symlink" /\ real_fpath' = p)]_vars

(* Files and tables disagree about a path: a webm is there that no row     *)
(* describes, or an alias row says that one is there and it is not.        *)
InDisrepair(p) ==
    \/ View[p] # {} /\ ~\E r \in webms \cup aliases : r.path = p
    \/ \E a \in aliases : a.path = p /\ View[p] # {a.hash}

(* Where the site serves no error bodies, every failure, death included,   *)
(* sets at most one path at odds with the tables, and what is found        *)
(* missing is never made worse by trying again; the path of the post in    *)
(* hand does not count.                                                    *)
EachFaultCostsOne ==
    Cardinality({p \in Path : InDisrepair(p) /\ (match = None \/ p # PathOf(match))})
        <= MaxFaults - faults

(***************************************************************************)
(* Liveness.                                                               *)
(***************************************************************************)
(* The posts the catalog is certain to lead to.                            *)
Found(p) == SurelyMatched(ThreadOf[p]) /\ p \in Shown(ThreadOf[p])

(* The image of a webm post the scraper can find is stored some day and    *)
(* kept from then on, whatever fails in between.                           *)
EventuallyStored ==
    \A p \in WebmPost : <>Found(p) => <>[]Stored(ImageOf[p])

(* ... and it is shown at the path of that very post, as a file or as a    *)
(* link to the original.                                                   *)
Served(p) == \E q \in RealPath(PathOf(p)) : fs[q].data = ImageOf[p]

EventuallyServed ==
    \A p \in WebmPost : <>Found(p) => <>[]Served(p)

(* As long as nothing fails, it is, and the webm has a row with its        *)
(* metadata.                                                               *)
Recorded(p) == RowsWithHash(ImageOf[p]) # {}

CalmlyServed ==
    [](faults = MaxFaults) =>
        \A p \in WebmPost : <>Found(p) => <>[]Served(p) /\ <>Recorded(p)
=============================================================================
