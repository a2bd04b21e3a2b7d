--------------------------- MODULE ArchiveProofs ---------------------------
(***************************************************************************)
(* Proofs about Archive, for every site and every number of faults.        *)
(***************************************************************************)
EXTENDS Archive, SequenceTheorems, FiniteSetTheorems, TLAPS

USE SiteAssumption, SizeAssumption, NoneAssumption

(* A post's path is a path, with the size of the post's image in its name. *)
LEMMA PathOfPost ==
    ASSUME NEW p \in Post
    PROVE  /\ PathOf(p) \in Path
           /\ PathOf(p)[2] = NameOf[p]
           /\ SizeIn[PathOf(p)[2]] = SizeOf[ImageOf[p]]
           /\ ImageOf[p] \in Content
PROOF
  <1>1. BoardOf[ThreadOf[p]] \in Board /\ NameOf[p] \in Name
    OBVIOUS
  <1>2. PathOf(p)[2] = NameOf[p]
    BY DEF PathOf
  <1> QED
    BY <1>1, <1>2 DEF PathOf, Path, Content

(* Nothing, a file and a link are what a path can hold.                    *)
LEMMA FileStates ==
    /\ Absent \in FileState
    /\ \A d \in Content \cup {Cut} : Reg(d) \in FileState
    /\ \A q \in Path : Link(q) \in FileState
PROOF BY DEF FileState

(* Whatever a path leads to is a path.                                     *)
LEMMA SinkIsPath ==
    ASSUME NEW p \in Path
    PROVE  Sink(p) \subseteq Path /\ RealPath(p) \subseteq Path
PROOF BY DEF Sink, RealPath

(* A regular file holds data, and is the file with that data: fs never     *)
(* maps a path to a link and a file at once.                               *)
LEMMA RegularData ==
    ASSUME fs \in [Path -> FileState], NEW q \in Path, IsReg(q)
    PROVE  fs[q].data \in Content \cup {Cut} /\ fs[q] = Reg(fs[q].data)
PROOF
  <1>1. fs[q] \in FileState
    OBVIOUS
  <1>2. fs[q] # Absent
    BY DEF IsReg, Absent
  <1>3. \A p \in Path : fs[q] # Link(p)
    BY DEF IsReg, Link
  <1>4. PICK d \in Content \cup {Cut} : fs[q] = Reg(d)
    BY <1>1, <1>2, <1>3 DEF FileState
  <1> QED
    BY <1>4 DEF Reg

(* The end of an iteration and the end of the process leave locals typed.  *)
LEMMA NextPostTyped ==
    ASSUME LocalsTyped, NextPost
    PROVE  LocalsTyped'
PROOF BY DEF LocalsTyped, NextPost, Goto, ForgetWork, index, Labels

(* The end of the process forgets the locals and leaves them typed.        *)
LEMMA DieTyped ==
    ASSUME Die
    PROVE  LocalsTyped'
PROOF BY EmptySeq DEF LocalsTyped, Die, Goto, ForgetWork, Labels

(* The stack of posts that build_thread_index fills from a thread holds    *)
(* posts.                                                                  *)
LEMMA NewestFirstTyped ==
    ASSUME TypeOK, NEW t \in Thread
    PROVE  NewestFirst(t) \in Seq(Post)
PROOF
  <1> DEFINE n == published[t]
  <1>1. n \in Nat /\ n <= Len(Listing[t]) /\ Listing[t] \in Seq(Post)
    BY DEF TypeOK, DurableTyped
  <1>2. \A i \in 1..n : Listing[t][n + 1 - i] \in Post
    <2> TAKE i \in 1..n
    <2>1. n + 1 - i \in 1..Len(Listing[t])
      BY <1>1
    <2> QED
      BY <1>1, <2>1, ElementOfSeq
  <1>3. NewestFirst(t) \in [1..n -> Post]
    BY <1>2 DEF NewestFirst
  <1>4. Seq(Post) = UNION {[1..k -> Post] : k \in Nat}
    BY SeqDef
  <1> HIDE DEF n
  <1> QED
    BY <1>1, <1>3, <1>4

(* Charging a fault leaves the budget in its range.                        *)
LEMMA FaultsTyped ==
    ASSUME faults \in 0..MaxFaults, Fault \/ NoFault
    PROVE  faults' \in 0..MaxFaults
PROOF BY DEF Fault, NoFault

(* Type correctness of the scraper, its files and its tables.              *)
THEOREM Typing == Spec => []TypeOK
PROOF
  <1>1. Init => TypeOK
    <2> SUFFICES ASSUME Init PROVE TypeOK
      OBVIOUS
    <2>1. DurableTyped
      <3>1. \A t \in Thread : Listing[t] \in Seq(Post) /\ Len(Listing[t]) \in Nat
        BY LenProperties
      <3> QED
        BY <3>1, FileStates DEF Init, DurableTyped
    <2>2. LocalsTyped
      BY EmptySeq DEF Init, LocalsTyped, Labels
    <2> QED
      BY <2>1, <2>2 DEF TypeOK
  <1>2. TypeOK /\ [Next]_vars => TypeOK'
    <2> SUFFICES ASSUME TypeOK, [Next]_vars PROVE TypeOK'
      OBVIOUS
    <2>a. DurableTyped /\ LocalsTyped
      BY DEF TypeOK
    <2>b. \A q \in Path, f \in FileState : [fs EXCEPT ![q] = f] \in [Path -> FileState]
      BY <2>a DEF DurableTyped
    <2>1. ASSUME NEW t \in Thread, NewPost(t) PROVE TypeOK'
      <3>1. Listing[t] \in Seq(Post) /\ Len(Listing[t]) \in Nat
        BY LenProperties
      <3>2. published' \in [Thread -> Nat] /\ \A u \in Thread : published'[u] <= Len(Listing[u])
        BY <2>1, <2>a, <3>1 DEF NewPost, DurableTyped
      <3> QED
        BY <2>1, <2>a, <3>2
        DEF NewPost, TypeOK, DurableTyped, LocalsTyped, tables, index, work, links
    <2>2. CASE Indexing
      <3>1. CASE StartCycle
        BY <2>a, <3>1 DEF StartCycle, Goto, TypeOK, DurableTyped, LocalsTyped, Labels, tables, index, work, links
      <3>2. ASSUME NEW b \in Board, ReadCatalog(b) PROVE TypeOK'
        <4>1. matches' \subseteq Thread /\ faults' \in 0..MaxFaults
          BY <2>a, <3>2, FaultsTyped DEF ReadCatalog, ThreadsOn, DurableTyped, LocalsTyped
        <4> QED
          BY <2>a, <3>2, <4>1 DEF ReadCatalog, TypeOK, DurableTyped, LocalsTyped, tables, work, links
      <3>3. ASSUME NEW t \in Thread, ReadThread(t) PROVE TypeOK'
        <4>1. thread_matches' \in Seq(Post)
          <5>1. NewestFirst(t) \in Seq(Post) /\ <<>> \in Seq(Post)
            BY NewestFirstTyped, EmptySeq
          <5> QED
            BY <3>3, <5>1 DEF ReadThread
        <4>2. faults' \in 0..MaxFaults
          BY <2>a, <3>3, FaultsTyped DEF ReadThread, DurableTyped
        <4> QED
          BY <2>a, <3>3, <4>1, <4>2 DEF ReadThread, TypeOK, DurableTyped, LocalsTyped, tables, work, links
      <3>4. CASE IndexPost
        <4>1. Head(thread_matches) \in Post /\ Tail(thread_matches) \in Seq(Post)
          BY <2>a, <3>4, HeadTailProperties DEF IndexPost, LocalsTyped
        <4>2. <<Head(thread_matches)>> \o queue \in Seq(Post)
          <5>1. <<Head(thread_matches)>> \in Seq(Post)
            BY <4>1
          <5> QED
            BY <2>a, <5>1, ConcatProperties DEF LocalsTyped
        <4>3. queue' \in Seq(Post) /\ thread_matches' \in Seq(Post) /\ faults' \in 0..MaxFaults
          BY <2>a, <3>4, <4>1, <4>2, FaultsTyped DEF IndexPost, DurableTyped, LocalsTyped
        <4> QED
          BY <2>a, <3>4, <4>3 DEF IndexPost, TypeOK, DurableTyped, LocalsTyped, tables, work, links
      <3>5. CASE IndexDone
        BY <2>a, <3>5 DEF IndexDone, Goto, TypeOK, DurableTyped, LocalsTyped, Labels, tables, index, work, links
      <3> QED
        BY <2>2, <3>1, <3>2, <3>3, <3>4, <3>5 DEF Indexing
    <2>3. CASE Downloading
      <3>1. CASE PopMatch
        <4>1. Head(queue) \in Post /\ Tail(queue) \in Seq(Post)
          BY <2>a, <3>1, HeadTailProperties DEF PopMatch, LocalsTyped
        <4> QED
          BY <2>a, <3>1, <4>1 DEF PopMatch, Goto, TypeOK, DurableTyped, LocalsTyped, Labels, tables, index, links
      <3>2. CASE CycleDone
        BY <2>a, <3>2 DEF CycleDone, Goto, TypeOK, DurableTyped, LocalsTyped, Labels, tables, index, work, links
      <3>3. CASE SaveThread
        <4>1. match \in Post /\ ThreadOf[match] \in Thread
          BY <2>a, <3>3 DEF SaveThread, LocalsTyped
        <4>2. threads' \subseteq Thread /\ faults' \in 0..MaxFaults
          BY <2>a, <3>3, <4>1, FaultsTyped DEF SaveThread, PostKnown, AddThread, DurableTyped
        <4>3. DurableTyped'
          BY <2>a, <3>3, <4>2 DEF SaveThread, PostKnown, AddThread, DurableTyped
        <4>4. LocalsTyped'
          BY <2>a, <3>3, <4>1 DEF SaveThread, Goto, LocalsTyped, Labels, index, links
        <4> QED
          BY <4>3, <4>4 DEF TypeOK
      <3>4. CASE InsertPost
        <4>1. match \in Post
          BY <2>a, <3>4 DEF InsertPost, LocalsTyped
        <4>2. posts' \subseteq Post /\ faults' \in 0..MaxFaults
          BY <2>a, <3>4, <4>1, FaultsTyped DEF InsertPost, AddPost, DurableTyped
        <4>3. DurableTyped'
          BY <2>a, <3>4, <4>2 DEF InsertPost, AddPost, DurableTyped
        <4>4. LocalsTyped'
          BY <2>a, <3>4, <4>1 DEF InsertPost, Goto, LocalsTyped, Labels, index, links
        <4> QED
          BY <4>3, <4>4 DEF TypeOK
      <3>5. CASE SkipDownload
        BY <2>a, <3>5, NextPostTyped DEF SkipDownload, TypeOK, DurableTyped, tables
      <3>6. CASE OpenImage
        <4>1. match \in Post
          BY <2>a, <3>6 DEF OpenImage, WillDownload, LocalsTyped
        <4>2. fs' \in [Path -> FileState]
          BY <2>b, <3>6, <4>1, PathOfPost, SinkIsPath, FileStates DEF OpenImage
        <4> QED
          BY <2>a, <3>6, <4>1, <4>2
          DEF OpenImage, WillDownload, Goto, TypeOK, DurableTyped, LocalsTyped, Labels, tables, index, work, links
      <3>7. CASE ThumbFails
        <4>1. faults' \in 0..MaxFaults
          BY <2>a, <3>7, FaultsTyped DEF ThumbFails, DurableTyped
        <4>2. LocalsTyped'
          BY <2>a, <3>7, NextPostTyped, DieTyped DEF ThumbFails, CloseTwice
        <4> QED
          BY <2>a, <3>7, <4>1, <4>2 DEF ThumbFails, TypeOK, DurableTyped, tables
      <3>8. CASE FetchImage
        <4>1. match \in Post
          BY <2>a, <3>8 DEF FetchImage, LocalsTyped
        <4>2. fs' \in [Path -> FileState]
          <5>1. ASSUME NEW d \in Content, NEW q \in Sink(PathOf(match)), fs' = [fs EXCEPT ![q] = Reg(d)]
                PROVE  fs' \in [Path -> FileState]
            BY <2>b, <4>1, <5>1, PathOfPost, SinkIsPath, FileStates
          <5>2. ErrorBody \subseteq Content
            BY DEF Content
          <5> QED
            BY <3>8, <4>1, <5>1, <5>2, PathOfPost DEF FetchImage
        <4>3. faults' \in 0..MaxFaults
          BY <2>a, <3>8, FaultsTyped DEF FetchImage, DurableTyped
        <4> QED
          BY <2>a, <3>8, <4>1, <4>2, <4>3
          DEF FetchImage, Goto, TypeOK, DurableTyped, LocalsTyped, Labels, tables, index, work, links
      <3>9. CASE FetchFails
        <4>1. faults' \in 0..MaxFaults
          BY <2>a, <3>9, FaultsTyped DEF FetchFails, DurableTyped
        <4>2. LocalsTyped'
          BY <2>a, <3>9, NextPostTyped, DieTyped DEF FetchFails, CloseTwice
        <4> QED
          BY <2>a, <3>9, <4>1, <4>2 DEF FetchFails, TypeOK, DurableTyped, tables
      <3> QED
        BY <2>3, <3>1, <3>2, <3>3, <3>4, <3>5, <3>6, <3>7, <3>8, <3>9 DEF Downloading
    <2>4. CASE Recording
      <3>1. CASE InsertWebm
        <4>1. match \in Post
          BY <2>a, <3>1 DEF InsertWebm, LocalsTyped
        <4>2. ASSUME NEW h \in FileHash, DataSize(h) > 0, RowsWithHash(h) = {},
                     webms' = webms \cup {[hash |-> h, path |-> PathOf(match), post |-> match]}
              PROVE  webms' \subseteq Row
          <5>1. h \in Content \cup {Cut}
            BY <2>a, <4>1, PathOfPost, SinkIsPath, RegularData DEF FileHash, RealPath, DurableTyped
          <5>2. h # Cut
            BY <4>2 DEF DataSize
          <5>3. [hash |-> h, path |-> PathOf(match), post |-> match] \in Row
            BY <4>1, <5>1, <5>2, PathOfPost DEF Row
          <5> QED
            BY <2>a, <4>2, <5>3 DEF DurableTyped
        <4>3. webms' \subseteq Row
          BY <3>1, <4>2 DEF InsertWebm, AddWebm
        <4> QED
          BY <2>a, <3>1, <4>3, NextPostTyped DEF InsertWebm, TypeOK, DurableTyped
      <3>2. CASE NotRecorded
        <4>1. faults' \in 0..MaxFaults
          BY <2>a, <3>2, FaultsTyped DEF NotRecorded, DurableTyped
        <4> QED
          BY <2>a, <3>2, <4>1, NextPostTyped DEF NotRecorded, TypeOK, DurableTyped, tables
      <3>3. CASE FoundItself
        BY <2>a, <3>3, NextPostTyped DEF FoundItself, TypeOK, DurableTyped, tables
      <3>4. CASE FoundOriginal
        <4>1. match \in Post
          BY <2>a, <3>4 DEF FoundOriginal, LocalsTyped
        <4>2. old_webm' \in Row
          BY <2>a, <3>4 DEF FoundOriginal, RowsWithHash, DurableTyped
        <4> QED
          BY <2>a, <3>4, <4>1, <4>2
          DEF FoundOriginal, Goto, TypeOK, DurableTyped, LocalsTyped, Labels, tables, index, links
      <3>5. CASE InsertAlias
        <4>1. match \in Post /\ old_webm \in Row
          BY <2>a, <3>5 DEF InsertAlias, LocalsTyped
        <4>2. [hash |-> old_webm.hash, path |-> PathOf(match), post |-> match] \in Row
          BY <4>1, PathOfPost DEF Row
        <4>3. aliases' \subseteq Row /\ faults' \in 0..MaxFaults
          BY <2>a, <3>5, <4>2, FaultsTyped DEF InsertAlias, AddAlias, DurableTyped
        <4> QED
          BY <2>a, <3>5, <4>1, <4>3
          DEF InsertAlias, Goto, TypeOK, DurableTyped, LocalsTyped, Labels, index, work, links
      <3>6. CASE KeepAliases
        <4>1. faults' \in 0..MaxFaults
          BY <2>a, <3>6, FaultsTyped DEF KeepAliases, DurableTyped
        <4> QED
          BY <2>a, <3>6, <4>1
          DEF KeepAliases, Goto, TypeOK, DurableTyped, LocalsTyped, Labels, tables, index, work, links
      <3>7. CASE RefuseLink
        <4>1. faults' \in 0..MaxFaults
          BY <2>a, <3>7, FaultsTyped DEF RefuseLink, DurableTyped
        <4> QED
          BY <2>a, <3>7, <4>1, NextPostTyped DEF RefuseLink, TypeOK, DurableTyped, tables
      <3>8. CASE Unlink
        <4>1. match \in Post /\ old_webm \in Row
          BY <2>a, <3>8 DEF Unlink, LocalsTyped
        <4>2. PathOf(match) \in Path /\ old_webm.path \in Path
          BY <4>1, PathOfPost DEF Row
        <4>3. PICK new \in RealPath(PathOf(match)), old \in RealPath(old_webm.path) :
                  /\ real_fpath' = new /\ real_old_fpath' = old
                  /\ fs' = [fs EXCEPT ![new] = Absent]
          BY <3>8 DEF Unlink
        <4>4. new \in Path /\ old \in Path
          BY <4>2, <4>3, SinkIsPath
        <4>5. fs' \in [Path -> FileState]
          BY <2>b, <4>3, <4>4, FileStates
        <4> QED
          BY <2>a, <3>8, <4>1, <4>3, <4>4, <4>5
          DEF Unlink, Goto, TypeOK, DurableTyped, LocalsTyped, Labels, tables, index
      <3>9. CASE Symlink
        <4>1. real_fpath \in Path /\ real_old_fpath \in Path
          BY <2>a, <3>9 DEF Symlink, LocalsTyped
        <4>2. faults' \in 0..MaxFaults
          BY <2>a, <3>9, FaultsTyped DEF Symlink, DurableTyped
        <4>3. Link(real_old_fpath) \in FileState
          BY <4>1, FileStates
        <4>4. fs' \in [Path -> FileState]
          BY <2>a, <2>b, <3>9, <4>1, <4>3 DEF Symlink, DurableTyped
        <4> QED
          BY <2>a, <3>9, <4>2, <4>4, NextPostTyped DEF Symlink, TypeOK, DurableTyped, tables
      <3> QED
        BY <2>4, <3>1, <3>2, <3>3, <3>4, <3>5, <3>6, <3>7, <3>8, <3>9 DEF Recording
    <2>5. CASE Crash
      <3>1. faults' \in 0..MaxFaults
        BY <2>a, <2>5, FaultsTyped DEF Crash, DurableTyped
      <3> QED
        BY <2>a, <2>5, <3>1, DieTyped DEF Crash, TypeOK, DurableTyped, tables
    <2>6. CASE Restart
      BY <2>a, <2>6 DEF Restart, Goto, TypeOK, DurableTyped, LocalsTyped, Labels, tables, index, work, links
    <2>7. CASE UNCHANGED vars
      BY <2>a, <2>7 DEF vars, TypeOK, DurableTyped, LocalsTyped, tables, index, work, links
    <2> QED
      BY <2>1, <2>2, <2>3, <2>4, <2>5, <2>6, <2>7 DEF Next, Scraper
  <1> QED
    BY <1>1, <1>2, PTL DEF Spec

(***************************************************************************)
(* No loop of links.  The only step that makes a link makes it point at a  *)
(* file that was a regular one a step ago, when its own path was emptied;  *)
(* nothing else writes in between.                                         *)
(***************************************************************************)
LinkingApart ==
    pc = "symlink" => ~IsLink(real_fpath) /\ ~IsLink(real_old_fpath) /\ real_fpath # real_old_fpath

(* Turning a path into something that is no link closes no loop.           *)
LEMMA PlainFileClosesNoLoop ==
    ASSUME fs \in [Path -> FileState], NoLinkLoop,
           NEW q \in Path, NEW f \in FileState, f.kind # "link",
           fs' = [fs EXCEPT ![q] = f]
    PROVE  NoLinkLoop'
PROOF
  <1>1. Links' \subseteq Links /\ \A l \in Links' : fs'[l] = fs[l]
    BY DEF Links, IsLink
  <1> SUFFICES ASSUME NEW S \in SUBSET Links', S # {}
               PROVE  \E l \in S : fs'[l].to \notin S
    BY DEF NoLinkLoop
  <1>2. PICK l \in S : fs[l].to \notin S
    BY <1>1 DEF NoLinkLoop
  <1> QED
    BY <1>1, <1>2

(* Nor does a link to a file that is no link.                              *)
LEMMA LinkToFileClosesNoLoop ==
    ASSUME fs \in [Path -> FileState], NoLinkLoop,
           NEW q \in Path, NEW o \in Path, ~IsLink(o), q # o,
           fs' = [fs EXCEPT ![q] = Link(o)]
    PROVE  NoLinkLoop'
PROOF
  <1>1. fs'[q].to = o /\ o \notin Links'
    BY DEF Links, IsLink, Link
  <1>2. \A l \in Links' : l # q => l \in Links /\ fs'[l] = fs[l]
    BY DEF Links, IsLink
  <1> SUFFICES ASSUME NEW S \in SUBSET Links', S # {}
               PROVE  \E l \in S : fs'[l].to \notin S
    BY DEF NoLinkLoop
  <1>3. CASE q \in S
    BY <1>1, <1>3
  <1>4. CASE q \notin S
    <2>1. S \subseteq Links
      BY <1>2, <1>4
    <2>2. PICK l \in S : fs[l].to \notin S
      BY <2>1 DEF NoLinkLoop
    <2> QED
      BY <1>2, <1>4, <2>2
  <1> QED
    BY <1>3, <1>4

(* Nothing, a file and a link are told apart, as by lstat.                 *)
LEMMA Kinds ==
    /\ Absent.kind = "absent"
    /\ \A d : Reg(d).kind = "reg" /\ Reg(d).data = d
    /\ \A q : Link(q).kind = "link"
PROOF BY DEF Absent, Reg, Link

(* Following symbolic links ends: modify_aliased_file never links files in *)
(* a circle, whatever fails between its unlink and its symlink.            *)
THEOREM NoLoops == Spec => []NoLinkLoop
PROOF
  <1> DEFINE Inv == NoLinkLoop /\ LinkingApart
  <1>1. Init => Inv
    <2> SUFFICES ASSUME Init PROVE Inv
      OBVIOUS
    <2>1. Links = {}
      BY Kinds DEF Init, Links, IsLink
    <2> QED
      BY <2>1 DEF Init, NoLinkLoop, LinkingApart
  <1>2. TypeOK /\ Inv /\ [Next]_vars => Inv'
    <2> SUFFICES ASSUME TypeOK, Inv, [Next]_vars PROVE Inv'
      OBVIOUS
    <2>a. fs \in [Path -> FileState] /\ LocalsTyped
      BY DEF TypeOK, DurableTyped
    <2>1. ASSUME pc # "symlink", UNCHANGED fs, pc' # "symlink" PROVE Inv'
      BY <2>1 DEF NoLinkLoop, LinkingApart, Links, IsLink
    <2>2. ASSUME NEW t \in Thread, NewPost(t) PROVE Inv'
      BY <2>2 DEF NewPost, NoLinkLoop, LinkingApart, Links, IsLink, work, links
    <2>3. CASE Indexing
      <3>1. pc # "symlink" /\ UNCHANGED fs /\ pc' # "symlink"
        BY <2>3 DEF Indexing, StartCycle, ReadCatalog, ReadThread, IndexPost, IndexDone, Goto
      <3> QED
        BY <2>1, <3>1
    <2>4. CASE PopMatch \/ CycleDone \/ SaveThread \/ InsertPost \/ SkipDownload \/ ThumbFails \/ FetchFails
      <3>1. pc # "symlink" /\ UNCHANGED fs /\ pc' # "symlink"
        BY <2>4 DEF PopMatch, CycleDone, SaveThread, InsertPost, SkipDownload, ThumbFails, FetchFails,
                    CloseTwice, Die, NextPost, WillDownload, Goto
      <3> QED
        BY <2>1, <3>1
    <2>5. CASE OpenImage
      <3>1. match \in Post /\ PathOf(match) \in Path
        BY <2>5, <2>a, PathOfPost DEF OpenImage, WillDownload, LocalsTyped
      <3>2. PICK q \in Sink(PathOf(match)) : fs' = [fs EXCEPT ![q] = Reg(Cut)]
        BY <2>5 DEF OpenImage
      <3>3. NoLinkLoop'
        BY <2>a, <3>1, <3>2, SinkIsPath, FileStates, Kinds, PlainFileClosesNoLoop
      <3> QED
        BY <2>5, <3>3 DEF OpenImage, Goto, LinkingApart
    <2>6. CASE FetchImage
      <3>1. match \in Post /\ PathOf(match) \in Path
        BY <2>6, <2>a, PathOfPost DEF FetchImage, LocalsTyped
      <3>2. PICK q \in Sink(PathOf(match)), d \in Content : fs' = [fs EXCEPT ![q] = Reg(d)]
        BY <2>6, <3>1, PathOfPost DEF FetchImage, Content
      <3>3. NoLinkLoop'
        BY <2>a, <3>1, <3>2, SinkIsPath, FileStates, Kinds, PlainFileClosesNoLoop
      <3> QED
        BY <2>6, <3>3 DEF FetchImage, Goto, LinkingApart
    <2>7. CASE InsertWebm \/ NotRecorded \/ FoundItself \/ FoundOriginal \/ InsertAlias \/ KeepAliases \/ RefuseLink
      <3>1. pc # "symlink" /\ UNCHANGED fs /\ pc' # "symlink"
        BY <2>7 DEF InsertWebm, NotRecorded, FoundItself, FoundOriginal, InsertAlias, KeepAliases, RefuseLink,
                    NextPost, Goto
      <3> QED
        BY <2>1, <3>1
    <2>8. CASE Unlink
      <3>1. match \in Post /\ old_webm \in Row
        BY <2>8, <2>a DEF Unlink, LocalsTyped
      <3>2. PathOf(match) \in Path /\ old_webm.path \in Path
        BY <3>1, PathOfPost DEF Row
      <3>3. PICK new \in RealPath(PathOf(match)), old \in RealPath(old_webm.path) :
                /\ new # old /\ real_fpath' = new /\ real_old_fpath' = old
                /\ fs' = [fs EXCEPT ![new] = Absent]
        BY <2>8 DEF Unlink
      <3>4. new \in Path /\ old \in Path /\ fs[old].kind = "reg"
        BY <3>2, <3>3, SinkIsPath DEF RealPath, IsReg
      <3>5. NoLinkLoop'
        BY <2>a, <3>3, <3>4, FileStates, Kinds, PlainFileClosesNoLoop
      <3>6. fs'[new] = Absent /\ fs'[old] = fs[old]
        BY <2>a, <3>3, <3>4
      <3>7. LinkingApart'
        BY <3>3, <3>4, <3>6, Kinds DEF LinkingApart, IsLink
      <3> QED
        BY <3>5, <3>7
    <2>9. CASE Symlink
      <3>1. real_fpath \in Path /\ real_old_fpath \in Path
        BY <2>9, <2>a DEF Symlink, LocalsTyped
      <3>2. ~IsLink(real_old_fpath) /\ real_fpath # real_old_fpath
        BY <2>9 DEF Symlink, LinkingApart
      <3>3. NoLinkLoop'
        <4>1. CASE fs' = [fs EXCEPT ![real_fpath] = Link(real_old_fpath)]
          BY <2>a, <3>1, <3>2, <4>1, LinkToFileClosesNoLoop
        <4>2. CASE UNCHANGED fs
          BY <4>2 DEF NoLinkLoop, Links, IsLink
        <4> QED
          BY <2>9, <4>1, <4>2 DEF Symlink
      <3> QED
        BY <2>9, <3>3 DEF Symlink, NextPost, Goto, LinkingApart
    <2>10. CASE Crash \/ Restart
      BY <2>10 DEF Crash, Restart, Die, Goto, NoLinkLoop, LinkingApart, Links, IsLink
    <2>11. CASE UNCHANGED vars
      BY <2>11 DEF vars, NoLinkLoop, LinkingApart, Links, IsLink, work, links
    <2> QED
      BY <2>2, <2>3, <2>4, <2>5, <2>6, <2>7, <2>8, <2>9, <2>10, <2>11 DEF Next, Scraper, Downloading, Recording
  <1> QED
    BY <1>1, <1>2, Typing, PTL DEF Spec

(***************************************************************************)
(* An alias is of an original at another path.  The row found by its hash  *)
(* is held across two steps; it stays a row, because rows are only added.  *)
(***************************************************************************)
OneRowPerHash == \A r1, r2 \in webms : r1.hash = r2.hash => r1 = r2

OldWebmElsewhere ==
    pc \in {"alias", "link", "symlink"} => old_webm \in webms /\ old_webm.path # PathOf(match)

(* add_image_to_db: an alias belongs to an original elsewhere, and a hash  *)
(* has one row in webms.                                                   *)
THEOREM AliasesOfOriginals == Spec => [](AliasOfOriginal /\ OneRowPerHash /\ OldWebmElsewhere)
PROOF
  <1> DEFINE Inv == AliasOfOriginal /\ OneRowPerHash /\ OldWebmElsewhere
  <1>1. Init => Inv
    BY DEF Init, AliasOfOriginal, OneRowPerHash, OldWebmElsewhere
  <1>2. TypeOK /\ Inv /\ [Next]_vars => Inv'
    <2> SUFFICES ASSUME TypeOK, Inv, [Next]_vars PROVE Inv'
      OBVIOUS
    <2>a. LocalsTyped /\ webms \subseteq Row /\ aliases \subseteq Row
      BY DEF TypeOK, DurableTyped
    <2>1. ASSUME UNCHANGED <<webms, aliases>>,
                 pc' \in {"alias", "link", "symlink"} =>
                     /\ pc \in {"alias", "link", "symlink"}
                     /\ UNCHANGED <<old_webm, match>>
          PROVE  Inv'
      BY <2>1 DEF AliasOfOriginal, OneRowPerHash, OldWebmElsewhere, PathOf
    <2>2. ASSUME NEW t \in Thread, NewPost(t) PROVE Inv'
      BY <2>1, <2>2 DEF NewPost, tables, work
    <2>3. CASE Indexing
      BY <2>1, <2>3 DEF Indexing, StartCycle, ReadCatalog, ReadThread, IndexPost, IndexDone, Goto, tables
    <2>4. CASE Downloading
      BY <2>1, <2>4 DEF Downloading, PopMatch, CycleDone, SaveThread, InsertPost, SkipDownload, OpenImage,
                        ThumbFails, FetchImage, FetchFails, CloseTwice, Die, NextPost, Goto, tables
    <2>5. CASE InsertWebm
      <3>1. PICK h \in FileHash :
                /\ RowsWithHash(h) = {}
                /\ webms' = webms \cup {[hash |-> h, path |-> PathOf(match), post |-> match]}
        BY <2>5 DEF InsertWebm, AddWebm
      <3>2. \A r \in webms : r.hash # h
        BY <3>1 DEF RowsWithHash
      <3>3. OneRowPerHash'
        BY <3>1, <3>2 DEF OneRowPerHash
      <3>4. AliasOfOriginal'
        BY <2>5, <3>1 DEF AliasOfOriginal, InsertWebm
      <3> QED
        BY <2>5, <3>3, <3>4 DEF InsertWebm, OldWebmElsewhere, NextPost, Goto
    <2>6. CASE FoundOriginal
      <3>1. old_webm' \in webms /\ old_webm'.path # PathOf(match) /\ UNCHANGED <<webms, aliases, match>>
        BY <2>6 DEF FoundOriginal, RowsWithHash, tables
      <3> QED
        BY <3>1 DEF AliasOfOriginal, OneRowPerHash, OldWebmElsewhere, PathOf
    <2>7. CASE InsertAlias
      <3>1. old_webm \in webms /\ old_webm.path # PathOf(match)
        BY <2>7 DEF InsertAlias, OldWebmElsewhere
      <3>2. AliasOfOriginal'
        <4> DEFINE new == [hash |-> old_webm.hash, path |-> PathOf(match), post |-> match]
        <4>1. aliases' = aliases \cup {new} /\ webms' = webms
          BY <2>7 DEF InsertAlias, AddAlias
        <4>2. old_webm.hash = new.hash /\ old_webm.path # new.path
          BY <3>1
        <4> HIDE DEF new
        <4> QED
          BY <3>1, <4>1, <4>2 DEF AliasOfOriginal
      <3> QED
        BY <2>7, <3>1, <3>2 DEF InsertAlias, OneRowPerHash, OldWebmElsewhere, PathOf, work
    <2>8. CASE NotRecorded \/ FoundItself \/ KeepAliases \/ RefuseLink \/ Unlink \/ Symlink
      BY <2>1, <2>8 DEF NotRecorded, FoundItself, KeepAliases, RefuseLink, Unlink, Symlink,
                        NextPost, Goto, tables, work
    <2>9. CASE Crash \/ Restart
      BY <2>1, <2>9 DEF Crash, Restart, Die, Goto, tables
    <2>10. CASE UNCHANGED vars
      BY <2>1, <2>10 DEF vars, tables, work
    <2> QED
      BY <2>2, <2>3, <2>4, <2>5, <2>6, <2>7, <2>8, <2>9, <2>10 DEF Next, Scraper, Recording
  <1> QED
    BY <1>1, <1>2, Typing, PTL DEF Spec

(***************************************************************************)
(* The files behind the rows, where the site serves no error bodies.  The  *)
(* rows alone do not explain why they are left alone: a download empties   *)
(* the file its path leads to.  It never leads to an original, because a   *)
(* file has the size its name starts with or is cut (Sized), and a link    *)
(* leads to an original of the size its own name starts with (LinksToRows),*)
(* so that both are found to be on disk already.                           *)
(***************************************************************************)
Sized ==
    \A p \in Path : IsReg(p) /\ fs[p].data # Cut =>
        fs[p].data \in Image /\ SizeOf[fs[p].data] = SizeIn[p[2]]

LinksToRows ==
    \A p \in Path : IsLink(p) =>
        \E r \in webms : fs[p].to = r.path /\ SizeOf[r.hash] = SizeIn[p[2]]

(* What the labels say of the file in hand.                                *)
FileInHand ==
    /\ pc = "fetch" => fs[PathOf(match)] = Reg(Cut)
    /\ pc \in {"record", "alias", "link"} => fs[PathOf(match)] = Reg(ImageOf[match])
    /\ pc \in {"alias", "link", "symlink"} => old_webm.hash = ImageOf[match]
    /\ pc = "symlink" =>
          /\ fs[PathOf(match)] = Absent
          /\ real_fpath = PathOf(match) /\ real_old_fpath = old_webm.path

(* realpath of a path that is no link is the path.                         *)
LEMMA PlainSink ==
    ASSUME NEW p \in Path, ~IsLink(p)
    PROVE  /\ Sink(p) = {p}
           /\ IsReg(p) => RealPath(p) = {p}
PROOF BY DEF Sink, RealPath

(* realpath of a link to a path that is none ends there.                   *)
LEMMA OneLinkSink ==
    ASSUME NEW p \in Path, IsLink(p), fs[p].to \in Path, ~IsLink(fs[p].to)
    PROVE  fs[p].to \in Sink(p)
PROOF
  <1>1. LeadsTo(p, fs[p].to)
    BY DEF LeadsTo
  <1> QED
    BY <1>1 DEF Sink, Links

(* A file that will be downloaded is missing or cut, and no link is in the *)
(* way.                                                                    *)
LEMMA DownloadsIntoPlace ==
    ASSUME TypeOK, RowsBacked, Sized, LinksToRows, WillDownload
    PROVE  /\ match \in Post /\ PathOf(match) \in Path
           /\ fs[PathOf(match)] \in {Absent, Reg(Cut)}
           /\ Sink(PathOf(match)) = {PathOf(match)}
PROOF
  <1> DEFINE P == PathOf(match)
  <1>1. match \in Post /\ fs \in [Path -> FileState] /\ webms \subseteq Row
    BY DEF TypeOK, DurableTyped, LocalsTyped, WillDownload
  <1>2. P \in Path /\ SizeIn[P[2]] = SizeIn[NameOf[match]]
    BY <1>1, PathOfPost
  <1>3. \A q \in RealPath(P) : DataSize(fs[q].data) # SizeIn[P[2]]
    BY <1>2 DEF WillDownload, AlreadyOnDisk, HasSize
  <1>4. ~IsLink(P)
    <2> SUFFICES ASSUME IsLink(P) PROVE FALSE
      OBVIOUS
    <2>1. PICK r \in webms : fs[P].to = r.path /\ SizeOf[r.hash] = SizeIn[P[2]]
      BY <1>2 DEF LinksToRows
    <2>2. r.path \in Path /\ r.hash \in Content
      BY <1>1, <2>1 DEF Row
    <2>3. fs[r.path] = Reg(r.hash) /\ r.hash # Cut
      BY <2>2 DEF RowsBacked
    <2>4. IsReg(r.path) /\ ~IsLink(r.path) /\ fs[r.path].data = r.hash
      BY <2>3, Kinds DEF IsReg, IsLink, Reg
    <2>5. r.path \in RealPath(P)
      BY <1>2, <2>1, <2>2, <2>4, OneLinkSink DEF RealPath
    <2>6. DataSize(fs[r.path].data) = SizeOf[r.hash]
      BY <2>3, <2>4 DEF DataSize
    <2> QED
      BY <1>3, <2>1, <2>5, <2>6
  <1>5. fs[P] \in {Absent, Reg(Cut)}
    <2>1. CASE IsReg(P)
      <3>1. P \in RealPath(P) /\ fs[P] = Reg(fs[P].data)
        BY <1>1, <1>2, <1>4, <2>1, PlainSink, RegularData
      <3>2. fs[P].data = Cut
        BY <1>2, <1>3, <2>1, <3>1 DEF Sized, DataSize
      <3> QED
        BY <3>1, <3>2
    <2>2. CASE ~IsReg(P)
      <3>1. fs[P] \in FileState
        BY <1>1, <1>2
      <3> QED
        BY <1>4, <2>2, <3>1, Kinds DEF FileState, IsReg, IsLink
    <2> QED
      BY <2>1, <2>2
  <1> QED
    BY <1>1, <1>2, <1>4, <1>5, PlainSink

FilesInv == RowsBacked /\ Sized /\ LinksToRows /\ FileInHand

(* A path that backs no row may be emptied, cut or given a file of its     *)
(* size.                                                                   *)
LEMMA WriteFile ==
    ASSUME fs \in [Path -> FileState], RowsBacked, Sized, LinksToRows,
           webms \subseteq Row, UNCHANGED webms,
           NEW p \in Path, \A r \in webms : r.path # p,
           NEW f, f = Absent \/ \E d \in Image \cup {Cut} : f = Reg(d) /\ (d = Cut \/ SizeOf[d] = SizeIn[p[2]]),
           fs' = [fs EXCEPT ![p] = f]
    PROVE  (RowsBacked /\ Sized /\ LinksToRows)'
PROOF
  <1>1. fs'[p] = f /\ \A q \in Path : q # p => fs'[q] = fs[q]
    OBVIOUS
  <1>2. RowsBacked'
    BY <1>1 DEF RowsBacked, Row
  <1>3. Sized'
    <2> SUFFICES ASSUME NEW q \in Path, fs'[q].kind = "reg", fs'[q].data # Cut
                 PROVE  fs'[q].data \in Image /\ SizeOf[fs'[q].data] = SizeIn[q[2]]
      BY DEF Sized, IsReg
    <2>1. CASE q = p
      <3>1. f # Absent
        BY <1>1, <2>1, Kinds
      <3>2. PICK d \in Image \cup {Cut} : f = Reg(d) /\ (d = Cut \/ SizeOf[d] = SizeIn[p[2]])
        BY <3>1
      <3>3. f.data = d
        BY <3>2 DEF Reg
      <3> QED
        BY <1>1, <2>1, <3>2, <3>3
    <2>2. CASE q # p
      BY <1>1, <2>2 DEF Sized, IsReg
    <2> QED
      BY <2>1, <2>2
  <1>4. LinksToRows'
    <2> SUFFICES ASSUME NEW q \in Path, fs'[q].kind = "link"
                 PROVE  \E r \in webms : fs'[q].to = r.path /\ SizeOf[r.hash] = SizeIn[q[2]]
      BY DEF LinksToRows, IsLink
    <2>1. q # p
      BY <1>1, Kinds
    <2> QED
      BY <1>1, <2>1 DEF LinksToRows, IsLink
  <1> QED
    BY <1>2, <1>3, <1>4

(* No step serves the body of an error as a file.                          *)
NoErrorServed == ErrorBody = {} \/ ~Fault

(* At the start there are no files, no rows and nothing in hand.           *)
LEMMA FilesInit == Init => FilesInv
PROOF
  <1> SUFFICES ASSUME Init PROVE FilesInv
    OBVIOUS
  <1>1. \A p \in Path : ~IsReg(p) /\ ~IsLink(p)
    BY Kinds DEF Init, IsReg, IsLink
  <1> QED
    BY <1>1 DEF Init, FilesInv, RowsBacked, Sized, LinksToRows, FileInHand

(* Every step that serves no error body keeps what is known of files and   *)
(* rows.                                                                   *)
LEMMA FilesStep ==
    ASSUME TypeOK, OneRowPerHash, OldWebmElsewhere, FilesInv, [Next]_vars, NoErrorServed
    PROVE  FilesInv'
PROOF
  <1>a. /\ fs \in [Path -> FileState] /\ LocalsTyped /\ webms \subseteq Row
        /\ RowsBacked /\ Sized /\ LinksToRows /\ FileInHand
    BY DEF TypeOK, DurableTyped, FilesInv
  <1>b. \A r \in webms : r.path \in Path /\ r.hash \in Content /\ fs[r.path] = Reg(r.hash)
    BY <1>a DEF Row, RowsBacked
  <1>r. \A r \in webms : /\ fs[r.path].kind = "reg" /\ fs[r.path].data = r.hash
                         /\ r.hash # Cut
    <2> TAKE r \in webms
    <2>1. fs[r.path] = Reg(r.hash) /\ r.hash # Cut
      BY <1>b
    <2> QED
      BY <2>1 DEF Reg
  <1> DEFINE P == PathOf(match)
  <1>c. ASSUME match \in Post
        PROVE  P \in Path /\ SizeIn[P[2]] = SizeOf[ImageOf[match]] /\ ImageOf[match] \in Content
    BY <1>c, PathOfPost
  <1>d. ASSUME UNCHANGED <<fs, webms>>
        PROVE  (RowsBacked /\ Sized /\ LinksToRows)'
    BY <1>a, <1>d DEF RowsBacked, Sized, LinksToRows, IsReg, IsLink
  <1>1. ASSUME UNCHANGED <<fs, webms>>, pc' \notin {"fetch", "record", "alias", "link", "symlink"}
        PROVE  FilesInv'
    BY <1>d, <1>1 DEF FilesInv, FileInHand
  <1>2. ASSUME NEW t \in Thread, NewPost(t) PROVE FilesInv'
    BY <1>a, <1>d, <1>2 DEF NewPost, FilesInv, FileInHand, tables, work, links, PathOf
  <1>3. CASE Indexing
    <2>1. UNCHANGED <<fs, webms>> /\ pc' \in {"index", "pop"}
      BY <1>3 DEF Indexing, StartCycle, ReadCatalog, ReadThread, IndexPost, IndexDone, Goto, tables
    <2> QED
      BY <1>1, <2>1
  <1>4. CASE PopMatch \/ CycleDone \/ SaveThread \/ InsertPost \/ SkipDownload \/ ThumbFails \/ FetchFails
    <2>1. UNCHANGED <<fs, webms>> /\ pc' \in {"post", "sleep", "download", "insert_post", "pop", "down"}
      BY <1>4 DEF PopMatch, CycleDone, SaveThread, InsertPost, SkipDownload, ThumbFails, FetchFails,
                  CloseTwice, Die, NextPost, Goto, tables
    <2> QED
      BY <1>1, <2>1
  <1>5. CASE OpenImage
    <2>1. /\ match \in Post /\ P \in Path
          /\ fs[P] \in {Absent, Reg(Cut)} /\ Sink(P) = {P}
      BY <1>a, <1>5, DownloadsIntoPlace DEF OpenImage
    <2>2. fs' = [fs EXCEPT ![P] = Reg(Cut)] /\ UNCHANGED <<webms, match>> /\ pc' = "fetch"
      BY <1>5, <2>1 DEF OpenImage, Goto, tables, work
    <2>3. \A r \in webms : r.path # P
      <3>0. Absent.kind # "reg" /\ Reg(Cut).data = Cut
        BY DEF Absent, Reg
      <3>1. ASSUME NEW r \in webms PROVE fs[r.path] # Absent /\ fs[r.path] # Reg(Cut)
        <4>1. fs[r.path] # Absent
          BY <1>r, <3>0
        <4>2. fs[r.path] # Reg(Cut)
          BY <1>r, <3>0
        <4> QED
          BY <4>1, <4>2
      <3> QED
        BY <2>1, <3>1
    <2>4. (RowsBacked /\ Sized /\ LinksToRows)'
      BY <1>a, <2>1, <2>2, <2>3, WriteFile
    <2>5. FileInHand'
      BY <1>a, <2>1, <2>2 DEF FileInHand, PathOf
    <2> QED
      BY <2>4, <2>5 DEF FilesInv
  <1>6. CASE FetchImage
    <2>1. match \in Post /\ P \in Path /\ fs[P] = Reg(Cut)
      BY <1>a, <1>c, <1>6 DEF FetchImage, LocalsTyped, FileInHand
    <2>2. Sink(P) = {P}
      BY <2>1, Kinds, PlainSink DEF IsLink
    <2>3. fs' = [fs EXCEPT ![P] = Reg(ImageOf[match])] /\ UNCHANGED <<webms, match>> /\ pc' = "record"
      BY <1>6, <2>2 DEF NoErrorServed, FetchImage, Goto, tables, work
    <2>4. \A r \in webms : r.path # P
      <3>0. Reg(Cut).data = Cut
        BY DEF Reg
      <3>1. \A r \in webms : fs[r.path] # Reg(Cut)
        BY <1>r, <3>0
      <3> QED
        BY <2>1, <3>1
    <2>5. (RowsBacked /\ Sized /\ LinksToRows)'
      BY <1>a, <1>c, <2>1, <2>3, <2>4, WriteFile
    <2>6. FileInHand'
      BY <1>a, <2>1, <2>3 DEF FileInHand, PathOf
    <2> QED
      BY <2>5, <2>6 DEF FilesInv
  <1>e. ASSUME pc = "record"
        PROVE  /\ match \in Post /\ P \in Path /\ FileHash = {ImageOf[match]}
               /\ fs[P] = Reg(ImageOf[match])
    <2>1. match \in Post /\ P \in Path /\ fs[P] = Reg(ImageOf[match])
      BY <1>a, <1>c, <1>e DEF LocalsTyped, FileInHand
    <2>2. RealPath(P) = {P}
      BY <2>1, Kinds, PlainSink DEF IsLink, IsReg
    <2> QED
      BY <2>1, <2>2 DEF FileHash, Reg
  <1>7. CASE InsertWebm
    <2>1. P \in Path /\ fs[P] = Reg(ImageOf[match])
      BY <1>e, <1>7 DEF InsertWebm
    <2> DEFINE new == [hash |-> ImageOf[match], path |-> P, post |-> match]
    <2>2. webms' = webms \cup {new} /\ UNCHANGED fs /\ pc' = "pop"
      BY <1>7, <1>e DEF InsertWebm, AddWebm, NextPost, Goto
    <2>3. new.path = P /\ new.hash = ImageOf[match]
      OBVIOUS
    <2> HIDE DEF new
    <2>4. RowsBacked'
      BY <1>a, <2>1, <2>2, <2>3 DEF RowsBacked
    <2>5. Sized' /\ LinksToRows'
      BY <1>a, <2>2 DEF Sized, LinksToRows, IsReg, IsLink
    <2> QED
      BY <2>2, <2>4, <2>5 DEF FilesInv, FileInHand
  <1>8. CASE NotRecorded \/ FoundItself \/ RefuseLink
    <2>1. UNCHANGED <<fs, webms>> /\ pc' = "pop"
      BY <1>8 DEF NotRecorded, FoundItself, RefuseLink, NextPost, Goto, tables
    <2> QED
      BY <1>1, <2>1
  <1>9. CASE FoundOriginal
    <2>1. FileHash = {ImageOf[match]} /\ fs[P] = Reg(ImageOf[match])
      BY <1>e, <1>9 DEF FoundOriginal
    <2>2. old_webm'.hash = ImageOf[match]
      BY <1>9, <2>1 DEF FoundOriginal, RowsWithHash
    <2>3. UNCHANGED <<fs, webms, match>> /\ pc' = "alias"
      BY <1>9 DEF FoundOriginal, Goto, tables
    <2> QED
      BY <1>d, <2>1, <2>2, <2>3 DEF FilesInv, FileInHand, PathOf
  <1>10. CASE InsertAlias \/ KeepAliases
    <2>1. UNCHANGED <<fs, webms, match, old_webm>> /\ pc = "alias" /\ pc' = "link"
      BY <1>10 DEF InsertAlias, KeepAliases, Goto, tables, work
    <2> QED
      BY <1>a, <1>d, <2>1 DEF FilesInv, FileInHand, PathOf
  <1>11. CASE Unlink
    <2>1. pc = "link" /\ match \in Post /\ P \in Path /\ fs[P] = Reg(ImageOf[match])
      BY <1>a, <1>c, <1>11 DEF Unlink, LocalsTyped, FileInHand
    <2>2. old_webm \in webms /\ old_webm.path # P /\ old_webm.hash = ImageOf[match]
      BY <1>a, <2>1 DEF OldWebmElsewhere, FileInHand
    <2>3. RealPath(P) = {P} /\ RealPath(old_webm.path) = {old_webm.path}
      <3>1. IsReg(P) /\ ~IsLink(P) /\ IsReg(old_webm.path) /\ ~IsLink(old_webm.path)
        BY <1>r, <2>1, <2>2, Kinds DEF IsReg, IsLink
      <3> QED
        BY <1>b, <2>1, <2>2, <3>1, PlainSink
    <2>4. /\ fs' = [fs EXCEPT ![P] = Absent]
          /\ real_fpath' = P /\ real_old_fpath' = old_webm.path
          /\ UNCHANGED <<webms, match, old_webm>> /\ pc' = "symlink"
      BY <1>11, <2>3 DEF Unlink, Goto, tables
    <2>5. \A r \in webms : r.path # P
      <3>1. \A r \in webms : r.path = P => r.hash = old_webm.hash
        <4>1. \A r \in webms : fs[r.path].data = r.hash
          BY <1>r
        <4>2. fs[P].data = ImageOf[match]
          BY <2>1, Kinds
        <4> QED
          BY <2>2, <4>1, <4>2
      <3> QED
        BY <2>2, <3>1 DEF OneRowPerHash
    <2>6. (RowsBacked /\ Sized /\ LinksToRows)'
      BY <1>a, <2>1, <2>4, <2>5, WriteFile
    <2>7. FileInHand'
      BY <1>a, <2>1, <2>2, <2>4 DEF FileInHand, PathOf
    <2> QED
      BY <2>6, <2>7 DEF FilesInv
  <1>12. CASE Symlink
    <2>1. /\ match \in Post /\ P \in Path /\ fs[P] = Absent
          /\ real_fpath = P /\ real_old_fpath = old_webm.path
          /\ old_webm \in webms /\ old_webm.hash = ImageOf[match]
      BY <1>a, <1>c, <1>12 DEF Symlink, LocalsTyped, FileInHand, OldWebmElsewhere
    <2>2. UNCHANGED webms /\ pc' = "pop"
      BY <1>12 DEF Symlink, NextPost, Goto, tables
    <2>3. CASE UNCHANGED fs
      BY <1>1, <2>2, <2>3
    <2>4. CASE fs' = [fs EXCEPT ![P] = Link(old_webm.path)]
      <3>1. fs'[P] = Link(old_webm.path) /\ \A q \in Path : q # P => fs'[q] = fs[q]
        BY <1>a, <2>1, <2>4
      <3>2. \A r \in webms : r.path # P
        BY <1>b, <2>1, Kinds
      <3>3. RowsBacked'
        BY <1>b, <2>2, <3>1, <3>2 DEF RowsBacked
      <3>4. Sized'
        <4> SUFFICES ASSUME NEW q \in Path, fs'[q].kind = "reg", fs'[q].data # Cut
                     PROVE  fs'[q].data \in Image /\ SizeOf[fs'[q].data] = SizeIn[q[2]]
          BY DEF Sized, IsReg
        <4>1. q # P
          BY <3>1, Kinds
        <4> QED
          BY <1>a, <3>1, <4>1 DEF Sized, IsReg
      <3>5. LinksToRows'
        <4> SUFFICES ASSUME NEW q \in Path, fs'[q].kind = "link"
                     PROVE  \E r \in webms : fs'[q].to = r.path /\ SizeOf[r.hash] = SizeIn[q[2]]
          BY <2>2 DEF LinksToRows, IsLink
        <4>1. CASE q = P
          <5>1. fs'[q].to = old_webm.path
            BY <3>1, <4>1 DEF Link
          <5> QED
            BY <1>c, <2>1, <4>1, <5>1
        <4>2. CASE q # P
          BY <1>a, <3>1, <4>2 DEF LinksToRows, IsLink
        <4> QED
          BY <4>1, <4>2
      <3> QED
        BY <2>2, <3>3, <3>4, <3>5 DEF FilesInv, FileInHand
    <2> QED
      BY <1>12, <2>1, <2>3, <2>4 DEF Symlink
  <1>13. CASE Crash \/ Restart
    <2>1. UNCHANGED <<fs, webms>> /\ pc' \in {"down", "sleep"}
      BY <1>13 DEF Crash, Restart, Die, Goto, tables
    <2> QED
      BY <1>1, <2>1
  <1>14. CASE UNCHANGED vars
    BY <1>a, <1>d, <1>14 DEF vars, FilesInv, FileInHand, tables, work, links, PathOf
  <1> QED
    BY <1>2, <1>3, <1>4, <1>5, <1>6, <1>7, <1>8, <1>9, <1>10, <1>11, <1>12, <1>13, <1>14
    DEF Next, Scraper, Downloading, Recording

(* What add_image_to_db recorded stays on disk: FilesInv is inductive,     *)
(* where the site's errors bring no body of their own.                     *)
THEOREM OriginalsBacked ==
    ASSUME ErrorBody = {}
    PROVE  Spec => [](FilesInv /\ OneRowPerHash /\ OldWebmElsewhere)
PROOF
  <1>1. TypeOK /\ OneRowPerHash /\ OldWebmElsewhere /\ FilesInv /\ [Next]_vars => FilesInv'
    BY FilesStep DEF NoErrorServed
  <1> QED
    BY FilesInit, <1>1, Typing, AliasesOfOriginals, PTL DEF Spec

(* The file of every row of webms is there and has the hash of its row.    *)
COROLLARY RowsStayBacked ==
    ASSUME ErrorBody = {}
    PROVE  Spec => []RowsBacked
PROOF
  <1>1. FilesInv => RowsBacked
    BY DEF FilesInv
  <1> QED
    BY <1>1, OriginalsBacked, PTL

(***************************************************************************)
(* The scraper keeps the promise of Catalogue.  What a path shows is what  *)
(* its file holds, or what the original it links to holds.                 *)
(***************************************************************************)
FilesDescribed ==
    /\ fs \in [Path -> FileState]
    /\ webms \subseteq Row
    /\ RowsBacked
    /\ LinksToRows

ViewDescribed ==
    \A p \in Path :
        /\ IsReg(p) /\ fs[p].data # Cut => View[p] = {fs[p].data}
        /\ IsReg(p) /\ fs[p].data = Cut => View[p] = {}
        /\ ~IsReg(p) /\ ~IsLink(p) => View[p] = {}
        /\ IsLink(p) => \E r \in webms : fs[p].to = r.path /\ View[p] = {r.hash}

(* What somebody who follows links finds at a path, where the files are as *)
(* FilesInv says.                                                          *)
LEMMA ViewOfFiles == FilesDescribed => ViewDescribed
PROOF
  <1> SUFFICES ASSUME FilesDescribed, NEW p \in Path
               PROVE  /\ IsReg(p) /\ fs[p].data # Cut => View[p] = {fs[p].data}
                      /\ IsReg(p) /\ fs[p].data = Cut => View[p] = {}
                      /\ ~IsReg(p) /\ ~IsLink(p) => View[p] = {}
                      /\ IsLink(p) => \E r \in webms : fs[p].to = r.path /\ View[p] = {r.hash}
    BY DEF ViewDescribed
  <1>1. View[p] = {fs[q].data : q \in RealPath(p)} \ {Cut}
    BY DEF View
  <1>2. CASE IsReg(p)
    <2>1. RealPath(p) = {p} /\ ~IsLink(p)
      BY <1>2, PlainSink DEF IsReg, IsLink
    <2> QED
      BY <1>1, <1>2, <2>1
  <1>3. CASE ~IsReg(p) /\ ~IsLink(p)
    <2>1. RealPath(p) = {}
      BY <1>3, PlainSink DEF RealPath
    <2> QED
      BY <1>1, <1>3, <2>1
  <1>4. CASE IsLink(p)
    <2>1. PICK r \in webms : fs[p].to = r.path
      BY <1>4 DEF FilesDescribed, LinksToRows
    <2>2. r.path \in Path /\ r.hash \in Content /\ fs[r.path] = Reg(r.hash)
      BY DEF FilesDescribed, RowsBacked, Row
    <2>3. IsReg(r.path) /\ ~IsLink(r.path) /\ fs[r.path].data = r.hash /\ r.hash # Cut
      BY <2>2, Kinds DEF IsReg, IsLink
    <2>4. r.path \in Sink(p)
      BY <1>4, <2>1, <2>2, <2>3, OneLinkSink
    <2>5. \A q \in Sink(p) : q = r.path
      <3>1. {p} \in SUBSET Links /\ ClosedUnderLinks({p})
        BY <1>4, <2>1, <2>3 DEF Links, ClosedUnderLinks
      <3>2. \A q : LeadsTo(p, q) => \E l \in {p} : fs[l].to = q
        BY <3>1 DEF LeadsTo
      <3> QED
        BY <1>4, <2>1, <3>2 DEF Sink
    <2>6. RealPath(p) = {r.path}
      BY <2>3, <2>4, <2>5 DEF RealPath
    <2>7. View[p] = {r.hash}
      BY <1>1, <2>3, <2>6
    <2> QED
      BY <1>4, <2>1, <2>7 DEF IsLink, IsReg
  <1> QED
    BY <1>2, <1>3, <1>4

(* The same of the next state.                                             *)
LEMMA ViewOfFilesNext == FilesDescribed' => ViewDescribed'
PROOF BY ViewOfFiles, PTL

(* Changing one path, to or from anything, changes nothing elsewhere.      *)
LEMMA ViewElsewhere ==
    ASSUME FilesDescribed, FilesDescribed', UNCHANGED webms,
           NEW p \in Path, NEW f, fs' = [fs EXCEPT ![p] = f],
           NEW q \in Path, q # p
    PROVE  View'[q] = View[q]
PROOF
  <1>1. fs'[q] = fs[q] /\ (IsReg(q))' = IsReg(q) /\ (IsLink(q))' = IsLink(q)
    BY DEF FilesDescribed, IsReg, IsLink
  <1>2. ViewDescribed /\ ViewDescribed'
    BY ViewOfFiles, ViewOfFilesNext
  <1>3. CASE IsLink(q)
    <2>1. PICK r \in webms : fs[q].to = r.path /\ View[q] = {r.hash}
      BY <1>2, <1>3 DEF ViewDescribed
    <2>2. PICK s \in webms : fs[q].to = s.path /\ View'[q] = {s.hash}
      <3>1. fs'[q].kind = "link" /\ fs'[q].to = fs[q].to
        BY <1>1, <1>3 DEF IsLink
      <3>2. \E s \in webms' : fs'[q].to = s.path /\ View'[q] = {s.hash}
        BY <1>2, <3>1 DEF ViewDescribed, IsLink
      <3> QED
        BY <3>1, <3>2
    <2>3. Reg(r.hash) = Reg(s.hash)
      BY <2>1, <2>2 DEF FilesDescribed, RowsBacked
    <2>4. r.hash = s.hash
      BY <2>3, Kinds
    <2> QED
      BY <2>1, <2>2, <2>4
  <1>4. CASE ~IsLink(q)
    BY <1>1, <1>2, <1>4 DEF ViewDescribed
  <1> QED
    BY <1>3, <1>4

(* The scraper keeps the promise of Catalogue: an original's place keeps   *)
(* its content, and a repost's place shows the content of an original.     *)
THEOREM ArchiveKeepsCatalogue ==
    ASSUME ErrorBody = {}
    PROVE  Spec => KeepsCatalogue
PROOF
  <1> DEFINE Inv == TypeOK /\ FilesInv /\ OneRowPerHash /\ OldWebmElsewhere
  <1>a. Content = Image
    BY DEF Content
  <1>1. Init => Kept!Init
    <2> SUFFICES ASSUME Init PROVE Kept!Init
      OBVIOUS
    <2>1. \A p \in Path : ~IsReg(p) /\ ~IsLink(p)
      BY Kinds DEF Init, IsReg, IsLink
    <2>2. \A p \in Path : View[p] = {}
      BY <2>1, PlainSink DEF View, RealPath
    <2>3. View = [p \in Path |-> {}]
      BY <2>2 DEF View
    <2> QED
      BY <2>3 DEF Init, Kept!Init, Described
  <1>2. Inv /\ Inv' /\ [Next]_vars => [Kept!Next]_(Kept!cvars)
    <2> SUFFICES ASSUME Inv, Inv', [Next]_vars PROVE [Kept!Next]_(Kept!cvars)
      OBVIOUS
    <2>a. FilesDescribed /\ FilesDescribed' /\ ViewDescribed /\ ViewDescribed'
      <3>1. FilesDescribed /\ FilesDescribed'
        BY DEF FilesDescribed, FilesInv, TypeOK, DurableTyped
      <3> QED
        BY <3>1, ViewOfFiles, ViewOfFilesNext
    <2>b. /\ fs \in [Path -> FileState] /\ webms \subseteq Row /\ aliases \subseteq Row
          /\ LocalsTyped /\ FileInHand /\ RowsBacked
      BY DEF FilesInv, TypeOK, DurableTyped
    <2> DEFINE P == PathOf(match)
    <2>c. ASSUME match \in Post PROVE P \in Path /\ ImageOf[match] \in Image
      BY <2>c, PathOfPost
    <2>1. ASSUME UNCHANGED <<fs, webms, aliases>> PROVE UNCHANGED Kept!cvars
      <3>1. UNCHANGED View
        BY <2>1 DEF View, RealPath, Sink, IsLink, IsReg, Links, LeadsTo, ClosedUnderLinks
      <3> QED
        BY <2>1, <3>1 DEF Kept!cvars, Described
    <2>2. ASSUME NEW p \in Path, NEW f, fs' = [fs EXCEPT ![p] = f], UNCHANGED <<webms, aliases>>,
                 NEW s, View'[p] = s
          PROVE  View' = [View EXCEPT ![p] = s] /\ UNCHANGED <<Described(webms), Described(aliases)>>
      <3>1. \A q \in Path : q # p => View'[q] = View[q]
        BY <2>a, <2>2, ViewElsewhere
      <3>2. View = [q \in Path |-> View[q]] /\ View' = [q \in Path |-> View'[q]]
        BY DEF View
      <3>3. [View EXCEPT ![p] = s] = [q \in Path |-> IF q = p THEN s ELSE View[q]]
        BY <3>2
      <3> QED
        BY <2>2, <3>1, <3>2, <3>3 DEF Described
    <2>3. ASSUME NEW t \in Thread, NewPost(t) PROVE UNCHANGED Kept!cvars
      BY <2>1, <2>3 DEF NewPost, tables
    <2>4. CASE Indexing
      BY <2>1, <2>4 DEF Indexing, StartCycle, ReadCatalog, ReadThread, IndexPost, IndexDone, tables
    <2>5. CASE PopMatch \/ CycleDone \/ SaveThread \/ InsertPost \/ SkipDownload \/ ThumbFails \/ FetchFails
      BY <2>1, <2>5 DEF PopMatch, CycleDone, SaveThread, InsertPost, SkipDownload, ThumbFails, FetchFails, tables
    <2>6. CASE OpenImage
      <3>1. P \in Path /\ fs[P] \in {Absent, Reg(Cut)} /\ Sink(P) = {P}
        BY <2>6, <2>b, DownloadsIntoPlace DEF OpenImage, FilesInv
      <3>2. fs' = [fs EXCEPT ![P] = Reg(Cut)] /\ UNCHANGED <<webms, aliases>>
        BY <2>6, <3>1 DEF OpenImage, tables
      <3>3. fs'[P].kind = "reg" /\ fs'[P].data = Cut
        BY <2>b, <3>1, <3>2, Kinds
      <3>4. View'[P] = {}
        BY <2>a, <3>1, <3>3 DEF ViewDescribed, IsReg
      <3>5. View[P] = {}
        <4>1. Absent.kind = "absent" /\ Reg(Cut).kind = "reg" /\ Reg(Cut).data = Cut
          BY Kinds
        <4>2. CASE fs[P] = Absent
          BY <2>a, <3>1, <4>1, <4>2 DEF ViewDescribed, IsReg, IsLink
        <4>3. CASE fs[P] = Reg(Cut)
          BY <2>a, <3>1, <4>1, <4>3 DEF ViewDescribed, IsReg
        <4> QED
          BY <3>1, <4>2, <4>3
      <3>6. View' = [View EXCEPT ![P] = {}] /\ UNCHANGED <<Described(webms), Described(aliases)>>
        BY <2>2, <3>1, <3>2, <3>4
      <3>7. View' = View
        BY <3>5, <3>6 DEF View
      <3> QED
        BY <3>6, <3>7 DEF Kept!cvars
    <2>7. CASE FetchImage
      <3>1. match \in Post /\ P \in Path /\ ImageOf[match] \in Image /\ fs[P] = Reg(Cut)
        BY <2>b, <2>c, <2>7 DEF FetchImage, LocalsTyped, FileInHand
      <3>2. ~IsLink(P) /\ IsReg(P) /\ fs[P].data = Cut
        BY <3>1, Kinds DEF IsLink, IsReg
      <3>3. fs' = [fs EXCEPT ![P] = Reg(ImageOf[match])] /\ UNCHANGED <<webms, aliases>>
        BY <2>7, <3>1, <3>2, PlainSink DEF FetchImage, tables
      <3>4. fs'[P].kind = "reg" /\ fs'[P].data = ImageOf[match] /\ ImageOf[match] # Cut
        BY <1>a, <2>b, <3>1, <3>3, Kinds
      <3>5. View[P] = {} /\ View'[P] = {ImageOf[match]}
        BY <2>a, <3>1, <3>2, <3>4 DEF ViewDescribed, IsReg
      <3>6. Kept!Receive(P, ImageOf[match])
        BY <2>2, <3>1, <3>3, <3>5 DEF Kept!Receive
      <3> QED
        BY <3>1, <3>6 DEF Kept!Next
    <2>d. ASSUME pc \in {"record", "alias", "link"}
          PROVE  /\ match \in Post /\ P \in Path /\ ImageOf[match] \in Image
                 /\ View[P] = {ImageOf[match]} /\ FileHash = {ImageOf[match]}
      <3>1. match \in Post /\ P \in Path /\ ImageOf[match] \in Image /\ fs[P] = Reg(ImageOf[match])
        BY <2>b, <2>c, <2>d DEF LocalsTyped, FileInHand
      <3>2. IsReg(P) /\ ~IsLink(P) /\ fs[P].data = ImageOf[match] /\ ImageOf[match] # Cut
        BY <1>a, <3>1, Kinds DEF IsReg, IsLink
      <3> QED
        BY <2>a, <3>1, <3>2, PlainSink DEF ViewDescribed, FileHash
    <2>8. CASE InsertWebm
      <3>1. P \in Path /\ ImageOf[match] \in Image /\ View[P] = {ImageOf[match]}
        BY <2>d, <2>8 DEF InsertWebm
      <3> DEFINE new == [hash |-> ImageOf[match], path |-> P, post |-> match]
      <3>2. webms' = webms \cup {new} /\ UNCHANGED <<fs, aliases>> /\ RowsWithHash(ImageOf[match]) = {}
        BY <2>d, <2>8 DEF InsertWebm, AddWebm
      <3>3. new.hash = ImageOf[match] /\ new.path = P
        OBVIOUS
      <3> HIDE DEF new
      <3>4. Described(webms)' = Described(webms) \cup {<<ImageOf[match], P>>}
        BY <3>2, <3>3 DEF Described
      <3>5. ~Kept!HasOriginal(ImageOf[match])
        <4>1. \A r \in webms : <<r.hash, r.path>>[1] # ImageOf[match]
          BY <3>2 DEF RowsWithHash
        <4> QED
          BY <4>1 DEF Kept!HasOriginal, Described
      <3>6. UNCHANGED <<View, Described(aliases)>>
        BY <3>2 DEF View, RealPath, Sink, IsLink, IsReg, Links, LeadsTo, ClosedUnderLinks, Described
      <3>7. Kept!Adopt(P, ImageOf[match])
        BY <3>1, <3>4, <3>5, <3>6 DEF Kept!Adopt
      <3> QED
        BY <3>1, <3>7 DEF Kept!Next
    <2>9. CASE NotRecorded \/ FoundItself \/ FoundOriginal \/ KeepAliases \/ RefuseLink
      BY <2>1, <2>9 DEF NotRecorded, FoundItself, FoundOriginal, KeepAliases, RefuseLink, tables
    <2>10. CASE InsertAlias
      <3>1. P \in Path /\ ImageOf[match] \in Image /\ View[P] = {ImageOf[match]}
        BY <2>d, <2>10 DEF InsertAlias
      <3>2. old_webm \in webms /\ old_webm.hash = ImageOf[match] /\ old_webm.path # P
        BY <2>b, <2>10 DEF InsertAlias, FileInHand, OldWebmElsewhere
      <3> DEFINE new == [hash |-> ImageOf[match], path |-> P, post |-> match]
      <3>3. aliases' = aliases \cup {new} /\ UNCHANGED <<fs, webms>>
        BY <2>10, <3>2 DEF InsertAlias, AddAlias
      <3>4. new.hash = ImageOf[match] /\ new.path = P
        OBVIOUS
      <3> HIDE DEF new
      <3>5. Described(aliases)' = Described(aliases) \cup {<<ImageOf[match], P>>}
        BY <3>3, <3>4 DEF Described
      <3>6. Kept!HasOriginal(ImageOf[match])
        <4>1. <<old_webm.hash, old_webm.path>> \in Described(webms)
          BY <3>2 DEF Described
        <4> QED
          BY <3>2, <4>1 DEF Kept!HasOriginal
      <3>7. <<ImageOf[match], P>> \notin Described(webms)
        <4> SUFFICES ASSUME NEW r \in webms, r.hash = ImageOf[match], r.path = P PROVE FALSE
          BY DEF Described
        <4> QED
          BY <3>2 DEF OneRowPerHash
      <3>8. UNCHANGED <<View, Described(webms)>>
        BY <3>3 DEF View, RealPath, Sink, IsLink, IsReg, Links, LeadsTo, ClosedUnderLinks, Described
      <3>9. Kept!Repost(P, ImageOf[match])
        BY <3>1, <3>5, <3>6, <3>7, <3>8 DEF Kept!Repost
      <3> QED
        BY <3>1, <3>9 DEF Kept!Next
    <2>11. CASE Unlink
      <3>1. P \in Path /\ View[P] = {ImageOf[match]} /\ match \in Post
        BY <2>d, <2>11 DEF Unlink
      <3>2. pc' = "symlink" /\ UNCHANGED <<webms, aliases, match>>
        BY <2>11 DEF Unlink, Goto, tables
      <3>3. PICK new \in RealPath(P) : fs' = [fs EXCEPT ![new] = Absent]
        BY <2>11 DEF Unlink
      <3>4. fs[P] = Reg(ImageOf[match])
        BY <2>b, <2>11 DEF Unlink, FileInHand
      <3>5. new = P
        <4>1. IsReg(P) /\ ~IsLink(P)
          BY <3>4, Kinds DEF IsReg, IsLink
        <4> QED
          BY <3>1, <3>3, <4>1, PlainSink
      <3>6. fs'[P].kind = "absent"
        BY <2>b, <3>1, <3>3, <3>5, Kinds
      <3>7. View'[P] = {}
        BY <2>a, <3>1, <3>6 DEF ViewDescribed, IsReg, IsLink
      <3>8. ~Kept!IsOriginal(P)
        <4> SUFFICES ASSUME NEW r \in webms, r.path = P PROVE FALSE
          BY DEF Kept!IsOriginal, Described
        <4>1. fs'[r.path] = Reg(r.hash)
          BY <3>2 DEF FilesInv, RowsBacked
        <4> QED
          BY <3>6, <4>1, Kinds
      <3>9. Kept!Lose(P)
        BY <2>2, <3>1, <3>2, <3>3, <3>5, <3>7, <3>8 DEF Kept!Lose
      <3> QED
        BY <3>1, <3>9 DEF Kept!Next
    <2>12. CASE Symlink
      <3>1. match \in Post /\ P \in Path /\ fs[P] = Absent /\ real_fpath = P
        BY <2>b, <2>c, <2>12 DEF Symlink, LocalsTyped, FileInHand
      <3>2. UNCHANGED <<webms, aliases>>
        BY <2>12 DEF Symlink, tables
      <3>3. CASE UNCHANGED fs
        BY <2>1, <3>2, <3>3
      <3>4. CASE fs' = [fs EXCEPT ![P] = Link(real_old_fpath)]
        <4>1. fs'[P].kind = "link"
          BY <2>b, <3>1, <3>4, Kinds
        <4>2. PICK r \in webms : View'[P] = {r.hash}
          BY <2>a, <3>1, <3>2, <4>1 DEF ViewDescribed, IsLink
        <4>3. View[P] = {}
          BY <2>a, <3>1, Kinds DEF ViewDescribed, IsReg, IsLink
        <4>4. r.hash \in Image
          BY <1>a, <2>b, <4>2 DEF Row
        <4>5. Kept!Receive(P, r.hash)
          BY <2>2, <3>1, <3>2, <3>4, <4>2, <4>3 DEF Kept!Receive
        <4> QED
          BY <3>1, <4>4, <4>5 DEF Kept!Next
      <3> QED
        BY <2>12, <3>1, <3>3, <3>4 DEF Symlink
    <2>13. CASE Crash \/ Restart
      BY <2>1, <2>13 DEF Crash, Restart, tables
    <2>14. CASE UNCHANGED vars
      BY <2>1, <2>14 DEF vars, tables
    <2> QED
      BY <2>3, <2>4, <2>5, <2>6, <2>7, <2>8, <2>9, <2>10, <2>11, <2>12, <2>13, <2>14
      DEF Next, Scraper, Downloading, Recording
  <1> QED
    BY <1>1, <1>2, Typing, OriginalsBacked, PTL DEF Spec, KeepsCatalogue, Kept!Spec

(***************************************************************************)
(* What download_images makes of its work, one post after the other: the   *)
(* order of the work, what a reader finds at the path of a post once it is *)
(* done, and what a failure in between leaves.  Files is the invariant     *)
(* above, with the types.                                                  *)
(***************************************************************************)
Files == TypeOK /\ FilesInv /\ OneRowPerHash /\ OldWebmElsewhere

(* Where the site has no error bodies to serve, that is every step.        *)
LEMMA FilesInvariant ==
    ASSUME ErrorBody = {}
    PROVE  Spec => []Files
PROOF
  <1>1. TypeOK /\ (FilesInv /\ OneRowPerHash /\ OldWebmElsewhere) => Files
    BY DEF Files
  <1> QED
    BY <1>1, Typing, OriginalsBacked, PTL

(* What a path shows, told from what is there and from the rows.           *)
LEMMA ViewTold ==
    ASSUME Files
    PROVE  FilesDescribed /\ ViewDescribed
PROOF
  <1>1. FilesDescribed
    BY DEF Files, FilesInv, TypeOK, DurableTyped, FilesDescribed
  <1> QED
    BY <1>1, ViewOfFiles

(* What is on disk by name and size is what is shown at the path.          *)
LEMMA OnDiskIsShown ==
    ASSUME Files, NEW p \in Post
    PROVE  AlreadyOnDisk(p) <=> View[PathOf(p)] # {}
PROOF
  <1> DEFINE P == PathOf(p)
  <1>1. P \in Path /\ SizeIn[P[2]] = SizeIn[NameOf[p]] /\ SizeIn[NameOf[p]] > 0 /\ SizeIn[NameOf[p]] \in Nat
    BY PathOfPost
  <1>2. FilesDescribed /\ ViewDescribed /\ Sized /\ LinksToRows /\ RowsBacked /\ webms \subseteq Row
    BY ViewTold DEF Files, FilesInv, TypeOK, DurableTyped
  <1>3. View[P] = {fs[q].data : q \in RealPath(P)} \ {Cut}
    BY <1>1 DEF View
  <1> HIDE DEF P
  <1>4. ASSUME NEW q \in RealPath(P), DataSize(fs[q].data) = SizeIn[NameOf[p]]
        PROVE  View[P] # {}
    <2>1. fs[q].data # Cut
      BY <1>1, <1>4 DEF DataSize
    <2> QED
      BY <1>3, <2>1
  <1>5. ASSUME NEW q \in RealPath(P), fs[q].data # Cut
        PROVE  SizeOf[fs[q].data] = SizeIn[P[2]]
    <2>1. fs[q].data \in View[P]
      BY <1>3, <1>5
    <2>2. CASE IsReg(P)
      <3>1. RealPath(P) = {P}
        BY <1>1, <2>2, PlainSink DEF IsReg, IsLink
      <3> QED
        BY <1>1, <1>2, <1>5, <2>2, <3>1 DEF Sized
    <2>3. CASE IsLink(P)
      <3>1. PICK r \in webms : fs[P].to = r.path /\ View[P] = {r.hash}
        BY <1>1, <1>2, <2>3 DEF ViewDescribed
      <3>2. PICK s \in webms : fs[P].to = s.path /\ SizeOf[s.hash] = SizeIn[P[2]]
        BY <1>1, <1>2, <2>3 DEF LinksToRows
      <3>3. fs[r.path] = Reg(r.hash) /\ fs[s.path] = Reg(s.hash)
        BY <1>2 DEF RowsBacked
      <3>4. Reg(r.hash).data = r.hash /\ Reg(s.hash).data = s.hash
        BY Kinds
      <3>5. r.hash = s.hash
        BY <3>1, <3>2, <3>3, <3>4
      <3> QED
        BY <2>1, <3>1, <3>2, <3>5
    <2> QED
      BY <1>1, <1>2, <2>1, <2>2, <2>3 DEF ViewDescribed
  <1>6. ASSUME View[P] # {} PROVE \E q \in RealPath(P) : DataSize(fs[q].data) = SizeIn[NameOf[p]]
    <2>1. PICK q \in RealPath(P) : fs[q].data # Cut
      BY <1>3, <1>6
    <2> QED
      BY <1>1, <1>5, <2>1 DEF DataSize
  <1> QED
    BY <1>4, <1>6 DEF AlreadyOnDisk, HasSize, P

(* What is shown at the path of the post in hand.                          *)
LEMMA ViewInHand ==
    ASSUME Files
    PROVE  /\ pc \in {"fetch", "symlink"} => View[PathOf(match)] = {}
           /\ pc \in {"record", "alias", "link"} =>
                  View[PathOf(match)] = {ImageOf[match]} /\ FileHash = {ImageOf[match]}
PROOF
  <1>1. ViewDescribed /\ LocalsTyped /\ FileInHand /\ Image \subseteq Content
    BY ViewTold DEF Files, FilesInv, TypeOK, Content
  <1>2. ASSUME pc \in {"fetch", "record", "alias", "link", "symlink"}
        PROVE  PathOf(match) \in Path /\ ImageOf[match] \in Image
    BY <1>1, <1>2, PathOfPost DEF LocalsTyped
  <1>3. CASE pc \in {"fetch", "symlink"}
    <2>1. fs[PathOf(match)] \in {Absent, Reg(Cut)}
      BY <1>1, <1>3 DEF FileInHand
    <2>2. CASE fs[PathOf(match)] = Absent
      BY <1>1, <1>2, <1>3, <2>2, Kinds DEF ViewDescribed, IsReg, IsLink
    <2>3. CASE fs[PathOf(match)] = Reg(Cut)
      <3>1. IsReg(PathOf(match)) /\ fs[PathOf(match)].data = Cut
        BY <2>3, Kinds DEF IsReg
      <3> QED
        BY <1>1, <1>2, <1>3, <3>1 DEF ViewDescribed
    <2> QED
      BY <1>3, <2>1, <2>2, <2>3
  <1>4. CASE pc \in {"record", "alias", "link"}
    <2>1. fs[PathOf(match)] = Reg(ImageOf[match])
      BY <1>1, <1>4 DEF FileInHand
    <2>2. /\ IsReg(PathOf(match)) /\ ~IsLink(PathOf(match))
          /\ fs[PathOf(match)].data = ImageOf[match] /\ ImageOf[match] # Cut
      BY <1>1, <1>2, <1>4, <2>1, Kinds DEF IsReg, IsLink
    <2> QED
      BY <1>1, <1>2, <1>4, <2>2, PlainSink DEF ViewDescribed, FileHash
  <1> QED
    BY <1>3, <1>4
InHandShown ==
    /\ pc \in {"fetch", "symlink"} => View[PathOf(match)] = {}
    /\ pc \in {"record", "alias", "link"} => View[PathOf(match)] = {ImageOf[match]}

(* The same of the path of the post in hand, after a step.                 *)
LEMMA ViewInHandNext == Files' => InHandShown'
PROOF
  <1>1. Files => InHandShown
    BY ViewInHand DEF InHandShown
  <1> QED
    BY <1>1, PTL

(* What a path shows after a step, told in the same way.                   *)
LEMMA ViewToldNext == Files' => FilesDescribed' /\ ViewDescribed'
PROOF
  <1>1. Files => FilesDescribed /\ ViewDescribed
    BY ViewTold
  <1> QED
    BY <1>1, PTL

(* An error body is served by a fault only.                                *)
LEMMA NoFaultNoError == ~Fault => NoErrorServed
PROOF BY DEF NoErrorServed

(* A step changes what is shown at the path of the post in hand only: it   *)
(* is shown once it is downloaded, away while the copy makes place for a   *)
(* link, and shown again through the link.                                 *)
LEMMA ViewMoves ==
    ASSUME Files, Files', [Next]_vars, NoErrorServed
    PROVE  \/ UNCHANGED View /\ (Symlink => Fault)
           \/ /\ match \in Post
              /\ \A q \in Path : q # PathOf(match) => View'[q] = View[q]
              /\ \/ FetchImage /\ View'[PathOf(match)] = {ImageOf[match]}
                 \/ Unlink /\ View'[PathOf(match)] = {}
                 \/ Symlink /\ View'[PathOf(match)] = {ImageOf[match]}
PROOF
  <1> DEFINE P == PathOf(match)
  <1>1. /\ FilesDescribed /\ FilesDescribed' /\ ViewDescribed /\ ViewDescribed'
        /\ InHandShown /\ InHandShown'
    BY ViewTold, ViewToldNext, ViewInHand, ViewInHandNext DEF InHandShown
  <1>2. /\ fs \in [Path -> FileState] /\ LocalsTyped /\ FileInHand
        /\ RowsBacked /\ Sized /\ LinksToRows /\ TypeOK
    BY DEF Files, FilesInv, TypeOK, DurableTyped
  <1>3. ASSUME UNCHANGED fs PROVE UNCHANGED View
    BY <1>3 DEF View, RealPath, Sink, IsLink, IsReg, Links, LeadsTo, ClosedUnderLinks
  <1>4. ASSUME UNCHANGED webms, match \in Post, NEW f, fs' = [fs EXCEPT ![P] = f]
        PROVE  \A q \in Path : q # P => View'[q] = View[q]
    BY <1>1, <1>4, PathOfPost, ViewElsewhere
  <1>5. CASE OpenImage
    <2>1. match \in Post /\ P \in Path /\ fs[P] \in {Absent, Reg(Cut)} /\ Sink(P) = {P}
      BY <1>2, <1>5, DownloadsIntoPlace DEF OpenImage
    <2>2. fs' = [fs EXCEPT ![P] = Reg(Cut)] /\ UNCHANGED <<webms, match>> /\ pc' = "fetch"
      BY <1>5, <2>1 DEF OpenImage, Goto, tables, work
    <2>3. View'[P] = {}
      BY <1>1, <2>2 DEF InHandShown, PathOf
    <2>4. View[P] = {}
      <3>1. Absent.kind = "absent" /\ Reg(Cut).kind = "reg" /\ Reg(Cut).data = Cut
        BY Kinds
      <3>2. CASE fs[P] = Absent
        BY <1>1, <2>1, <3>1, <3>2 DEF ViewDescribed, IsReg, IsLink
      <3>3. CASE fs[P] = Reg(Cut)
        BY <1>1, <2>1, <3>1, <3>3 DEF ViewDescribed, IsReg
      <3> QED
        BY <2>1, <3>2, <3>3
    <2>5. \A q \in Path : View'[q] = View[q]
      BY <1>4, <2>1, <2>2, <2>3, <2>4
    <2>6. UNCHANGED View
      BY <2>5 DEF View
    <2> QED
      BY <1>5, <2>6 DEF OpenImage, WillDownload, Symlink
  <1>6. CASE FetchImage
    <2>1. match \in Post /\ P \in Path /\ fs[P] = Reg(Cut)
      BY <1>2, <1>6, PathOfPost DEF FetchImage, LocalsTyped, FileInHand
    <2>2. Sink(P) = {P}
      BY <2>1, Kinds, PlainSink DEF IsLink
    <2>3. fs' = [fs EXCEPT ![P] = Reg(ImageOf[match])] /\ UNCHANGED <<webms, match>> /\ pc' = "record"
      BY <1>6, <2>2 DEF NoErrorServed, FetchImage, Goto, tables, work
    <2>4. View'[P] = {ImageOf[match]}
      BY <1>1, <2>3 DEF InHandShown, PathOf
    <2>5. \A q \in Path : q # P => View'[q] = View[q]
      BY <1>4, <2>1, <2>3
    <2> QED
      BY <1>6, <2>1, <2>4, <2>5
  <1>7. CASE Unlink
    <2>1. match \in Post /\ P \in Path /\ fs[P] = Reg(ImageOf[match])
      BY <1>2, <1>7, PathOfPost DEF Unlink, LocalsTyped, FileInHand
    <2>2. RealPath(P) = {P}
      BY <2>1, Kinds, PlainSink DEF IsLink, IsReg
    <2>3. fs' = [fs EXCEPT ![P] = Absent] /\ UNCHANGED <<webms, match>> /\ pc' = "symlink"
      BY <1>7, <2>2 DEF Unlink, Goto, tables
    <2>4. View'[P] = {}
      BY <1>1, <2>3 DEF InHandShown, PathOf
    <2>5. \A q \in Path : q # P => View'[q] = View[q]
      BY <1>4, <2>1, <2>3
    <2> QED
      BY <1>7, <2>1, <2>4, <2>5
  <1>8. CASE Symlink
    <2>1. /\ match \in Post /\ P \in Path /\ real_fpath = P /\ UNCHANGED webms
          /\ real_old_fpath = old_webm.path /\ old_webm \in webms /\ old_webm.hash = ImageOf[match]
      BY <1>2, <1>8, PathOfPost DEF Symlink, LocalsTyped, FileInHand, tables, Files, OldWebmElsewhere
    <2>2. CASE Fault /\ UNCHANGED fs
      BY <1>3, <2>2
    <2>3. CASE fs' = [fs EXCEPT ![P] = Link(old_webm.path)]
      <3>1. fs'[P] = Link(old_webm.path)
        BY <1>2, <2>1, <2>3
      <3>2. fs'[P].kind = "link" /\ fs'[P].to = old_webm.path
        BY <3>1 DEF Link
      <3>3. PICK r \in webms : old_webm.path = r.path /\ View'[P] = {r.hash}
        <4>1. \E r \in webms' : fs'[P].to = r.path /\ View'[P] = {r.hash}
          BY <1>1, <2>1, <3>2 DEF ViewDescribed, IsLink
        <4> QED
          BY <2>1, <3>2, <4>1
      <3>4. fs[r.path] = Reg(r.hash) /\ fs[old_webm.path] = Reg(old_webm.hash)
        BY <1>2, <2>1 DEF RowsBacked
      <3>5. r.hash = ImageOf[match]
        <4>1. Reg(r.hash).data = r.hash /\ Reg(old_webm.hash).data = old_webm.hash
          BY Kinds
        <4> QED
          BY <2>1, <3>3, <3>4, <4>1
      <3>6. \A q \in Path : q # P => View'[q] = View[q]
        BY <1>4, <2>1, <2>3
      <3> QED
        BY <1>8, <2>1, <3>3, <3>5, <3>6
    <2> QED
      BY <1>8, <2>1, <2>2, <2>3 DEF Symlink
  <1>9. CASE ~OpenImage /\ ~FetchImage /\ ~Unlink /\ ~Symlink
    <2>1. UNCHANGED fs
      BY <1>9 DEF Next, NewPost, Scraper, Indexing, Downloading, Recording, StartCycle, ReadCatalog, ReadThread,
          IndexPost, IndexDone, PopMatch, CycleDone, SaveThread, InsertPost, SkipDownload, ThumbFails, FetchFails,
          InsertWebm, NotRecorded, FoundItself, FoundOriginal, InsertAlias, KeepAliases, RefuseLink, Crash,
          Restart, vars
    <2> QED
      BY <1>3, <1>9, <2>1
  <1> QED
    BY <1>5, <1>6, <1>7, <1>8, <1>9
(***************************************************************************)
(* A webm taken for one that is there already is the one that is there,    *)
(* where no board has two webms of one name and size: what a path shows    *)
(* has been posted under that path.                                        *)
(***************************************************************************)
NoNamesakes == \A p, q \in WebmPost : PathOf(p) = PathOf(q) => ImageOf[p] = ImageOf[q]

Downloaded == {"fetch", "record", "alias", "link", "symlink"}

HandIsWebm == pc \in Downloaded => match \in WebmPost

ShownIsPosted ==
    \A f \in Path : \A h \in View[f] : \E q \in WebmPost : PathOf(q) = f /\ ImageOf[q] = h

(* From its download to the end of its iteration a post stays in hand.     *)
LEMMA HandStays ==
    ASSUME [Next]_vars, pc' \in Downloaded
    PROVE  UNCHANGED match /\ (pc \in Downloaded \/ OpenImage)
PROOF
  <1>1. CASE Indexing \/ PopMatch \/ CycleDone \/ SaveThread \/ InsertPost \/ Crash \/ Restart
    BY <1>1 DEF Indexing, StartCycle, ReadCatalog, ReadThread, IndexPost, IndexDone, PopMatch, CycleDone,
        SaveThread, InsertPost, Crash, Restart, Goto, Die, Downloaded
  <1>2. CASE SkipDownload \/ ThumbFails \/ FetchFails \/ InsertWebm \/ NotRecorded \/ FoundItself \/ RefuseLink \/ Symlink
    BY <1>2 DEF SkipDownload, ThumbFails, FetchFails, InsertWebm, NotRecorded, FoundItself, RefuseLink, Symlink,
        CloseTwice, Die, NextPost, Goto, Downloaded
  <1>3. CASE OpenImage \/ FetchImage \/ FoundOriginal \/ InsertAlias \/ KeepAliases \/ Unlink
    BY <1>3 DEF OpenImage, FetchImage, FoundOriginal, InsertAlias, KeepAliases, Unlink, Goto, Downloaded, work
  <1>4. CASE (\E t \in Thread : NewPost(t)) \/ UNCHANGED vars
    BY <1>4 DEF NewPost, vars, work
  <1> QED
    BY <1>1, <1>2, <1>3, <1>4 DEF Next, Scraper, Downloading, Recording

(* "We already have that file": it is the file that was posted.            *)
THEOREM OnDiskIsPosted ==
    ASSUME ErrorBody = {}, NoNamesakes
    PROVE  Spec => []OnDiskIsTheFile
PROOF
  <1> DEFINE Inv == ShownIsPosted /\ HandIsWebm
  <1>1. Init /\ Files => Inv
    <2> SUFFICES ASSUME Init, Files PROVE Inv
      OBVIOUS
    <2>1. \A f \in Path : ~IsReg(f) /\ ~IsLink(f)
      BY Kinds DEF Init, IsReg, IsLink
    <2>2. \A f \in Path : View[f] = {}
      BY <2>1, ViewTold DEF ViewDescribed
    <2> QED
      BY <2>2 DEF Init, ShownIsPosted, HandIsWebm, Downloaded
  <1>2. Files /\ Files' /\ Inv /\ [Next]_vars => Inv'
    <2> SUFFICES ASSUME Files, Files', Inv, [Next]_vars PROVE Inv'
      OBVIOUS
    <2>1. HandIsWebm'
      BY HandStays DEF HandIsWebm, OpenImage, WillDownload
    <2>2. ShownIsPosted'
      <3> SUFFICES ASSUME NEW f \in Path, NEW h \in View'[f]
                   PROVE  \E q \in WebmPost : PathOf(q) = f /\ ImageOf[q] = h
        BY DEF ShownIsPosted, PathOf
      <3>1. CASE h \in View[f]
        BY <3>1 DEF ShownIsPosted
      <3>2. CASE h \notin View[f]
        <4>1. f = PathOf(match) /\ h = ImageOf[match] /\ (FetchImage \/ Symlink)
          BY <3>2, ViewMoves DEF NoErrorServed
        <4>2. match \in WebmPost
          BY <4>1 DEF FetchImage, Symlink, HandIsWebm, Downloaded
        <4> QED
          BY <4>1, <4>2
      <3> QED
        BY <3>1, <3>2
    <2> QED
      BY <2>1, <2>2
  <1>3. Files /\ Inv => OnDiskIsTheFile
    <2> SUFFICES ASSUME Files, Inv, NEW p \in WebmPost, AlreadyOnDisk(p)
                 PROVE  \E q \in RealPath(PathOf(p)) : fs[q].data = ImageOf[p]
      BY DEF OnDiskIsTheFile
    <2>1. PathOf(p) \in Path /\ View[PathOf(p)] # {}
      BY OnDiskIsShown, PathOfPost
    <2>2. PICK h \in View[PathOf(p)] : TRUE
      BY <2>1
    <2>3. h = ImageOf[p]
      BY <2>1, <2>2 DEF ShownIsPosted, NoNamesakes
    <2>4. View[PathOf(p)] = {fs[q].data : q \in RealPath(PathOf(p))} \ {Cut}
      BY <2>1 DEF View
    <2> QED
      BY <2>2, <2>3, <2>4
  <1> QED
    BY <1>1, <1>2, <1>3, FilesInvariant, PTL DEF Spec

(***************************************************************************)
(* Nothing that is there is lost.                                          *)
(***************************************************************************)
(* A step that changes files changes the one of the post in hand: a file   *)
(* that is missing or cut, or, to be linked, a copy of an original.        *)
LEMMA FilesMove ==
    ASSUME Files, [Next]_vars, ErrorBody = {}
    PROVE  \/ UNCHANGED fs
           \/ /\ match \in Post
              /\ \A q \in Path : q # PathOf(match) => fs'[q] = fs[q]
              /\ \/ fs[PathOf(match)] \in {Absent, Reg(Cut)}
                 \/ Unlink /\ fs[PathOf(match)] = Reg(ImageOf[match])
PROOF
  <1> DEFINE P == PathOf(match)
  <1>1. /\ fs \in [Path -> FileState] /\ LocalsTyped /\ FileInHand
        /\ RowsBacked /\ Sized /\ LinksToRows /\ TypeOK
    BY DEF Files, FilesInv, TypeOK, DurableTyped
  <1>2. CASE OpenImage
    <2>1. match \in Post /\ P \in Path /\ fs[P] \in {Absent, Reg(Cut)} /\ Sink(P) = {P}
      BY <1>1, <1>2, DownloadsIntoPlace DEF OpenImage
    <2>2. fs' = [fs EXCEPT ![P] = Reg(Cut)]
      BY <1>2, <2>1 DEF OpenImage
    <2> QED
      BY <1>1, <2>1, <2>2
  <1>3. CASE FetchImage
    <2>1. match \in Post /\ P \in Path /\ fs[P] = Reg(Cut)
      BY <1>1, <1>3, PathOfPost DEF FetchImage, LocalsTyped, FileInHand
    <2>2. Sink(P) = {P}
      BY <2>1, Kinds, PlainSink DEF IsLink
    <2>3. fs' = [fs EXCEPT ![P] = Reg(ImageOf[match])]
      BY <1>3, <2>2 DEF FetchImage
    <2> QED
      BY <1>1, <2>1, <2>3
  <1>4. CASE Unlink
    <2>1. match \in Post /\ P \in Path /\ fs[P] = Reg(ImageOf[match])
      BY <1>1, <1>4, PathOfPost DEF Unlink, LocalsTyped, FileInHand
    <2>2. RealPath(P) = {P}
      BY <2>1, Kinds, PlainSink DEF IsLink, IsReg
    <2>3. fs' = [fs EXCEPT ![P] = Absent]
      BY <1>4, <2>2 DEF Unlink
    <2> QED
      BY <1>1, <1>4, <2>1, <2>3
  <1>5. CASE Symlink
    <2>1. match \in Post /\ P \in Path /\ real_fpath = P /\ fs[P] = Absent
      BY <1>1, <1>5, PathOfPost DEF Symlink, LocalsTyped, FileInHand
    <2>2. UNCHANGED fs \/ fs' = [fs EXCEPT ![P] = Link(real_old_fpath)]
      BY <1>5, <2>1 DEF Symlink
    <2> QED
      BY <1>1, <2>1, <2>2
  <1>6. CASE ~OpenImage /\ ~FetchImage /\ ~Unlink /\ ~Symlink
    BY <1>6 DEF Next, NewPost, Scraper, Indexing, Downloading, Recording, StartCycle, ReadCatalog, ReadThread,
        IndexPost, IndexDone, PopMatch, CycleDone, SaveThread, InsertPost, SkipDownload, ThumbFails, FetchFails,
        InsertWebm, NotRecorded, FoundItself, FoundOriginal, InsertAlias, KeepAliases, RefuseLink, Crash,
        Restart, vars
  <1> QED
    BY <1>2, <1>3, <1>4, <1>5, <1>6

(* An image that is stored stays stored: a file is removed only while the  *)
(* original it is a copy of is there.                                      *)
LEMMA StoredStaysStored ==
    ASSUME ErrorBody = {}, Files, [Next]_vars, NEW h \in Image, Stored(h)
    PROVE  Stored(h)'
PROOF
  <1>1. PICK q \in Path : fs[q] = Reg(h)
    BY DEF Stored
  <1>2. h \in Content /\ h # Cut
    BY DEF Content
  <1>3. CASE fs'[q] = fs[q]
    BY <1>1, <1>3 DEF Stored
  <1>4. CASE fs'[q] # fs[q]
    <2>1. /\ match \in Post /\ q = PathOf(match)
          /\ \A p \in Path : p # PathOf(match) => fs'[p] = fs[p]
          /\ fs[q] \in {Absent, Reg(Cut)} \/ (Unlink /\ fs[q] = Reg(ImageOf[match]))
      BY <1>4, FilesMove
    <2>2. fs[q] # Absent /\ fs[q] # Reg(Cut)
      <3>1. fs[q].kind = "reg" /\ fs[q].data = h
        BY <1>1, Kinds
      <3>2. Absent.kind = "absent" /\ Reg(Cut).data = Cut
        BY Kinds
      <3> QED
        BY <1>2, <3>1, <3>2
    <2>3. Unlink /\ h = ImageOf[match]
      <3>1. Unlink /\ Reg(h) = Reg(ImageOf[match])
        BY <1>1, <2>1, <2>2
      <3>2. Reg(h).data = h /\ Reg(ImageOf[match]).data = ImageOf[match]
        BY Kinds
      <3> QED
        BY <3>1, <3>2
    <2>4. /\ old_webm \in webms /\ old_webm.path # PathOf(match) /\ old_webm.hash = h
          /\ old_webm.path \in Path /\ fs[old_webm.path] = Reg(h)
      <3>1. pc = "link" /\ FileInHand /\ RowsBacked /\ OldWebmElsewhere /\ webms \subseteq Row
        BY <2>3 DEF Unlink, Files, FilesInv, TypeOK, DurableTyped
      <3>2. old_webm \in webms /\ old_webm.path # PathOf(match) /\ old_webm.hash = h
        BY <2>3, <3>1 DEF FileInHand, OldWebmElsewhere
      <3> QED
        BY <3>1, <3>2 DEF RowsBacked, Row
    <2>5. fs'[old_webm.path] = Reg(h)
      BY <2>1, <2>4
    <2> QED
      BY <2>4, <2>5 DEF Stored
  <1> QED
    BY <1>3, <1>4

(* What a path shows it shows until modify_aliased_file takes it away for  *)
(* a link: no download, failure or death hides it.                         *)
LEMMA ShownStaysShown ==
    ASSUME ErrorBody = {}, Files, Files', [Next]_vars,
           NEW p \in Path, View[p] # {}, View'[p] # View[p]
    PROVE  pc' = "symlink" /\ real_fpath' = p
PROOF
  <1>1. /\ match \in Post /\ p = PathOf(match)
        /\ FetchImage \/ Unlink \/ Symlink
    BY ViewMoves DEF NoErrorServed
  <1>2. ~FetchImage /\ ~Symlink
    BY <1>1, ViewInHand DEF FetchImage, Symlink
  <1>3. pc = "link" /\ fs[p] = Reg(ImageOf[match])
    BY <1>1, <1>2 DEF Unlink, Files, FilesInv, FileInHand
  <1>4. RealPath(p) = {p}
    BY <1>3, Kinds, PlainSink DEF IsLink, IsReg
  <1> QED
    BY <1>1, <1>2, <1>4 DEF Unlink, Goto

(* Where the site serves no error bodies, what is stored is stored for     *)
(* good, and what is shown is taken away only to be linked.                *)
THEOREM NothingIsLost ==
    ASSUME ErrorBody = {}
    PROVE  Spec => NothingLost
PROOF
  <1>1. Files /\ Files' /\ [Next]_vars =>
            [/\ \A h \in Image : Stored(h) => Stored(h)'
             /\ \A p \in Path : View[p] # {} =>
                   View'[p] = View[p] \/ (pc' = "symlink" /\ real_fpath' = p)]_vars
    BY StoredStaysStored, ShownStaysShown
  <1> QED
    BY <1>1, FilesInvariant, PTL DEF Spec, NothingLost

(***************************************************************************)
(* A failure costs one path.  The post in hand is on course as long as its *)
(* path will agree with the tables at the end of its iteration if nothing  *)
(* fails until then; if it is not, a fault has been charged that no other  *)
(* path accounts for.                                                      *)
(***************************************************************************)
Disrepair == {p \in Path : InDisrepair(p) /\ (match = None \/ p # PathOf(match))}

OnCourse ==
    /\ pc \in {"post", "insert_post", "download"} => ~InDisrepair(PathOf(match))
    /\ pc \in {"download", "fetch", "record", "alias"} => post_saved
    /\ pc \in {"fetch", "record", "alias"} => AliasRowsAt(PathOf(match)) = {}
    /\ pc \in {"link", "symlink"} =>
          /\ AliasRowsAt(PathOf(match)) # {}
          /\ \A a \in AliasRowsAt(PathOf(match)) : a.hash = ImageOf[match]

CostInv ==
    /\ IsFiniteSet(Disrepair)
    /\ Cardinality(Disrepair) <= MaxFaults - faults
    /\ match # None => Cardinality(Disrepair) + 1 <= MaxFaults - faults \/ OnCourse

(* The rows that a step adds are at the path in hand.                      *)
LEMMA RowsMove ==
    ASSUME TypeOK, [Next]_vars
    PROVE  /\ UNCHANGED webms \/ \E h : InsertWebm /\ AddWebm(h, match) /\ match \in Post
           /\ UNCHANGED aliases \/ (InsertAlias /\ AddAlias(old_webm.hash, match) /\ match \in Post)
PROOF
  <1>1. CASE InsertWebm \/ InsertAlias
    BY <1>1 DEF InsertWebm, InsertAlias, TypeOK, LocalsTyped
  <1>2. CASE ~InsertWebm /\ ~InsertAlias
    BY <1>2 DEF Next, NewPost, Scraper, Indexing, Downloading, Recording, StartCycle, ReadCatalog, ReadThread,
        IndexPost, IndexDone, PopMatch, CycleDone, SaveThread, InsertPost, SkipDownload, OpenImage, ThumbFails,
        FetchImage, FetchFails, NotRecorded, FoundItself, FoundOriginal, KeepAliases, RefuseLink, Unlink,
        Symlink, Crash, Restart, vars, tables
  <1> QED
    BY <1>1, <1>2

(* A step charges a fault or does not.                                     *)
LEMMA FaultOrNot ==
    ASSUME TypeOK, [Next]_vars
    PROVE  /\ faults \in 0..MaxFaults /\ faults' \in 0..MaxFaults
           /\ faults' = faults - 1 \/ (faults' = faults /\ ~Fault)
PROOF
  <1>1. faults \in 0..MaxFaults
    BY DEF TypeOK, DurableTyped
  <1>2. Fault \/ NoFault
    BY DEF Next, NewPost, Scraper, Indexing, Downloading, Recording, StartCycle, ReadCatalog, ReadThread,
        IndexPost, IndexDone, PopMatch, CycleDone, SaveThread, InsertPost, SkipDownload, OpenImage, ThumbFails,
        FetchImage, FetchFails, InsertWebm, NotRecorded, FoundItself, FoundOriginal, InsertAlias, KeepAliases,
        RefuseLink, Unlink, Symlink, Crash, Restart, vars, NoFault
  <1>3. faults' \in 0..MaxFaults
    BY <1>1, <1>2, FaultsTyped
  <1> QED
    BY <1>1, <1>2, <1>3 DEF Fault, NoFault

(* Only the path in hand is repaired, or falls into disrepair.             *)
LEMMA RepairElsewhere ==
    ASSUME Files, Files', [Next]_vars, NoErrorServed,
           NEW q \in Path, match = None \/ q # PathOf(match)
    PROVE  InDisrepair(q)' <=> InDisrepair(q)
PROOF
  <1>1. View'[q] = View[q]
    BY ViewMoves
  <1>2. \A r : r.path = q => (r \in webms' <=> r \in webms) /\ (r \in aliases' <=> r \in aliases)
    <2>1. match \in Post => q # PathOf(match)
      OBVIOUS
    <2>2. \A h : [hash |-> h, path |-> PathOf(match), post |-> match].path = PathOf(match)
      OBVIOUS
    <2> QED
      BY <2>1, <2>2, RowsMove DEF AddWebm, AddAlias, Files
  <1> QED
    BY <1>1, <1>2 DEF InDisrepair
(* A post is in hand until its iteration ends.                             *)
LEMMA HandKept ==
    ASSUME TypeOK, [Next]_vars, match # None
    PROVE  /\ match' \in {match, None} /\ match \in Post /\ PathOf(match) \in Path
           /\ pc \notin {"sleep", "index", "pop", "down"}
           /\ match' = None <=> pc' \in {"sleep", "index", "pop", "down"}
PROOF
  <1>1. pc \notin {"sleep", "index", "pop", "down"} /\ match \in Post
    BY DEF TypeOK, LocalsTyped
  <1>2. PathOf(match) \in Path
    BY <1>1, PathOfPost
  <1>3. CASE SkipDownload \/ ThumbFails \/ FetchFails \/ InsertWebm \/ NotRecorded \/ FoundItself \/ RefuseLink
             \/ Symlink \/ Crash
    BY <1>1, <1>2, <1>3 DEF SkipDownload, ThumbFails, FetchFails, InsertWebm, NotRecorded, FoundItself, RefuseLink,
        Symlink, Crash, CloseTwice, Die, NextPost, Goto, ForgetWork
  <1>4. CASE SaveThread \/ InsertPost \/ OpenImage \/ FetchImage \/ FoundOriginal \/ InsertAlias \/ KeepAliases
             \/ Unlink
    BY <1>1, <1>2, <1>4 DEF SaveThread, InsertPost, OpenImage, FetchImage, FoundOriginal, InsertAlias, KeepAliases,
        Unlink, Goto, work
  <1>5. CASE (\E t \in Thread : NewPost(t)) \/ UNCHANGED vars
    BY <1>1, <1>2, <1>5 DEF NewPost, vars, work
  <1>6. CASE Indexing \/ PopMatch \/ CycleDone \/ Restart
    BY <1>1, <1>6 DEF Indexing, StartCycle, ReadCatalog, ReadThread, IndexPost, IndexDone, PopMatch, CycleDone,
        Restart
  <1> QED
    BY <1>3, <1>4, <1>5, <1>6 DEF Next, Scraper, Downloading, Recording

(* ... and it is put there by a pop of the stack.                          *)
LEMMA MatchPicked ==
    ASSUME [Next]_vars, match = None, match' # None
    PROVE  PopMatch
PROOF
  <1>1. CASE SkipDownload \/ ThumbFails \/ FetchFails \/ InsertWebm \/ NotRecorded \/ FoundItself \/ RefuseLink
             \/ Symlink \/ Crash
    BY <1>1 DEF SkipDownload, ThumbFails, FetchFails, InsertWebm, NotRecorded, FoundItself, RefuseLink,
        Symlink, Crash, CloseTwice, Die, NextPost, ForgetWork
  <1>2. CASE SaveThread \/ InsertPost \/ OpenImage \/ FetchImage \/ FoundOriginal \/ InsertAlias \/ KeepAliases
             \/ Unlink \/ Indexing \/ CycleDone \/ Restart
    BY <1>2 DEF SaveThread, InsertPost, OpenImage, FetchImage, FoundOriginal, InsertAlias, KeepAliases,
        Unlink, Indexing, StartCycle, ReadCatalog, ReadThread, IndexPost, IndexDone, CycleDone, Restart, work
  <1>3. CASE (\E t \in Thread : NewPost(t)) \/ UNCHANGED vars
    BY <1>3 DEF NewPost, vars, work
  <1> QED
    BY <1>1, <1>2, <1>3 DEF Next, Scraper, Downloading, Recording

(* On course, and without a fault, the path in hand ends in repair.        *)
LEMMA StaysOnCourse ==
    ASSUME Files, Files', [Next]_vars, match # None, OnCourse, ~Fault, faults' = faults,
           NEW P, P = PathOf(match)
    PROVE  IF match' = None THEN ~InDisrepair(P)' ELSE OnCourse'
PROOF
  <1>0. /\ match' \in {match, None} /\ match \in Post /\ P \in Path
        /\ pc \notin {"sleep", "index", "pop", "down"}
        /\ match' = None <=> pc' \in {"sleep", "index", "pop", "down"}
        /\ TypeOK /\ None \notin Post
    BY HandKept DEF Files
  <1>1. InHandShown /\ InHandShown' /\ FileInHand /\ OldWebmElsewhere
    BY ViewInHand, ViewInHandNext DEF InHandShown, Files, FilesInv
  <1>2. ASSUME pc = "record"
        PROVE  FileHash = {ImageOf[match]} /\ DataSize(ImageOf[match]) > 0
    <2>1. ImageOf[match] \in Content /\ SizeOf[ImageOf[match]] > 0 /\ ImageOf[match] # Cut
      BY <1>0, PathOfPost
    <2> QED
      BY <1>2, <2>1, ViewInHand DEF DataSize
  <1>3. UNCHANGED aliases => AliasRowsAt(P)' = AliasRowsAt(P)
    BY DEF AliasRowsAt
  <1>4. ASSUME UNCHANGED <<View, webms, aliases>> PROVE InDisrepair(P)' <=> InDisrepair(P)
    BY <1>4 DEF InDisrepair
  <1>5. match' = match => PathOf(match)' = P /\ ImageOf[match]' = ImageOf[match]
    BY DEF PathOf
  <1>6. UNCHANGED fs => UNCHANGED View
    BY DEF View, RealPath, Sink, IsLink, IsReg, Links, LeadsTo, ClosedUnderLinks
  <1>7. CASE SaveThread \/ InsertPost
    <2>1. /\ UNCHANGED <<fs, webms, aliases, match>>
          /\ pc' \in {"insert_post", "download"} /\ (pc' = "download" => post_saved')
          /\ pc \in {"post", "insert_post"}
      BY <1>7 DEF SaveThread, InsertPost, Goto
    <2> QED
      BY <1>0, <1>4, <1>5, <1>6, <2>1 DEF OnCourse
  <1>8. CASE SkipDownload
    <2>1. UNCHANGED <<fs, webms, aliases>> /\ pc = "download" /\ match' = None
      BY <1>8 DEF SkipDownload, NextPost, ForgetWork, tables
    <2> QED
      BY <1>4, <1>6, <2>1 DEF OnCourse
  <1>9. CASE OpenImage
    <2>1. UNCHANGED <<webms, aliases, match, post_saved>> /\ pc = "download" /\ pc' = "fetch"
      BY <1>9 DEF OpenImage, WillDownload, Goto, tables, work
    <2>2. UNCHANGED View
      BY <1>9, ViewMoves, NoFaultNoError DEF OpenImage, WillDownload, FetchImage, Unlink, Symlink
    <2>3. View[P] = {}
      BY <1>1, <1>5, <2>1, <2>2 DEF InHandShown
    <2>4. AliasRowsAt(P) = {}
      <3>1. ~InDisrepair(P)
        BY <2>1 DEF OnCourse
      <3> QED
        BY <2>3, <3>1 DEF InDisrepair, AliasRowsAt
    <2> QED
      BY <1>0, <1>3, <1>5, <2>1, <2>4 DEF OnCourse
  <1>10. CASE FetchImage \/ FoundOriginal
    <2>1. /\ UNCHANGED <<aliases, match, post_saved>>
          /\ pc \in {"fetch", "record"} /\ pc' \in {"record", "alias"}
      BY <1>10 DEF FetchImage, FoundOriginal, Goto, tables, work
    <2> QED
      BY <1>0, <1>3, <1>5, <2>1 DEF OnCourse
  <1>11. CASE InsertWebm
    <2>1. UNCHANGED <<fs, aliases>> /\ pc = "record" /\ match' = None /\ \E h : AddWebm(h, match)
      BY <1>11 DEF InsertWebm, NextPost, ForgetWork
    <2>2. \E r \in webms' : r.path = P
      <3>1. PICK h : webms' = webms \cup {[hash |-> h, path |-> P, post |-> match]}
        BY <2>1 DEF AddWebm
      <3>2. [hash |-> h, path |-> P, post |-> match].path = P
        OBVIOUS
      <3> QED
        BY <3>1, <3>2
    <2>3. \A a \in aliases' : a.path # P
      BY <2>1 DEF OnCourse, AliasRowsAt
    <2> QED
      BY <2>1, <2>2, <2>3 DEF InDisrepair
  <1>12. CASE FoundItself
    <2>1. UNCHANGED <<fs, webms, aliases>> /\ pc = "record" /\ match' = None /\ \E r \in webms : r.path = P
      BY <1>12 DEF FoundItself, RowsWithHash, NextPost, ForgetWork, tables
    <2>2. \A a \in aliases' : a.path # P
      BY <2>1 DEF OnCourse, AliasRowsAt
    <2> QED
      BY <2>1, <2>2 DEF InDisrepair
  <1>13. CASE InsertAlias
    <2> DEFINE a == [hash |-> old_webm.hash, path |-> P, post |-> match]
    <2>1. /\ aliases' = aliases \cup {a} /\ UNCHANGED match
          /\ pc = "alias" /\ pc' = "link" /\ AliasRowsAt(P) = {}
      BY <1>13 DEF InsertAlias, AddAlias, Goto, work
    <2>2. a.path = P /\ a.hash = ImageOf[match]
      BY <1>1, <2>1 DEF FileInHand
    <2> HIDE DEF a
    <2>3. AliasRowsAt(P)' = {a}
      BY <2>1, <2>2 DEF AliasRowsAt
    <2> QED
      BY <1>0, <1>5, <2>1, <2>2, <2>3 DEF OnCourse
  <1>14. CASE Unlink
    <2>1. UNCHANGED <<aliases, match>> /\ pc = "link" /\ pc' = "symlink"
      BY <1>14 DEF Unlink, Goto, tables
    <2> QED
      BY <1>0, <1>3, <1>5, <2>1 DEF OnCourse
  <1>15. CASE Symlink
    <2>1. UNCHANGED aliases /\ pc = "symlink" /\ match' = None
      BY <1>15 DEF Symlink, NextPost, ForgetWork, tables
    <2>2. View'[P] = {ImageOf[match]}
      <3>1. ~FetchImage /\ ~Unlink
        BY <1>15 DEF FetchImage, Unlink, Symlink
      <3> QED
        BY <1>15, <3>1, ViewMoves, NoFaultNoError
    <2>3. AliasRowsAt(P) # {} /\ \A a \in AliasRowsAt(P) : a.hash = ImageOf[match]
      BY <2>1 DEF OnCourse
    <2> QED
      BY <2>1, <2>2, <2>3 DEF InDisrepair, AliasRowsAt
  <1>16. CASE RefuseLink
    <2>1. pc = "link" /\ (RealPath(P) = {} \/ RealPath(old_webm.path) = {} \/ RealPath(P) = RealPath(old_webm.path))
      BY <1>16 DEF RefuseLink
    <2>2. /\ old_webm.path \in Path /\ old_webm.path # P
          /\ fs[P] = Reg(ImageOf[match]) /\ fs[old_webm.path] = Reg(old_webm.hash)
      <3>1. old_webm \in webms /\ old_webm \in Row
        BY <1>1, <2>1 DEF OldWebmElsewhere, Files, TypeOK, DurableTyped
      <3>2. old_webm.path \in Path
        BY <3>1 DEF Row
      <3> QED
        BY <1>1, <2>1, <3>1, <3>2 DEF OldWebmElsewhere, FileInHand, Files, FilesInv, RowsBacked
    <2>3. RealPath(P) = {P} /\ RealPath(old_webm.path) = {old_webm.path}
      <3>1. IsReg(P) /\ ~IsLink(P) /\ IsReg(old_webm.path) /\ ~IsLink(old_webm.path)
        BY <2>2, Kinds DEF IsReg, IsLink
      <3> QED
        BY <1>0, <2>2, <3>1, PlainSink
    <2> QED
      BY <2>1, <2>2, <2>3
  <1>17. CASE NotRecorded \/ KeepAliases \/ ThumbFails \/ FetchFails \/ Crash
    <2>1. CASE NotRecorded
      BY <1>2, <2>1 DEF NotRecorded, OnCourse
    <2>2. CASE KeepAliases
      BY <2>2 DEF KeepAliases, OnCourse
    <2> QED
      BY <1>17, <2>1, <2>2 DEF ThumbFails, FetchFails, Crash
  <1>18. CASE (\E t \in Thread : NewPost(t)) \/ UNCHANGED vars
    <2>1. UNCHANGED <<fs, webms, aliases, match, post_saved, pc>>
      BY <1>18 DEF NewPost, vars, tables, work
    <2> QED
      BY <1>0, <1>3, <1>4, <1>5, <1>6, <2>1 DEF OnCourse
  <1>19. CASE Indexing \/ PopMatch \/ CycleDone \/ Restart
    BY <1>0, <1>19 DEF Indexing, StartCycle, ReadCatalog, ReadThread, IndexPost, IndexDone, PopMatch, CycleDone,
        Restart
  <1> QED
    BY <1>7, <1>8, <1>9, <1>10, <1>11, <1>12, <1>13, <1>14, <1>15, <1>16, <1>17, <1>18, <1>19
    DEF Next, Scraper, Downloading, Recording

(* At the start nothing is out of repair.                                  *)
LEMMA CostInit ==
    ASSUME Init, Files
    PROVE  CostInv
PROOF
  <1>1. \A f \in Path : ~IsReg(f) /\ ~IsLink(f)
    BY Kinds DEF Init, IsReg, IsLink
  <1>2. \A f \in Path : View[f] = {}
    BY <1>1, ViewTold DEF ViewDescribed
  <1>3. Disrepair = {}
    BY <1>2 DEF Init, Disrepair, InDisrepair
  <1>4. match = None /\ faults = MaxFaults
    BY DEF Init
  <1> QED
    BY <1>3, <1>4, FS_EmptySet DEF CostInv

(* A step puts one more path out of repair only for a fault.               *)
LEMMA CostStep ==
    ASSUME Files, Files', CostInv, [Next]_vars, NoErrorServed
    PROVE  CostInv'
PROOF
  <1>1. /\ faults \in 0..MaxFaults /\ faults' \in 0..MaxFaults /\ TypeOK /\ TypeOK'
        /\ faults' = faults - 1 \/ (faults' = faults /\ ~Fault)
    BY FaultOrNot DEF Files
  <1>2. IsFiniteSet(Disrepair) /\ Cardinality(Disrepair) \in Nat
    BY FS_CardinalityType DEF CostInv
  <1>3. \A q \in Path : match = None \/ q # PathOf(match) => (InDisrepair(q)' <=> InDisrepair(q))
    BY RepairElsewhere
  <1>4. CASE match = None /\ match' = None
    <2>1. Disrepair' = Disrepair
      BY <1>3, <1>4 DEF Disrepair
    <2> QED
      BY <1>1, <1>2, <1>4, <2>1 DEF CostInv
  <1>5. CASE match = None /\ match' # None
    <2>1. PopMatch
      BY <1>5, MatchPicked
    <2>2. pc' = "post" /\ faults' = faults
      BY <2>1 DEF PopMatch, Goto
    <2>3. PICK p : p = PathOf(match')
      OBVIOUS
    <2>4. Disrepair' = Disrepair \ {p}
      BY <1>3, <1>5, <2>3 DEF Disrepair, PathOf
    <2>5. CASE p \in Disrepair
      <3>1. IsFiniteSet(Disrepair') /\ Cardinality(Disrepair') = Cardinality(Disrepair) - 1
        BY <1>2, <2>4, <2>5, FS_RemoveElement
      <3> QED
        BY <1>1, <1>2, <2>2, <3>1 DEF CostInv
    <2>6. CASE p \notin Disrepair
      <3>1. Disrepair' = Disrepair
        BY <2>4, <2>6
      <3>2. p \in Path
        <4>1. match' \in Post
          BY <1>1, <1>5 DEF TypeOK, LocalsTyped
        <4> QED
          BY <2>3, <4>1 DEF PathOf, Path
      <3>3. ~InDisrepair(p)'
        BY <1>3, <1>5, <2>6, <3>2 DEF Disrepair
      <3>4. OnCourse'
        <4>1. PathOf(match)' = p
          BY <2>3 DEF PathOf
        <4> QED
          BY <2>2, <3>3, <4>1 DEF OnCourse
      <3> QED
        BY <1>1, <1>2, <2>2, <3>1, <3>4 DEF CostInv
    <2> QED
      BY <2>5, <2>6
  <1>6. CASE match # None
    <2>1. PICK p : p = PathOf(match)
      OBVIOUS
    <2>2. match' \in {match, None} /\ p \in Path
      BY <1>1, <1>6, <2>1, HandKept
    <2>3. ~Fault /\ faults' = faults /\ OnCourse => IF match' = None THEN ~InDisrepair(p)' ELSE OnCourse'
      BY <1>6, <2>1, StaysOnCourse
    <2>4. CASE match' = match
      <3>1. Disrepair' = Disrepair
        BY <1>3, <2>4 DEF Disrepair, PathOf
      <3> QED
        BY <1>1, <1>2, <1>6, <2>3, <2>4, <3>1 DEF CostInv
    <2>5. CASE match' = None
      <3>1. Disrepair' = IF InDisrepair(p)' THEN Disrepair \cup {p} ELSE Disrepair
        BY <1>3, <1>6, <2>1, <2>2, <2>5 DEF Disrepair
      <3>2. /\ IsFiniteSet(Disrepair \cup {p})
            /\ Cardinality(Disrepair \cup {p}) <= Cardinality(Disrepair) + 1
        <4>1. p \notin Disrepair
          BY <1>6, <2>1 DEF Disrepair
        <4>2. /\ IsFiniteSet(Disrepair \cup {p})
              /\ Cardinality(Disrepair \cup {p}) = Cardinality(Disrepair) + 1
          BY <1>2, <4>1, FS_AddElement
        <4> QED
          BY <1>2, <4>2
      <3>3. CASE InDisrepair(p)'
        BY <1>1, <1>2, <1>6, <2>3, <2>5, <3>1, <3>2, <3>3, FS_CardinalityType DEF CostInv
      <3>4. CASE ~InDisrepair(p)'
        BY <1>1, <1>2, <2>5, <3>1, <3>4 DEF CostInv
      <3> QED
        BY <3>3, <3>4
    <2> QED
      BY <2>2, <2>4, <2>5
  <1> QED
    BY <1>4, <1>5, <1>6

(* No path has gone out of repair without a fault to account for it.       *)
LEMMA CostInvariant ==
    ASSUME ErrorBody = {}
    PROVE  Spec => []CostInv
PROOF
  <1>1. Files /\ Files' /\ CostInv /\ [Next]_vars => CostInv'
    BY CostStep DEF NoErrorServed
  <1> QED
    BY CostInit, <1>1, FilesInvariant, PTL DEF Spec

(* Every failure, death included, sets at most one path at odds with the   *)
(* tables.                                                                 *)
THEOREM FaultsCostOneEach ==
    ASSUME ErrorBody = {}
    PROVE  Spec => []EachFaultCostsOne
PROOF
  <1>1. CostInv => EachFaultCostsOne
    BY DEF CostInv, Disrepair, EachFaultCostsOne
  <1> QED
    BY <1>1, CostInvariant, PTL

(***************************************************************************)
(* The order of the work.  Two stacks and a pass over the boards: a thread *)
(* is read once in a cycle, into a stack that is empty, and the posts of   *)
(* it that are in the queue were posted after those still to be looked at. *)
(***************************************************************************)
LEMMA Popped ==
    ASSUME NEW s \in Seq(Post), s # <<>>
    PROVE  /\ Len(s) \in Nat \ {0} /\ Tail(s) \in Seq(Post) /\ Len(Tail(s)) = Len(s) - 1
           /\ Head(s) = s[1] /\ s[1] \in Post
           /\ \A i \in 1..Len(Tail(s)) : i + 1 \in 1..Len(s) /\ Tail(s)[i] = s[i + 1]
PROOF
  <1>1. Len(s) \in Nat \ {0} /\ Tail(s) \in Seq(Post) /\ Len(Tail(s)) = Len(s) - 1
    BY EmptySeq, LenProperties, HeadTailProperties
  <1>2. Head(s) = s[1] /\ s[1] \in Post
    BY <1>1, ElementOfSeq, HeadTailProperties
  <1>3. \A i \in 1..Len(Tail(s)) : i + 1 \in 1..Len(s) /\ Tail(s)[i] = s[i + 1]
    BY <1>1, HeadTailProperties
  <1> QED
    BY <1>1, <1>2, <1>3

(* What is pushed is on top, and the rest one place further down.          *)
LEMMA Pushed ==
    ASSUME NEW s \in Seq(Post), NEW p \in Post
    PROVE  /\ <<p>> \o s \in Seq(Post) /\ Len(<<p>> \o s) = Len(s) + 1 /\ Len(s) \in Nat
           /\ (<<p>> \o s)[1] = p
           /\ \A i \in 1..Len(s) : (<<p>> \o s)[i + 1] = s[i]
PROOF
  <1>1. <<p>> \in Seq(Post) /\ Len(<<p>>) = 1 /\ <<p>>[1] = p /\ Len(s) \in Nat
    BY LenProperties
  <1> QED
    BY <1>1, ConcatProperties

OldestFirstIn(s) ==
    \A i, j \in 1..Len(s) : i < j /\ ThreadOf[s[i]] = ThreadOf[s[j]] => PostedBefore(s[i], s[j])

(* The queue waits oldest first when it does so as a sequence.             *)
LEMMA QueueInOrder ==
    /\ QueueOldestFirst <=> OldestFirstIn(queue)
    /\ QueueOldestFirst' <=> OldestFirstIn(queue')
PROOF BY DEF QueueOldestFirst, OldestFirstIn, PostedBefore

(* Taking the top off leaves the rest in order.                            *)
LEMMA PoppedInOrder ==
    ASSUME NEW s \in Seq(Post), s # <<>>, OldestFirstIn(s)
    PROVE  OldestFirstIn(Tail(s))
PROOF
  <1> DEFINE u == Tail(s)
  <1>1. /\ Len(s) \in Nat /\ Len(u) = Len(s) - 1
        /\ \A i \in 1..Len(u) : i + 1 \in 1..Len(s) /\ u[i] = s[i + 1]
    BY Popped
  <1> HIDE DEF u
  <1> SUFFICES ASSUME NEW i \in 1..Len(u), NEW j \in 1..Len(u), i < j, ThreadOf[u[i]] = ThreadOf[u[j]]
               PROVE  PostedBefore(u[i], u[j])
    BY DEF OldestFirstIn, u
  <1>3. i + 1 \in 1..Len(s) /\ u[i] = s[i + 1]
    BY <1>1
  <1>4. j + 1 \in 1..Len(s) /\ u[j] = s[j + 1]
    BY <1>1
  <1>5. i + 1 < j + 1
    OBVIOUS
  <1>6. ThreadOf[s[i + 1]] = ThreadOf[s[j + 1]]
    BY <1>3, <1>4
  <1>7. PostedBefore(s[i + 1], s[j + 1])
    BY <1>3, <1>4, <1>5, <1>6 DEF OldestFirstIn
  <1> QED
    BY <1>3, <1>4, <1>7

(* So does putting an older post of its thread on top.                     *)
LEMMA PushedInOrder ==
    ASSUME NEW s \in Seq(Post), NEW p \in Post, OldestFirstIn(s),
           \A i \in 1..Len(s) : ThreadOf[p] = ThreadOf[s[i]] => PostedBefore(p, s[i])
    PROVE  OldestFirstIn(<<p>> \o s)
PROOF
  <1> DEFINE u == <<p>> \o s
  <1>1. Len(s) \in Nat /\ Len(u) = Len(s) + 1 /\ u[1] = p /\ \A i \in 1..Len(s) : u[i + 1] = s[i]
    BY Pushed
  <1> HIDE DEF u
  <1> SUFFICES ASSUME NEW i \in 1..Len(u), NEW j \in 1..Len(u), i < j, ThreadOf[u[i]] = ThreadOf[u[j]]
               PROVE  PostedBefore(u[i], u[j])
    BY DEF OldestFirstIn, u
  <1>3. j - 1 \in 1..Len(s) /\ u[j] = s[j - 1]
    <2>1. j - 1 \in 1..Len(s) /\ (j - 1) + 1 = j
      BY <1>1
    <2> QED
      BY <1>1, <2>1
  <1>4. CASE i = 1
    BY <1>1, <1>3, <1>4
  <1>5. CASE i # 1
    <2>1. i \in Nat /\ j \in Nat /\ i >= 1 /\ i < j /\ j <= Len(s) + 1
      BY <1>1
    <2>2. i - 1 \in 1..Len(s) /\ (i - 1) + 1 = i /\ i - 1 < j - 1
      BY <1>1, <1>5, <2>1
    <2>3. u[i] = s[i - 1]
      BY <1>1, <2>2
    <2>4. ThreadOf[s[i - 1]] = ThreadOf[s[j - 1]]
      BY <1>3, <2>3
    <2>5. PostedBefore(s[i - 1], s[j - 1])
      BY <1>3, <2>2, <2>4 DEF OldestFirstIn
    <2> QED
      BY <1>3, <2>3, <2>5
  <1> QED
    BY <1>4, <1>5

(* k posts of thread t are still to be looked at.                          *)
ReadingUpTo(t, k) ==
    /\ k \in 1..Len(Listing[t]) /\ BoardOf[t] \notin boards_left /\ t \notin matches
    /\ Len(thread_matches) = k
    /\ \A i \in 1..k : thread_matches[i] = Listing[t][k + 1 - i]
    /\ \A i \in 1..Len(queue) : ThreadOf[queue[i]] = t =>
          \E j \in (k + 1)..Len(Listing[t]) : Listing[t][j] = queue[i]

OneThreadRead == thread_matches # <<>> => \E t \in Thread : \E k \in Nat : ReadingUpTo(t, k)

MatchesUnread ==
    \A t \in matches :
        /\ BoardOf[t] \notin boards_left
        /\ \A i \in 1..Len(queue) : ThreadOf[queue[i]] # t

QueueOfBoardsRead ==
    pc = "index" => \A i \in 1..Len(queue) : BoardOf[ThreadOf[queue[i]]] \notin boards_left

StacksEmpty ==
    /\ pc # "index" => thread_matches = <<>> /\ matches = {}
    /\ pc \in {"sleep", "down"} => queue = <<>>

OrderInv ==
    QueueOldestFirst /\ OneThreadRead /\ MatchesUnread /\ QueueOfBoardsRead /\ StacksEmpty

(* Everything else leaves the index alone, or is the death of the process. *)
LEMMA IndexStays ==
    ASSUME TypeOK, [Next]_vars
    PROVE  \/ StartCycle \/ (\E b \in Board : ReadCatalog(b)) \/ (\E t \in Thread : ReadThread(t))
           \/ IndexPost \/ IndexDone \/ PopMatch
           \/ Die
           \/ CycleDone /\ pc' = "sleep" /\ queue = <<>> /\ UNCHANGED <<index, queue>>
           \/ UNCHANGED <<pc, index, queue>>
           \/ UNCHANGED <<index, queue>> /\ pc' \notin {"index", "sleep", "down"} /\ pc # "index"
           \/ Restart /\ pc' = "sleep" /\ pc = "down" /\ UNCHANGED <<index, queue>>
PROOF
  <1>1. CASE SkipDownload \/ ThumbFails \/ FetchFails \/ InsertWebm \/ NotRecorded \/ FoundItself \/ RefuseLink
             \/ Symlink \/ Crash
    BY <1>1 DEF SkipDownload, ThumbFails, FetchFails, InsertWebm, NotRecorded, FoundItself, RefuseLink,
        Symlink, Crash, CloseTwice, NextPost, Goto, WillDownload
  <1>2. CASE SaveThread \/ InsertPost \/ OpenImage \/ FetchImage \/ FoundOriginal \/ InsertAlias \/ KeepAliases
             \/ Unlink \/ CycleDone \/ Restart
    BY <1>2 DEF SaveThread, InsertPost, OpenImage, FetchImage, FoundOriginal, InsertAlias, KeepAliases,
        Unlink, CycleDone, Restart, Goto, WillDownload
  <1>3. CASE (\E t \in Thread : NewPost(t)) \/ UNCHANGED vars
    BY <1>3 DEF NewPost, vars
  <1> QED
    BY <1>1, <1>2, <1>3 DEF Next, Scraper, Indexing, Downloading, Recording
(* What parse_thread_json pushes, the newest post on top.                  *)
LEMMA NewestFirstIs ==
    ASSUME TypeOK, NEW t \in Thread
    PROVE  /\ Len(NewestFirst(t)) = published[t] /\ published[t] \in 0..Len(Listing[t]) /\ Len(Listing[t]) \in Nat
           /\ \A i \in 1..published[t] : NewestFirst(t)[i] = Listing[t][published[t] + 1 - i]
PROOF
  <1>1. published[t] \in 0..Len(Listing[t]) /\ Len(Listing[t]) \in Nat
    <2>1. Len(Listing[t]) \in Nat
      BY LenProperties
    <2> QED
      BY <2>1 DEF TypeOK, DurableTyped
  <1>2. PICK n \in Nat : n = published[t]
    BY <1>1
  <1>3. NewestFirst(t) \in Seq(Post)
    BY NewestFirstTyped
  <1>4. DOMAIN NewestFirst(t) = 1..n
    BY <1>2 DEF NewestFirst
  <1>5. Len(NewestFirst(t)) \in Nat /\ DOMAIN NewestFirst(t) = 1..Len(NewestFirst(t))
    BY <1>3, LenProperties
  <1>6. Len(NewestFirst(t)) = n
    BY <1>4, <1>5
  <1> QED
    BY <1>1, <1>2, <1>6 DEF NewestFirst

(* The post on top is the newest not looked at yet; the older ones follow. *)
LEMMA HeadRead ==
    ASSUME TypeOK, thread_matches # <<>>, NEW t \in Thread, NEW k \in Nat, ReadingUpTo(t, k)
    PROVE  /\ Len(Tail(thread_matches)) = k - 1 /\ k \in 1..Len(Listing[t]) /\ Len(Listing[t]) \in Nat
           /\ Head(thread_matches) = Listing[t][k] /\ Head(thread_matches) \in Post
           /\ ThreadOf[Head(thread_matches)] = t
           /\ \A i \in 1..(k - 1) : Tail(thread_matches)[i] = Listing[t][k - i]
PROOF
  <1> DEFINE p == Head(thread_matches)
  <1>0. thread_matches \in Seq(Post)
    BY DEF TypeOK, LocalsTyped
  <1>1. Len(thread_matches) = k /\ k \in 1..Len(Listing[t]) /\ Len(Listing[t]) \in Nat
    BY LenProperties DEF ReadingUpTo
  <1>2. /\ Len(Tail(thread_matches)) = k - 1 /\ p = thread_matches[1] /\ p \in Post
        /\ \A i \in 1..(k - 1) : i + 1 \in 1..k /\ Tail(thread_matches)[i] = thread_matches[i + 1]
    BY <1>0, <1>1, Popped
  <1>3. p = Listing[t][k]
    BY <1>1, <1>2 DEF ReadingUpTo
  <1>4. \A i \in 1..(k - 1) : thread_matches[i + 1] = Listing[t][k - i]
    <2> TAKE i \in 1..(k - 1)
    <2>1. i + 1 \in 1..k /\ k + 1 - (i + 1) = k - i
      BY <1>1
    <2> QED
      BY <2>1 DEF ReadingUpTo
  <1>5. \A i \in 1..(k - 1) : Tail(thread_matches)[i] = Listing[t][k - i]
    BY <1>2, <1>4
  <1>6. ThreadOf[p] = t
    BY <1>1, <1>3, SiteAssumption
  <1> HIDE DEF p
  <1>7. p = Head(thread_matches)
    BY DEF p
  <1> QED
    BY <1>1, <1>2, <1>3, <1>5, <1>6, <1>7

(* At the start both stacks are empty.                                     *)
LEMMA OrderInit == Init => OrderInv
PROOF
  <1> SUFFICES ASSUME Init PROVE OrderInv
    OBVIOUS
  <1>1. Len(queue) = 0 /\ queue = <<>> /\ thread_matches = <<>> /\ matches = {} /\ pc = "sleep"
    BY DEF Init
  <1>2. 1..Len(queue) = {}
    BY <1>1
  <1> QED
    BY <1>1, <1>2 DEF OrderInv, QueueOldestFirst, OneThreadRead, MatchesUnread, QueueOfBoardsRead, StacksEmpty

(* Every step keeps the order of both stacks.                              *)
LEMMA OrderStep == TypeOK /\ OrderInv /\ [Next]_vars => OrderInv'
PROOF
  <1> SUFFICES ASSUME TypeOK, OrderInv, [Next]_vars PROVE OrderInv'
    OBVIOUS
  <1>0. /\ queue \in Seq(Post) /\ thread_matches \in Seq(Post) /\ Len(queue) \in Nat
        /\ \A i \in 1..Len(queue) : queue[i] \in Post
        /\ matches \subseteq Thread /\ boards_left \subseteq Board
    BY LenProperties, ElementOfSeq DEF TypeOK, LocalsTyped
  <1>1. ASSUME UNCHANGED <<index, queue>>
        PROVE  QueueOldestFirst' /\ OneThreadRead' /\ MatchesUnread'
    BY <1>1 DEF OrderInv, index, QueueOldestFirst, OneThreadRead, MatchesUnread, ReadingUpTo, PostedBefore
  <1>2. CASE UNCHANGED <<pc, index, queue>>
    BY <1>1, <1>2 DEF OrderInv, QueueOfBoardsRead, StacksEmpty, index
  <1>3. CASE \/ UNCHANGED <<index, queue>> /\ pc' \notin {"index", "sleep", "down"} /\ pc # "index"
             \/ CycleDone /\ pc' = "sleep" /\ queue = <<>> /\ UNCHANGED <<index, queue>>
             \/ Restart /\ pc' = "sleep" /\ pc = "down" /\ UNCHANGED <<index, queue>>
    <2>1. UNCHANGED <<index, queue>> /\ pc' # "index" /\ pc # "index" /\ (pc' \in {"sleep", "down"} => queue = <<>>)
      BY <1>3 DEF CycleDone, OrderInv, StacksEmpty
    <2> QED
      BY <1>1, <2>1 DEF OrderInv, QueueOfBoardsRead, StacksEmpty, index
  <1>4. CASE Die
    <2>1. queue' = <<>> /\ thread_matches' = <<>> /\ matches' = {} /\ pc' = "down"
      BY <1>4 DEF Die, Goto
    <2>2. 1..Len(queue') = {}
      BY <2>1
    <2> QED
      BY <2>1, <2>2 DEF OrderInv, QueueOldestFirst, OneThreadRead, MatchesUnread, QueueOfBoardsRead, StacksEmpty
  <1>5. CASE StartCycle
    <2>1. UNCHANGED <<matches, thread_matches, queue>> /\ pc' = "index" /\ queue = <<>>
          /\ matches = {} /\ thread_matches = <<>>
      BY <1>5 DEF StartCycle, Goto, OrderInv, StacksEmpty
    <2>2. 1..Len(queue) = {}
      BY <2>1
    <2> QED
      BY <2>1, <2>2 DEF OrderInv, QueueOldestFirst, OneThreadRead, MatchesUnread, QueueOfBoardsRead, StacksEmpty
  <1>6. ASSUME NEW b \in Board, ReadCatalog(b) PROVE OrderInv'
    <2>1. /\ UNCHANGED <<pc, queue, thread_matches>> /\ pc = "index" /\ thread_matches = <<>> /\ b \in boards_left
          /\ boards_left' = boards_left \ {b} /\ matches' \subseteq ThreadsOn(b)
      BY <1>6 DEF ReadCatalog
    <2>2. \A i \in 1..Len(queue) : BoardOf[ThreadOf[queue[i]]] # b
      BY <2>1 DEF OrderInv, QueueOfBoardsRead
    <2>3. MatchesUnread'
      BY <2>1, <2>2 DEF MatchesUnread, ThreadsOn
    <2> QED
      BY <2>1, <2>3 DEF OrderInv, QueueOldestFirst, OneThreadRead, QueueOfBoardsRead, StacksEmpty, PostedBefore
  <1>7. ASSUME NEW t \in Thread, ReadThread(t) PROVE OrderInv'
    <2>1. /\ UNCHANGED <<pc, queue, boards_left>> /\ pc = "index" /\ t \in matches /\ matches' = matches \ {t}
          /\ thread_matches' = <<>> \/ thread_matches' = NewestFirst(t)
      BY <1>7 DEF ReadThread
    <2>2. OneThreadRead'
      <3> SUFFICES ASSUME thread_matches' # <<>> PROVE \E k \in Nat : ReadingUpTo(t, k)'
        BY DEF OneThreadRead
      <3>1. thread_matches' = NewestFirst(t)
        BY <2>1
      <3>2. PICK k \in Nat : k = published[t]
        BY DEF TypeOK, DurableTyped
      <3>3. k # 0
        <4> SUFFICES ASSUME k = 0 PROVE FALSE
          OBVIOUS
        <4>1. NewestFirst(t) \in Seq(Post) /\ Len(NewestFirst(t)) = 0
          BY <3>2, NewestFirstIs, NewestFirstTyped
        <4> QED
          BY <3>1, <4>1, EmptySeq
      <3>4. /\ Len(thread_matches') = k /\ k \in 1..Len(Listing[t])
            /\ \A i \in 1..k : thread_matches'[i] = Listing[t][k + 1 - i]
        BY <3>1, <3>2, <3>3, NewestFirstIs
      <3>5. BoardOf[t] \notin boards_left /\ \A i \in 1..Len(queue) : ThreadOf[queue[i]] # t
        BY <2>1 DEF OrderInv, MatchesUnread
      <3>6. ReadingUpTo(t, k)'
        BY <2>1, <3>4, <3>5 DEF ReadingUpTo
      <3> QED
        BY <3>6
    <2> QED
      BY <2>1, <2>2 DEF OrderInv, QueueOldestFirst, MatchesUnread, QueueOfBoardsRead, StacksEmpty, PostedBefore
  <1>8. CASE IndexPost
    <2> DEFINE p == Head(thread_matches)
    <2>1. /\ pc = "index" /\ thread_matches # <<>> /\ thread_matches' = Tail(thread_matches)
          /\ UNCHANGED <<pc, boards_left, matches>>
          /\ queue' = queue \/ queue' = <<p>> \o queue
      BY <1>8 DEF IndexPost, work
    <2>2. PICK t \in Thread, k \in Nat : ReadingUpTo(t, k)
      BY <2>1 DEF OrderInv, OneThreadRead
    <2>3. /\ Len(Tail(thread_matches)) = k - 1 /\ k \in 1..Len(Listing[t]) /\ Len(Listing[t]) \in Nat
          /\ p = Listing[t][k] /\ p \in Post /\ ThreadOf[p] = t
          /\ \A i \in 1..(k - 1) : Tail(thread_matches)[i] = Listing[t][k - i]
      BY <2>1, <2>2, HeadRead
    <2> HIDE DEF p
    <2>4. thread_matches' # <<>> => k - 1 \in 1..Len(Listing[t])
      <3>1. Tail(thread_matches) \in Seq(Post)
        BY <1>0, <2>1, Popped
      <3>2. Tail(thread_matches) # <<>> => k - 1 # 0
        BY <2>3, <3>1, EmptySeq
      <3> QED
        BY <2>1, <2>3, <3>2
    <2>5. t \notin matches /\ BoardOf[t] \notin boards_left
          /\ \A i \in 1..Len(queue) : ThreadOf[queue[i]] = t =>
                \E j \in (k + 1)..Len(Listing[t]) : Listing[t][j] = queue[i]
      BY <2>2 DEF ReadingUpTo
    <2>8. /\ Len(thread_matches') = k - 1
          /\ \A i \in 1..(k - 1) : thread_matches'[i] = Listing[t][(k - 1) + 1 - i]
      BY <2>1, <2>3
    <2>6. CASE queue' = queue
      <3>1. ASSUME thread_matches' # <<>> PROVE ReadingUpTo(t, k - 1)'
        <4>1. \A i \in 1..Len(queue) : ThreadOf[queue[i]] = t =>
                \E j \in ((k - 1) + 1)..Len(Listing[t]) : Listing[t][j] = queue[i]
          BY <2>3, <2>5
        <4> QED
          BY <2>1, <2>4, <2>5, <2>6, <2>8, <3>1, <4>1 DEF ReadingUpTo
      <3>2. k - 1 \in Nat
        BY <2>3
      <3>3. OneThreadRead'
        BY <3>1, <3>2 DEF OneThreadRead
      <3>4. QueueOldestFirst' /\ MatchesUnread' /\ QueueOfBoardsRead' /\ StacksEmpty'
        BY <2>1, <2>6 DEF OrderInv, QueueOldestFirst, MatchesUnread, QueueOfBoardsRead, StacksEmpty, PostedBefore
      <3> QED
        BY <3>3, <3>4 DEF OrderInv
    <2>7. CASE queue' = <<p>> \o queue
      <3>1. /\ Len(queue') = Len(queue) + 1 /\ queue'[1] = p
            /\ \A i \in 1..Len(queue) : queue'[i + 1] = queue[i]
        <4>1. /\ Len(<<p>> \o queue) = Len(queue) + 1 /\ (<<p>> \o queue)[1] = p
              /\ \A i \in 1..Len(queue) : (<<p>> \o queue)[i + 1] = queue[i]
          BY <1>0, <2>3, Pushed
        <4> QED
          BY <2>7, <4>1
      <3>2. \A i \in 1..Len(queue') : i = 1 \/ (i - 1 \in 1..Len(queue) /\ queue'[i] = queue[i - 1])
        <4> TAKE i \in 1..Len(queue')
        <4>1. CASE i # 1
          <5>1. i - 1 \in 1..Len(queue) /\ (i - 1) + 1 = i
            BY <1>0, <3>1, <4>1
          <5> QED
            BY <3>1, <5>1
        <4> QED
          BY <4>1
      <3>3. ASSUME thread_matches' # <<>> PROVE ReadingUpTo(t, k - 1)'
        <4>1. ASSUME NEW i \in 1..Len(queue'), ThreadOf[queue'[i]] = t
              PROVE  \E j \in k..Len(Listing[t]) : Listing[t][j] = queue'[i]
          <5>1. CASE i = 1
            BY <2>3, <3>1, <5>1
          <5>2. CASE i - 1 \in 1..Len(queue) /\ queue'[i] = queue[i - 1]
            <6>1. PICK j \in (k + 1)..Len(Listing[t]) : Listing[t][j] = queue[i - 1]
              BY <2>5, <4>1, <5>2
            <6>2. j \in k..Len(Listing[t])
              BY <2>3
            <6> QED
              BY <5>2, <6>1, <6>2
          <5> QED
            BY <3>2, <5>1, <5>2
        <4>2. (k - 1) + 1 = k
          BY <2>3
        <4> QED
          BY <2>1, <2>3, <2>4, <2>5, <3>3, <4>1, <4>2 DEF ReadingUpTo
      <3>4. QueueOldestFirst'
        <4>1. ASSUME NEW i \in 1..Len(queue), ThreadOf[p] = ThreadOf[queue[i]]
              PROVE  PostedBefore(p, queue[i])
          <5>1. PICK m \in (k + 1)..Len(Listing[t]) : Listing[t][m] = queue[i]
            BY <2>3, <2>5, <4>1
          <5>2. k < m /\ m \in 1..Len(Listing[t])
            <6>1. k \in Nat /\ k >= 1 /\ Len(Listing[t]) \in Nat
              BY <2>3
            <6>2. m \in (k + 1)..Len(Listing[t])
              BY <5>1
            <6> QED
              BY <6>1, <6>2
          <5> QED
            BY <2>3, <5>1, <5>2 DEF PostedBefore
        <4> QED
          BY <1>0, <2>3, <2>7, <4>1, PushedInOrder, QueueInOrder DEF OrderInv
      <3>5. MatchesUnread' /\ QueueOfBoardsRead'
        <4>1. \A i \in 1..Len(queue') : ThreadOf[queue'[i]] \notin matches /\ BoardOf[ThreadOf[queue'[i]]] \notin boards_left
          <5> TAKE i \in 1..Len(queue')
          <5>1. CASE i = 1
            BY <2>3, <2>5, <3>1, <5>1
          <5>2. CASE i - 1 \in 1..Len(queue) /\ queue'[i] = queue[i - 1]
            BY <2>1, <5>2 DEF OrderInv, MatchesUnread, QueueOfBoardsRead
          <5> QED
            BY <3>2, <5>1, <5>2
        <4> QED
          BY <2>1, <4>1 DEF MatchesUnread, QueueOfBoardsRead, OrderInv
      <3>6. k - 1 \in Nat
        BY <2>3
      <3> QED
        BY <2>1, <3>3, <3>4, <3>5, <3>6 DEF OrderInv, OneThreadRead, StacksEmpty
    <2> QED
      BY <2>1, <2>6, <2>7
  <1>9. CASE IndexDone
    <2>1. UNCHANGED <<index, queue>> /\ pc' = "pop" /\ thread_matches = <<>> /\ matches = {}
      BY <1>9 DEF IndexDone, Goto
    <2> QED
      BY <1>1, <2>1 DEF OrderInv, QueueOfBoardsRead, StacksEmpty, index
  <1>10. CASE PopMatch
    <2>1. /\ UNCHANGED index /\ queue # <<>> /\ queue' = Tail(queue) /\ pc = "pop" /\ pc' = "post"
      BY <1>10 DEF PopMatch, Goto
    <2>2. /\ Len(queue') = Len(queue) - 1
          /\ \A i \in 1..Len(queue') : i + 1 \in 1..Len(queue) /\ queue'[i] = queue[i + 1]
      BY <1>0, <2>1, Popped
    <2>3. QueueOldestFirst'
      BY <1>0, <2>1, PoppedInOrder, QueueInOrder DEF OrderInv
    <2>4. thread_matches' = <<>> /\ matches' = {}
      BY <2>1 DEF index, OrderInv, StacksEmpty
    <2> QED
      BY <2>1, <2>3, <2>4 DEF OrderInv, OneThreadRead, MatchesUnread, QueueOfBoardsRead, StacksEmpty
  <1> QED
    BY <1>2, <1>3, <1>4, <1>5, <1>6, <1>7, <1>8, <1>9, <1>10, IndexStays

(* The order of the stacks holds in every history.                         *)
LEMMA OrderInvariant == Spec => []OrderInv
PROOF BY OrderInit, OrderStep, Typing, PTL DEF Spec

(* Two stacks undo each other: of two queued posts of a thread, the one    *)
(* posted first is downloaded first.                                       *)
THEOREM DownloadsOldestFirst == Spec => []QueueOldestFirst
PROOF
  <1>1. OrderInv => QueueOldestFirst
    BY DEF OrderInv
  <1> QED
    BY <1>1, OrderInvariant, PTL

(***************************************************************************)
(* The oldest post of a webm becomes its original, while nothing fails.    *)
(* A post is passed over only when something is shown at its path already, *)
(* so a post in hand has none behind it that waits; and then the row its   *)
(* hash leads to is not of a younger post of its thread.  One post is not  *)
(* listed twice: its number is unique on its board.                        *)
(***************************************************************************)
ListedOnce ==
    \A t \in Thread : \A i, j \in 1..Len(Listing[t]) : Listing[t][i] = Listing[t][j] => i = j

Listed(p) == \E i \in 1..Len(Listing[ThreadOf[p]]) : Listing[ThreadOf[p]][i] = p

FromListings ==
    /\ \A r \in webms \cup aliases : r.path = PathOf(r.post) /\ Listed(r.post)
    /\ \A i \in 1..Len(queue) : Listed(queue[i])
    /\ match # None => Listed(match)

Handled(q) == View[PathOf(q)] # {} \/ (pc = "symlink" /\ PathOf(q) = PathOf(match))

RowsInTurn ==
    \A r \in webms : \A q \in WebmPost : PostedBefore(q, r.post) => Handled(q)

HandInTurn ==
    match # None => \A q \in WebmPost : PostedBefore(q, match) => Handled(q)

(* q is worked on before queue[i] is.                                      *)
Awaited(q, i) ==
    \/ match = q
    \/ \E j \in 1..(i - 1) : queue[j] = q
    \/ \E k \in 1..Len(thread_matches) : thread_matches[k] = q

QueueInTurn ==
    \A i \in 1..Len(queue) : \A q \in WebmPost :
        PostedBefore(q, queue[i]) => Handled(q) \/ Awaited(q, i)

NoYoungerRow ==
    pc \in {"fetch", "record", "alias"} => \A r \in webms : ~PostedBefore(match, r.post)

OriginalsOlder ==
    \A r \in webms : \A a \in aliases :
        r.hash = a.hash /\ ThreadOf[r.post] = ThreadOf[a.post] => PostedBefore(r.post, a.post)

InTurn == RowsInTurn /\ HandInTurn /\ QueueInTurn /\ NoYoungerRow /\ OriginalsOlder

CalmInTurn == faults = MaxFaults => InTurn

(* Without a fault no path is out of repair, and the post in hand is on    *)
(* course.                                                                 *)
LEMMA CostInvNoFault ==
    ASSUME CostInv, faults = MaxFaults
    PROVE  Disrepair = {} /\ (match # None => OnCourse)
PROOF
  <1>1. IsFiniteSet(Disrepair) /\ Cardinality(Disrepair) \in Nat /\ MaxFaults - faults = 0
    BY FS_CardinalityType DEF CostInv
  <1>2. Cardinality(Disrepair) = 0
    BY <1>1 DEF CostInv
  <1> QED
    BY <1>1, <1>2, FS_EmptySet DEF CostInv

(* What a step does to the queue.                                          *)
LEMMA QueueMoves ==
    ASSUME TypeOK, [Next]_vars
    PROVE  \/ IndexPost \/ PopMatch
           \/ queue' = <<>>
           \/ UNCHANGED queue /\ (UNCHANGED thread_matches \/ thread_matches = <<>>)
PROOF
  <1>1. CASE StartCycle \/ (\E b \in Board : ReadCatalog(b)) \/ (\E t \in Thread : ReadThread(t)) \/ IndexDone \/ Die
    BY <1>1 DEF StartCycle, ReadCatalog, ReadThread, IndexDone, Die, index
  <1>2. CASE UNCHANGED <<index, queue>>
    BY <1>2 DEF index
  <1> QED
    BY <1>1, <1>2, IndexStays

(* After a push, and after a pop.                                          *)
LEMMA PushedAt ==
    ASSUME NEW s \in Seq(Post), NEW p \in Post, NEW u, u = <<p>> \o s
    PROVE  /\ Len(s) \in Nat /\ Len(u) = Len(s) + 1 /\ u[1] = p
           /\ \A i \in 1..Len(s) : i + 1 \in 1..Len(u) /\ u[i + 1] = s[i]
           /\ \A i \in 1..Len(u) : i = 1 \/ (i - 1 \in 1..Len(s) /\ u[i] = s[i - 1])
PROOF
  <1>1. Len(s) \in Nat /\ Len(u) = Len(s) + 1 /\ u[1] = p /\ \A i \in 1..Len(s) : u[i + 1] = s[i]
    BY Pushed
  <1>2. ASSUME NEW i \in 1..Len(u), i # 1 PROVE i - 1 \in 1..Len(s) /\ u[i] = s[i - 1]
    <2>1. i - 1 \in 1..Len(s) /\ (i - 1) + 1 = i
      BY <1>1, <1>2
    <2> QED
      BY <1>1, <2>1
  <1>3. \A i \in 1..Len(s) : i + 1 \in 1..Len(u)
    BY <1>1
  <1> QED
    BY <1>1, <1>2, <1>3

(* What a step takes in hand, queues or records is a post of the listing   *)
(* of its thread.                                                          *)
LEMMA ListingsStep == TypeOK /\ OrderInv /\ FromListings /\ [Next]_vars => FromListings'
PROOF
  <1> SUFFICES ASSUME TypeOK, OrderInv, FromListings, [Next]_vars PROVE FromListings'
    OBVIOUS
  <1>0. queue \in Seq(Post) /\ thread_matches \in Seq(Post)
    BY DEF TypeOK, LocalsTyped
  <1>1. match \in Post => match # None /\ Listed(match)
    BY DEF FromListings
  <1>2. \A r \in webms' \cup aliases' : r.path = PathOf(r.post) /\ Listed(r.post)
    <2> TAKE r \in webms' \cup aliases'
    <2>1. CASE r \in webms \cup aliases
      BY <2>1 DEF FromListings
    <2>2. CASE r \notin webms \cup aliases
      <3>1. match \in Post /\ \E h : r = [hash |-> h, path |-> PathOf(match), post |-> match]
        BY <2>2, RowsMove DEF AddWebm, AddAlias
      <3> QED
        BY <1>1, <3>1
    <2> QED
      BY <2>1, <2>2
  <1>3. ASSUME IndexPost PROVE \A i \in 1..Len(queue') : Listed(queue'[i])
    <2> DEFINE p == Head(thread_matches)
    <2>1. thread_matches # <<>> /\ (queue' = queue \/ queue' = <<p>> \o queue)
      BY <1>3 DEF IndexPost
    <2>2. PICK t \in Thread, k \in Nat : ReadingUpTo(t, k)
      BY <2>1 DEF OrderInv, OneThreadRead
    <2>3. p \in Post /\ Listed(p)
      <3>1. k \in 1..Len(Listing[t]) /\ p = Listing[t][k] /\ p \in Post /\ ThreadOf[p] = t
        BY <2>1, <2>2, HeadRead
      <3> QED
        BY <3>1 DEF Listed
    <2> HIDE DEF p
    <2>4. CASE queue' = queue
      BY <2>4 DEF FromListings
    <2>5. CASE queue' = <<p>> \o queue
      <3>1. /\ queue'[1] = p
            /\ \A i \in 1..Len(queue') : i = 1 \/ (i - 1 \in 1..Len(queue) /\ queue'[i] = queue[i - 1])
        BY <1>0, <2>3, <2>5, PushedAt
      <3> TAKE i \in 1..Len(queue')
      <3>2. CASE i = 1
        BY <2>3, <3>1, <3>2
      <3>3. CASE i - 1 \in 1..Len(queue) /\ queue'[i] = queue[i - 1]
        BY <3>3 DEF FromListings
      <3> QED
        BY <3>1, <3>2, <3>3
    <2> QED
      BY <2>1, <2>4, <2>5
  <1>4. ASSUME PopMatch PROVE Listed(match') /\ \A i \in 1..Len(queue') : Listed(queue'[i])
    <2>1. queue # <<>> /\ queue' = Tail(queue) /\ match' = Head(queue)
      BY <1>4 DEF PopMatch
    <2>2. /\ Len(queue) \in Nat \ {0} /\ Head(queue) = queue[1]
          /\ \A i \in 1..Len(Tail(queue)) : i + 1 \in 1..Len(queue) /\ Tail(queue)[i] = queue[i + 1]
      BY <1>0, <2>1, Popped
    <2>3. 1 \in 1..Len(queue)
      BY <2>2
    <2>4. Listed(queue[1]) /\ \A i \in 1..Len(Tail(queue)) : Listed(queue[i + 1])
      BY <2>2, <2>3 DEF FromListings
    <2> QED
      BY <2>1, <2>2, <2>4
  <1>5. \A i \in 1..Len(queue') : Listed(queue'[i])
    <2>1. CASE queue' = <<>>
      <3>1. 1..Len(queue') = {}
        BY <2>1
      <3> QED
        BY <3>1
    <2>2. CASE UNCHANGED queue
      BY <2>2 DEF FromListings
    <2> QED
      BY <1>3, <1>4, <2>1, <2>2, QueueMoves
  <1>6. match' # None => Listed(match')
    <2>1. CASE match = None
      BY <1>4, <2>1, MatchPicked
    <2>2. CASE match # None
      BY <1>1, <2>2, HandKept
    <2> QED
      BY <2>1, <2>2
  <1>7. \A r \in webms' \cup aliases' : r.path = PathOf(r.post)' /\ Listed(r.post)'
    BY <1>2 DEF PathOf, Listed
  <1> QED
    BY <1>5, <1>6, <1>7 DEF FromListings, Listed

(* Every post in hand, queued or recorded is a post of a listing.          *)
LEMMA ListingsInvariant == Spec => []FromListings
PROOF
  <1>1. Init => FromListings
    <2> SUFFICES ASSUME Init PROVE FromListings
      OBVIOUS
    <2>1. webms = {} /\ aliases = {} /\ match = None /\ queue = <<>>
      BY DEF Init
    <2>2. 1..Len(queue) = {}
      BY <2>1
    <2> QED
      BY <2>1, <2>2 DEF FromListings
  <1> QED
    BY <1>1, ListingsStep, OrderInvariant, Typing, PTL DEF Spec

(* What is handled stays so while nothing fails: what is shown is taken    *)
(* away only to be shown again through a link.                             *)
LEMMA HandledStays ==
    ASSUME Files, Files', [Next]_vars, ~Fault
    PROVE  \A q \in Post : Handled(q) => Handled(q)'
PROOF
  <1> TAKE q \in Post
  <1>1. PathOf(q) \in Path /\ PathOf(q)' = PathOf(q)
    BY PathOfPost DEF PathOf
  <1>2. PICK f : f = PathOf(q)
    OBVIOUS
  <1>3. CASE Unlink
    <2>1. pc = "link" /\ pc' = "symlink" /\ match' = match
      BY <1>3 DEF Unlink, Goto
    <2>2. PathOf(match)' = PathOf(match)
      BY <2>1 DEF PathOf
    <2>3. \A g \in Path : g # PathOf(match) => View'[g] = View[g]
      BY <1>3, ViewMoves, NoFaultNoError
    <2> QED
      BY <1>1, <1>2, <2>1, <2>2, <2>3 DEF Handled
  <1>4. CASE Symlink
    <2>1. /\ \A g \in Path : g # PathOf(match) => View'[g] = View[g]
          /\ View'[PathOf(match)] = {ImageOf[match]}
      <3>1. ~FetchImage /\ ~Unlink
        BY <1>4 DEF FetchImage, Unlink, Symlink
      <3> QED
        BY <1>4, <3>1, ViewMoves, NoFaultNoError
    <2> QED
      BY <1>1, <1>2, <2>1 DEF Handled
  <1>5. CASE ~Unlink /\ ~Symlink
    <2>1. View[f] # {} => View'[f] # {}
      BY <1>1, <1>2, <1>5, ViewMoves, NoFaultNoError
    <2>2. pc = "symlink" => pc' = "symlink" /\ match' = match
      BY <1>5 DEF Next, NewPost, Scraper, Indexing, Downloading, Recording, StartCycle, ReadCatalog, ReadThread,
          IndexPost, IndexDone, PopMatch, CycleDone, SaveThread, InsertPost, SkipDownload, WillDownload, OpenImage,
          ThumbFails, FetchImage, FetchFails, InsertWebm, NotRecorded, FoundItself, FoundOriginal, InsertAlias,
          KeepAliases, RefuseLink, Crash, Restart, vars, work
    <2>3. pc = "symlink" => PathOf(match)' = PathOf(match)
      BY <2>2 DEF PathOf
    <2> QED
      BY <1>1, <1>2, <2>1, <2>2, <2>3 DEF Handled
  <1> QED
    BY <1>3, <1>4, <1>5

(* An iteration that nothing disturbs ends with its webm shown.            *)
LEMMA HandDone ==
    ASSUME Files, Files', [Next]_vars, ~Fault, match # None, match' = None, match \in WebmPost
    PROVE  Handled(match)
PROOF
  <1>1. pc' \in {"sleep", "index", "pop", "down"} /\ match \in Post /\ pc \notin {"sleep", "index", "pop", "down"}
    BY HandKept DEF Files
  <1>2. CASE pc = "symlink"
    BY <1>2 DEF Handled
  <1>3. CASE pc \in {"record", "alias", "link"}
    BY <1>3, ViewInHand DEF Handled
  <1>4. CASE SkipDownload
    <2>1. AlreadyOnDisk(match)
      BY <1>4 DEF SkipDownload
    <2> QED
      BY <1>1, <2>1, OnDiskIsShown DEF Handled
  <1>5. CASE SaveThread \/ InsertPost \/ OpenImage \/ FetchImage
    BY <1>1, <1>5 DEF SaveThread, InsertPost, OpenImage, FetchImage, Goto
  <1>6. CASE ThumbFails \/ FetchFails \/ Crash
    BY <1>6 DEF ThumbFails, FetchFails, Crash
  <1>7. CASE (\E t \in Thread : NewPost(t)) \/ UNCHANGED vars
    BY <1>7 DEF NewPost, vars, work
  <1>8. CASE Recording
    BY <1>2, <1>3, <1>8 DEF Recording, InsertWebm, NotRecorded, FoundItself, FoundOriginal, InsertAlias,
        KeepAliases, RefuseLink, Unlink, Symlink
  <1>9. CASE Indexing \/ PopMatch \/ CycleDone \/ Restart
    BY <1>1, <1>9 DEF Indexing, StartCycle, ReadCatalog, ReadThread, IndexPost, IndexDone, PopMatch, CycleDone,
        Restart
  <1> QED
    BY <1>2, <1>3, <1>4, <1>5, <1>6, <1>7, <1>8, <1>9 DEF Next, Scraper, Downloading

(* A row is inserted for the post in hand, whose elders are stored or      *)
(* waiting.                                                                *)
LEMMA RowsStayInTurn ==
    ASSUME Files, Files', [Next]_vars, ~Fault, InTurn
    PROVE  RowsInTurn'
PROOF
  <1> SUFFICES ASSUME NEW r \in webms', NEW q \in WebmPost, PostedBefore(q, r.post) PROVE Handled(q)'
    BY DEF RowsInTurn, PostedBefore
  <1>1. q \in Post /\ TypeOK
    BY DEF Files
  <1>2. CASE r \in webms
    BY <1>1, <1>2, HandledStays DEF InTurn, RowsInTurn
  <1>3. CASE r \notin webms
    <2>1. match \in Post /\ r.post = match
      <3>1. match \in Post /\ \E h : r = [hash |-> h, path |-> PathOf(match), post |-> match]
        BY <1>1, <1>3, RowsMove DEF AddWebm
      <3> QED
        BY <3>1
    <2> QED
      BY <1>1, <2>1, HandledStays DEF InTurn, HandInTurn
  <1> QED
    BY <1>2, <1>3

(* The post taken in hand was the top of the queue, with its elders stored *)
(* or waiting.                                                             *)
LEMMA HandStaysInTurn ==
    ASSUME Files, Files', OrderInv, [Next]_vars, ~Fault, InTurn
    PROVE  HandInTurn'
PROOF
  <1> SUFFICES ASSUME match' # None, NEW q \in WebmPost, PostedBefore(q, match') PROVE Handled(q)'
    BY DEF HandInTurn, PostedBefore
  <1>1. q \in Post /\ TypeOK
    BY DEF Files
  <1>2. CASE match # None
    <2>1. match' = match
      BY <1>1, <1>2, HandKept
    <2> QED
      BY <1>1, <1>2, <2>1, HandledStays DEF InTurn, HandInTurn
  <1>3. CASE match = None
    <2>1. pc = "pop" /\ queue # <<>> /\ match' = Head(queue)
      BY <1>3, MatchPicked DEF PopMatch
    <2>2. queue \in Seq(Post) /\ thread_matches = <<>>
      BY <1>1, <2>1 DEF TypeOK, LocalsTyped, OrderInv, StacksEmpty
    <2>3. 1 \in 1..Len(queue) /\ match' = queue[1]
      BY <2>1, <2>2, Popped
    <2>4. ~Awaited(q, 1)
      <3>1. 1..(1 - 1) = {} /\ 1..Len(thread_matches) = {}
        BY <2>2
      <3> QED
        BY <1>1, <1>3, <3>1 DEF Awaited
    <2>5. Handled(q)
      BY <2>3, <2>4 DEF InTurn, QueueInTurn
    <2> QED
      BY <1>1, <2>5, HandledStays
  <1> QED
    BY <1>2, <1>3

(* No row for the hash of the post in hand becomes one of a younger post.  *)
LEMMA NoYoungerRowStays ==
    ASSUME Files, Files', [Next]_vars, ~Fault, InTurn
    PROVE  NoYoungerRow'
PROOF
  <1> SUFFICES ASSUME pc' \in {"fetch", "record", "alias"}, NEW r \in webms', PostedBefore(match', r.post)
               PROVE  FALSE
    BY DEF NoYoungerRow, PostedBefore
  <1>1. match' = match /\ (pc \in Downloaded \/ OpenImage)
    BY HandStays DEF Downloaded
  <1>2. webms' = webms
    BY RowsMove DEF Files, InsertWebm, NextPost, Goto
  <1>3. CASE OpenImage
    <2>1. match \in WebmPost /\ match \in Post /\ ~AlreadyOnDisk(match) /\ pc = "download"
      BY <1>3 DEF OpenImage, WillDownload
    <2>2. ~Handled(match)
      BY <2>1, OnDiskIsShown DEF Handled
    <2> QED
      BY <1>1, <1>2, <2>1, <2>2 DEF InTurn, RowsInTurn
  <1>4. CASE pc \in {"fetch", "record", "alias"}
    BY <1>1, <1>2, <1>4 DEF InTurn, NoYoungerRow
  <1>5. CASE pc \in {"link", "symlink"}
    BY <1>5 DEF Next, NewPost, Scraper, Indexing, Downloading, Recording, StartCycle, ReadCatalog, ReadThread,
        IndexPost, IndexDone, PopMatch, CycleDone, SaveThread, InsertPost, SkipDownload, WillDownload, OpenImage,
        ThumbFails, FetchImage, FetchFails, InsertWebm, NotRecorded, FoundItself, FoundOriginal, InsertAlias,
        KeepAliases, RefuseLink, Unlink, Symlink, Crash, Restart, vars, NextPost, Die, Goto
  <1> QED
    BY <1>1, <1>3, <1>4, <1>5 DEF Downloaded

(* Two posts of one thread were posted one before the other.               *)
LEMMA PostedInTurn ==
    ASSUME NEW p \in Post, NEW q \in Post, Listed(p), Listed(q), ThreadOf[p] = ThreadOf[q], p # q
    PROVE  PostedBefore(p, q) \/ PostedBefore(q, p)
PROOF
  <1> DEFINE s == Listing[ThreadOf[p]]
  <1>1. PICK i \in 1..Len(s) : s[i] = p
    BY DEF Listed
  <1>2. PICK j \in 1..Len(s) : s[j] = q
    BY DEF Listed
  <1>3. Len(s) \in Nat /\ s = Listing[ThreadOf[q]]
    BY LenProperties
  <1> HIDE DEF s
  <1>4. i < j \/ j < i
    BY <1>1, <1>2, <1>3
  <1> QED
    BY <1>1, <1>2, <1>3, <1>4 DEF PostedBefore, s

(* A new alias is of a younger post than the row it is an alias of.        *)
LEMMA OriginalsStayOlder ==
    ASSUME Files, Files', AliasOfOriginal, FromListings, [Next]_vars, InTurn
    PROVE  OriginalsOlder'
PROOF
  <1> SUFFICES ASSUME NEW r \in webms', NEW a \in aliases', r.hash = a.hash, ThreadOf[r.post] = ThreadOf[a.post]
               PROVE  PostedBefore(r.post, a.post)
    BY DEF OriginalsOlder, PostedBefore
  <1>1. TypeOK /\ OldWebmElsewhere /\ OneRowPerHash /\ webms \subseteq Row /\ aliases \subseteq Row
    BY DEF Files, TypeOK, DurableTyped
  <1>2. CASE r \in webms /\ a \in aliases
    BY <1>2 DEF InTurn, OriginalsOlder
  <1>3. CASE r \notin webms
    <2>1. PICK h : InsertWebm /\ AddWebm(h, match)
      BY <1>1, <1>3, RowsMove
    <2>2. UNCHANGED aliases /\ pc = "record"
      BY <2>1 DEF InsertWebm
    <2>3. RowsWithHash(ImageOf[match]) = {} /\ AddWebm(ImageOf[match], match)
      BY <2>1, <2>2, ViewInHand DEF InsertWebm
    <2>4. r.hash = ImageOf[match]
      BY <1>3, <2>3 DEF AddWebm
    <2> QED
      BY <2>2, <2>3, <2>4 DEF AliasOfOriginal, RowsWithHash
  <1>4. CASE a \notin aliases
    <2>1. InsertAlias /\ AddAlias(old_webm.hash, match) /\ match \in Post
      BY <1>1, <1>4, RowsMove
    <2>2. UNCHANGED webms /\ pc = "alias" /\ a.hash = old_webm.hash /\ a.post = match
      BY <1>4, <2>1 DEF InsertAlias, AddAlias
    <2>3. r = old_webm /\ r \in webms /\ r.path # PathOf(match) /\ r.post \in Post
      BY <1>1, <2>2 DEF OldWebmElsewhere, OneRowPerHash, Row
    <2>4. Listed(r.post) /\ Listed(match) /\ r.post # match
      BY <2>1, <2>3 DEF FromListings
    <2>5. ~PostedBefore(match, r.post)
      BY <2>2, <2>3 DEF InTurn, NoYoungerRow
    <2> QED
      BY <2>1, <2>2, <2>3, <2>4, <2>5, PostedInTurn
  <1> QED
    BY <1>2, <1>3, <1>4

(* A post looked at and not queued is shown: its file is on disk, or its   *)
(* path is that of an alias, which nothing put out of repair.              *)
LEMMA NotQueued ==
    ASSUME Files, CostInv, faults = MaxFaults, IndexPost, ~Fault,
           Head(thread_matches) \in Post
    PROVE  queue' = <<Head(thread_matches)>> \o queue \/ Handled(Head(thread_matches))
PROOF
  <1> DEFINE p == Head(thread_matches)
  <1>1. queue' = <<p>> \o queue \/ AlreadyOnDisk(p) \/ AliasRowsAt(PathOf(p)) # {}
    BY DEF IndexPost
  <1>2. AlreadyOnDisk(p) => Handled(p)
    BY OnDiskIsShown DEF Handled
  <1>3. ASSUME NEW a \in AliasRowsAt(PathOf(p)) PROVE Handled(p)
    <2>1. pc = "index" /\ match = None /\ PathOf(p) \in Path
      BY PathOfPost DEF IndexPost, Files, TypeOK, LocalsTyped
    <2>2. ~InDisrepair(PathOf(p))
      BY <2>1, CostInvNoFault DEF Disrepair
    <2>3. View[PathOf(p)] = {a.hash}
      BY <1>3, <2>2 DEF InDisrepair, AliasRowsAt
    <2> QED
      BY <2>3 DEF Handled
  <1> QED
    BY <1>1, <1>2, <1>3

(* A post is queued after its elders: they are stored, queued or among the *)
(* matches.                                                                *)
LEMMA QueueInTurnPost ==
    ASSUME ListedOnce, Files, Files', CostInv, OrderInv, faults = MaxFaults, IndexPost, ~Fault,
           [Next]_vars, InTurn
    PROVE  QueueInTurn'
PROOF
  <1> DEFINE p == Head(thread_matches)
  <1>0. queue \in Seq(Post) /\ thread_matches \in Seq(Post) /\ TypeOK
    BY DEF Files, TypeOK, LocalsTyped
  <1>1. /\ thread_matches # <<>> /\ thread_matches' = Tail(thread_matches)
        /\ match' = match /\ match = None
        /\ queue' = queue \/ queue' = <<p>> \o queue
    BY <1>0 DEF IndexPost, work, TypeOK, LocalsTyped
  <1>2. PICK t \in Thread, k \in Nat : ReadingUpTo(t, k)
    BY <1>1 DEF OrderInv, OneThreadRead
  <1>3. /\ Len(Tail(thread_matches)) = k - 1 /\ k \in 1..Len(Listing[t]) /\ Len(Listing[t]) \in Nat
        /\ p = Listing[t][k] /\ p \in Post /\ ThreadOf[p] = t
        /\ \A i \in 1..(k - 1) : Tail(thread_matches)[i] = Listing[t][k - i]
    BY <1>0, <1>1, <1>2, HeadRead
  <1>4. \A q \in Post : Handled(q) => Handled(q)'
    BY HandledStays
  <1>5. /\ Len(thread_matches) \in Nat \ {0} /\ p = thread_matches[1]
        /\ Len(thread_matches') = Len(thread_matches) - 1
        /\ \A i \in 1..Len(thread_matches') : thread_matches'[i] = thread_matches[i + 1]
    BY <1>0, <1>1, Popped
  <1>6. queue' = <<p>> \o queue \/ Handled(p)
    BY <1>3, NotQueued
  <1> HIDE DEF p
  (* Of the posts still in the thread's stack.                             *)
  <1>7. ASSUME NEW q, NEW n \in 1..Len(thread_matches), thread_matches[n] = q
        PROVE  q = p \/ \E m \in 1..Len(thread_matches') : thread_matches'[m] = q
    <2>1. CASE n = 1
      BY <1>5, <1>7, <2>1
    <2>2. CASE n # 1
      <3>1. n - 1 \in 1..Len(thread_matches') /\ (n - 1) + 1 = n
        BY <1>5, <2>2
      <3> QED
        BY <1>5, <1>7, <3>1
    <2> QED
      BY <2>1, <2>2
  (* Of a post queued before, in its place d further down the queue.       *)
  <1>8. ASSUME NEW i \in 1..Len(queue), NEW d \in {0, 1}, NEW q \in WebmPost, PostedBefore(q, queue[i]),
               \A j \in 1..(i - 1) : queue'[j + d] = queue[j],
               d = 1 => queue'[1] = p,
               d = 0 => Handled(p)
        PROVE  Handled(q)' \/ Awaited(q, i + d)'
    <2>0. i \in Nat /\ i >= 1
      BY <1>0, LenProperties
    <2>1. q \in Post /\ q # None
      OBVIOUS
    <2>2. CASE Handled(q)
      BY <1>4, <2>1, <2>2
    <2>3. ASSUME NEW j \in 1..(i - 1), queue[j] = q PROVE Awaited(q, i + d)'
      <3>1. j + d \in 1..((i + d) - 1) /\ queue'[j + d] = q
        BY <1>8, <2>0, <2>3
      <3> QED
        BY <3>1 DEF Awaited
    <2>4. ASSUME NEW n \in 1..Len(thread_matches), thread_matches[n] = q
          PROVE  Handled(q)' \/ Awaited(q, i + d)'
      <3>1. CASE q = p /\ d = 1
        <4>1. 1 \in 1..((i + d) - 1)
          BY <2>0, <3>1
        <4> QED
          BY <1>8, <3>1, <4>1 DEF Awaited
      <3>2. CASE q = p /\ d = 0
        BY <1>4, <1>8, <2>1, <3>2
      <3>3. CASE \E m \in 1..Len(thread_matches') : thread_matches'[m] = q
        BY <3>3 DEF Awaited
      <3> QED
        BY <1>7, <2>4, <3>1, <3>2, <3>3
    <2>5. Handled(q) \/ Awaited(q, i)
      BY <1>8 DEF InTurn, QueueInTurn
    <2> QED
      BY <1>1, <2>1, <2>2, <2>3, <2>4, <2>5 DEF Awaited
  (* Of the post queued now: those before it are in the stack.             *)
  <1>9. ASSUME NEW q \in WebmPost, PostedBefore(q, p)
        PROVE  \E m \in 1..Len(thread_matches') : thread_matches'[m] = q
    <2>1. PICK i, j \in 1..Len(Listing[ThreadOf[q]]) :
              i < j /\ Listing[ThreadOf[q]][i] = q /\ Listing[ThreadOf[q]][j] = p
      BY <1>9 DEF PostedBefore
    <2>2. ThreadOf[q] \in Thread /\ ThreadOf[p] = ThreadOf[q]
      BY <2>1
    <2>3. j = k
      BY <1>3, <2>1, <2>2 DEF ListedOnce
    <2>4. k - i \in 1..(k - 1) /\ k - (k - i) = i
      BY <1>3, <2>1, <2>2, <2>3
    <2>5. thread_matches'[k - i] = q
      <3>1. thread_matches'[k - i] = Listing[t][k - (k - i)]
        BY <1>1, <1>3, <2>4
      <3>2. ThreadOf[q] = t
        BY <1>3, <2>2
      <3> QED
        BY <2>1, <2>4, <3>1, <3>2
    <2> QED
      BY <1>1, <1>3, <2>4, <2>5
  <1> SUFFICES ASSUME NEW i \in 1..Len(queue'), NEW q \in WebmPost, PostedBefore(q, queue'[i])
               PROVE  Handled(q)' \/ Awaited(q, i)'
    BY DEF QueueInTurn, PostedBefore
  <1>10. CASE queue' = <<p>> \o queue
    <2>1. /\ Len(queue) \in Nat /\ Len(queue') = Len(queue) + 1 /\ queue'[1] = p
          /\ \A j \in 1..Len(queue) : queue'[j + 1] = queue[j]
          /\ i = 1 \/ (i - 1 \in 1..Len(queue) /\ queue'[i] = queue[i - 1])
      <3>1. p \in Post /\ queue \in Seq(Post)
        BY <1>0, <1>3
      <3>2. /\ Len(queue) \in Nat /\ Len(queue') = Len(queue) + 1 /\ queue'[1] = p
            /\ \A j \in 1..Len(queue) : queue'[j + 1] = queue[j]
        BY <1>10, <3>1, PushedAt
      <3>3. \A j \in 1..Len(queue') : j = 1 \/ (j - 1 \in 1..Len(queue) /\ queue'[j] = queue[j - 1])
        BY <1>10, <3>1, PushedAt
      <3> QED
        BY <3>2, <3>3
    <2>2. CASE i = 1
      BY <1>9, <2>1, <2>2 DEF Awaited
    <2>3. CASE i - 1 \in 1..Len(queue) /\ queue'[i] = queue[i - 1]
      <3>1. \A j \in 1..((i - 1) - 1) : queue'[j + 1] = queue[j]
        <4> TAKE j \in 1..((i - 1) - 1)
        <4>1. j \in 1..Len(queue)
          BY <2>1, <2>3
        <4> QED
          BY <2>1, <4>1
      <3>2. PICK n \in 1..Len(queue) : n = i - 1
        BY <2>3
      <3>3. n + 1 = i
        BY <2>1, <3>2
      <3>4. /\ PostedBefore(q, queue[n]) /\ queue'[1] = p
            /\ \A j \in 1..(n - 1) : queue'[j + 1] = queue[j]
        BY <2>1, <2>3, <3>1, <3>2
      <3>5. Handled(q)' \/ Awaited(q, n + 1)'
        <4> DEFINE d == 1
        <4>1. d \in {0, 1} /\ d # 0 /\ n + d = n + 1
          OBVIOUS
        <4>2. \A j \in 1..(n - 1) : queue'[j + d] = queue[j]
          BY <3>4
        <4> HIDE DEF d
        <4>3. Handled(q)' \/ Awaited(q, n + d)'
          BY <1>8, <3>4, <4>1, <4>2
        <4> QED
          BY <4>1, <4>3
      <3> QED
        BY <3>3, <3>5
    <2> QED
      BY <2>1, <2>2, <2>3
  <1>11. CASE queue' = queue /\ Handled(p)
    <2>1. i \in 1..Len(queue) /\ i \in Nat
      BY <1>0, <1>11, LenProperties
    <2>2. \A j \in 1..(i - 1) : queue'[j + 0] = queue[j]
      BY <1>11, <2>1
    <2>3. Handled(q)' \/ Awaited(q, i + 0)'
      BY <1>8, <1>11, <2>1, <2>2
    <2> QED
      BY <2>1, <2>3
  <1> QED
    BY <1>1, <1>6, <1>10, <1>11

(* No other step makes a queued post overtake its elders.                  *)
LEMMA QueueStaysInTurn ==
    ASSUME ListedOnce, Files, Files', CostInv, OrderInv, faults = MaxFaults, ~Fault,
           [Next]_vars, InTurn
    PROVE  QueueInTurn'
PROOF
  <1>0. queue \in Seq(Post) /\ TypeOK
    BY DEF Files, TypeOK, LocalsTyped
  <1>1. \A q \in Post : Handled(q) => Handled(q)'
    BY HandledStays
  <1>2. CASE IndexPost
    BY <1>2, QueueInTurnPost
  <1>3. CASE PopMatch
    <2>1. /\ pc = "pop" /\ queue # <<>> /\ match' = Head(queue) /\ queue' = Tail(queue) /\ match = None
      BY <1>0, <1>3 DEF PopMatch, TypeOK, LocalsTyped
    <2>2. /\ Len(queue) \in Nat \ {0} /\ Len(queue') = Len(queue) - 1 /\ match' = queue[1]
          /\ \A i \in 1..Len(queue') : i + 1 \in 1..Len(queue) /\ queue'[i] = queue[i + 1]
      BY <1>0, <2>1, Popped
    <2>3. 1..Len(thread_matches) = {}
      <3>1. thread_matches = <<>>
        BY <2>1 DEF OrderInv, StacksEmpty
      <3> QED
        BY <3>1
    <2> SUFFICES ASSUME NEW i \in 1..Len(queue'), NEW q \in WebmPost, PostedBefore(q, queue'[i])
                 PROVE  Handled(q)' \/ Awaited(q, i)'
      BY DEF QueueInTurn, PostedBefore
    <2>4. q \in Post /\ q # None /\ i \in Nat
      BY <2>2
    <2>5. PICK n \in 1..Len(queue) : n = i + 1 /\ queue'[i] = queue[n]
      BY <2>2
    <2>6. Handled(q) \/ Awaited(q, n)
      BY <2>5 DEF InTurn, QueueInTurn
    <2>7. ASSUME NEW j \in 1..(n - 1), queue[j] = q PROVE Awaited(q, i)'
      <3>1. CASE j = 1
        BY <2>2, <2>7, <3>1 DEF Awaited
      <3>2. CASE j # 1
        <4>1. j - 1 \in 1..(i - 1) /\ j - 1 \in 1..Len(queue') /\ (j - 1) + 1 = j
          BY <2>2, <2>4, <2>5, <3>2
        <4>2. queue'[j - 1] = q
          BY <2>2, <2>7, <4>1
        <4> QED
          BY <4>1, <4>2 DEF Awaited
      <3> QED
        BY <3>1, <3>2
    <2> QED
      BY <1>1, <2>1, <2>3, <2>4, <2>6, <2>7 DEF Awaited
  <1>4. CASE queue' = <<>>
    <2>1. 1..Len(queue') = {}
      BY <1>4
    <2> QED
      BY <2>1 DEF QueueInTurn
  <1>5. CASE ~PopMatch /\ UNCHANGED queue /\ (UNCHANGED thread_matches \/ thread_matches = <<>>)
    <2> SUFFICES ASSUME NEW i \in 1..Len(queue), NEW q \in WebmPost, PostedBefore(q, queue[i])
                 PROVE  Handled(q)' \/ Awaited(q, i)'
      BY <1>5 DEF QueueInTurn, PostedBefore
    <2>1. q \in Post /\ q # None
      OBVIOUS
    <2>2. Handled(q) \/ Awaited(q, i)
      BY DEF InTurn, QueueInTurn
    <2>3. CASE Handled(q)
      BY <1>1, <2>1, <2>3
    <2>4. CASE match = q
      <3>1. match' = match \/ match' = None
        BY <1>0, <2>1, <2>4, HandKept
      <3>2. match' = None => Handled(q)
        BY <2>1, <2>4, HandDone
      <3> QED
        BY <1>1, <2>1, <2>4, <3>1, <3>2 DEF Awaited
    <2>5. CASE \E j \in 1..(i - 1) : queue[j] = q
      BY <1>5, <2>5 DEF Awaited
    <2>6. CASE \E k \in 1..Len(thread_matches) : thread_matches[k] = q
      <3>1. thread_matches # <<>>
        BY <2>6
      <3> QED
        BY <1>5, <2>6, <3>1 DEF Awaited
    <2> QED
      BY <2>2, <2>3, <2>4, <2>5, <2>6 DEF Awaited
  <1> QED
    BY <1>0, <1>2, <1>3, <1>4, <1>5, QueueMoves

(* Nothing has failed after a step only if nothing failed in it.           *)
LEMMA StillCalm ==
    ASSUME TypeOK, [Next]_vars, faults' = MaxFaults
    PROVE  faults = MaxFaults /\ ~Fault
PROOF
  <1>1. /\ faults \in 0..MaxFaults /\ faults' \in 0..MaxFaults
        /\ faults' = faults - 1 \/ (faults' = faults /\ ~Fault)
    BY FaultOrNot
  <1> QED
    BY <1>1

(* As long as nothing fails no error body is served either, and files and  *)
(* tables are as where the site has none.                                  *)
CalmFiles == faults = MaxFaults => Files /\ CostInv

(* While nothing fails, files, rows and repair are as they should be.      *)
LEMMA CalmFilesInvariant == Spec => []CalmFiles
PROOF
  <1>1. Init /\ TypeOK /\ OneRowPerHash /\ OldWebmElsewhere => CalmFiles
    BY FilesInit, CostInit DEF CalmFiles, Files
  <1>2. /\ TypeOK /\ TypeOK' /\ OneRowPerHash' /\ OldWebmElsewhere'
        /\ CalmFiles /\ [Next]_vars
        => CalmFiles'
    <2> SUFFICES ASSUME TypeOK, TypeOK', OneRowPerHash', OldWebmElsewhere', CalmFiles, [Next]_vars,
                        faults' = MaxFaults
                 PROVE  (Files /\ CostInv)'
      BY DEF CalmFiles
    <2>1. faults = MaxFaults /\ NoErrorServed
      BY StillCalm, NoFaultNoError
    <2>2. Files /\ CostInv
      BY <2>1 DEF CalmFiles
    <2>3. FilesInv'
      BY <2>1, <2>2, FilesStep DEF Files
    <2>4. Files'
      BY <2>3 DEF Files
    <2> QED
      BY <2>1, <2>2, <2>4, CostStep
  <1> QED
    BY <1>1, <1>2, Typing, AliasesOfOriginals, PTL DEF Spec

(* The order of originals is kept by every step, as long as nothing fails. *)
LEMMA InTurnStep ==
    ASSUME ListedOnce
    PROVE  /\ TypeOK /\ CalmFiles /\ CalmFiles' /\ OrderInv /\ AliasOfOriginal /\ FromListings
           /\ CalmInTurn /\ [Next]_vars
           => CalmInTurn'
PROOF
  <1> SUFFICES ASSUME TypeOK, CalmFiles, CalmFiles', OrderInv, AliasOfOriginal, FromListings, CalmInTurn,
                      [Next]_vars, faults' = MaxFaults
               PROVE  InTurn'
    BY DEF CalmInTurn
  <1>1. faults = MaxFaults /\ ~Fault
    BY StillCalm
  <1>2. InTurn /\ Files /\ Files' /\ CostInv
    BY <1>1 DEF CalmInTurn, CalmFiles
  <1>3. RowsInTurn'
    BY <1>1, <1>2, RowsStayInTurn
  <1>4. HandInTurn'
    BY <1>1, <1>2, HandStaysInTurn
  <1>5. QueueInTurn'
    BY <1>1, <1>2, QueueStaysInTurn
  <1>6. NoYoungerRow'
    BY <1>1, <1>2, NoYoungerRowStays
  <1>7. OriginalsOlder'
    BY <1>2, OriginalsStayOlder
  <1> QED
    BY <1>3, <1>4, <1>5, <1>6, <1>7 DEF InTurn

(* While nothing fails, the original of a webm posted several times in a   *)
(* thread is the first of those posts, in whatever cycles they are found.  *)
THEOREM OldestBecomesOriginal ==
    ASSUME ListedOnce
    PROVE  Spec => []OriginalIsOldest
PROOF
  <1>1. Init => CalmInTurn
    <2> SUFFICES ASSUME Init PROVE CalmInTurn
      OBVIOUS
    <2>1. webms = {} /\ aliases = {} /\ match = None /\ pc = "sleep" /\ queue = <<>>
      BY DEF Init
    <2>2. 1..Len(queue) = {}
      BY <2>1
    <2> QED
      BY <2>1, <2>2 DEF CalmInTurn, InTurn, RowsInTurn, HandInTurn, QueueInTurn, NoYoungerRow, OriginalsOlder
  <1>2. /\ TypeOK /\ CalmFiles /\ CalmFiles' /\ OrderInv /\ AliasOfOriginal /\ FromListings
        /\ CalmInTurn /\ [Next]_vars
        => CalmInTurn'
    BY InTurnStep
  <1>3. CalmInTurn => OriginalIsOldest
    BY DEF CalmInTurn, InTurn, OriginalsOlder, OriginalIsOldest
  <1> QED
    BY <1>1, <1>2, <1>3, Typing, CalmFilesInvariant, OrderInvariant, ListingsInvariant, AliasesOfOriginals, PTL
    DEF Spec
=============================================================================
