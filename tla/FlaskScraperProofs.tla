------------------------- MODULE FlaskScraperProofs -------------------------
(***************************************************************************)
(* Proofs about FlaskScraper, for every site and every number of faults,   *)
(* whatever the spider does beside the downloader.                         *)
(***************************************************************************)
EXTENDS FlaskScraper, SequenceTheorems, TLAPS

USE FlaskAssumption

(* A post's path is a path.                                                *)
LEMMA PathOfPost == \A p \in Post : PathOf(p) \in Path /\ ImageOf[p] \in Image
PROOF BY DEF PathOf, Path

(* What the spider reads of a file has a hash, that of the content if the  *)
(* file is all there and none of the site's otherwise.                     *)
LEMMA HashOfFile ==
    ASSUME files \in [Path -> Content \cup {None}], NEW p \in Path, files[p] # None
    PROVE  /\ HashOf(p) \in Hash
           /\ HashOf(p) \in Image => HashOf(p) = files[p]
           /\ files[p] # Cut => HashOf(p) = files[p]
PROOF BY DEF HashOf, Hash, Content

(* Charging a fault leaves the budget in its range.                        *)
LEMMA FaultsTyped ==
    ASSUME faults \in 0..MaxFaults, Fault \/ NoFault
    PROVE  faults' \in 0..MaxFaults
PROOF BY DEF Fault, NoFault

(***************************************************************************)
(* The rows of webms.  Four actions change them; each adds a row at the    *)
(* end or corrects the hash of one.                                        *)
(***************************************************************************)
SpiderRow == [hash |-> digest, path |-> file_path, post |-> None]
PostRow == [hash |-> ImageOf[post], path |-> PathOf(post), post |-> post]

AddsRow(r) ==
    /\ webms' \in Seq(Row)
    /\ Len(webms') = Len(webms) + 1
    /\ \A i \in 1..Len(webms) : webms'[i] = webms[i]
    /\ webms'[Len(webms) + 1] = r

(* Appending a row adds that row and leaves the others where they are.     *)
LEMMA RowAdded ==
    ASSUME webms \in Seq(Row), NEW r \in Row, webms' = Append(webms, r)
    PROVE  AddsRow(r)
PROOF BY AppendProperties DEF AddsRow

CorrectsRow ==
    /\ webms' \in Seq(Row)
    /\ Len(webms') = Len(webms)
    /\ \A i \in 1..Len(webms) : i # row => webms'[i] = webms[i]
    /\ webms'[row].hash = digest
    /\ webms'[row].path = webms[row].path
    /\ webms'[row].post = webms[row].post

(* Writing a hash into a row leaves its path, its post and the other rows  *)
(* alone.                                                                  *)
LEMMA RowCorrected ==
    ASSUME webms \in Seq(Row), row \in 1..Len(webms), digest \in Hash,
           webms' = [webms EXCEPT ![row].hash = digest]
    PROVE  CorrectsRow
PROOF
  <1> DEFINE r == [webms[row] EXCEPT !.hash = digest]
  <1>1. Len(webms) \in Nat /\ webms \in [1..Len(webms) -> Row]
    BY LenProperties
  <1>0. webms[row] \in Row
    BY <1>1
  <1>2. r \in Row /\ r.hash = digest /\ r.path = webms[row].path /\ r.post = webms[row].post
    BY <1>0 DEF Row
  <1>3. webms' = [webms EXCEPT ![row] = r]
    OBVIOUS
  <1> HIDE DEF r
  <1>4. /\ webms' \in [1..Len(webms) -> Row] /\ webms'[row] = r
        /\ \A j \in 1..Len(webms) : j # row => webms'[j] = webms[j]
    <2>1. webms' \in [1..Len(webms) -> Row]
      BY <1>1, <1>2, <1>3
    <2>2. webms'[row] = r
      BY <1>1, <1>2, <1>3
    <2>3. ASSUME NEW j \in 1..Len(webms), j # row PROVE webms'[j] = webms[j]
      BY <1>1, <1>2, <1>3, <2>3
    <2> QED
      BY <2>1, <2>2, <2>3
  <1>5. webms' \in Seq(Row) /\ Len(webms') = Len(webms)
    BY <1>1, <1>4
  <1> QED
    BY <1>2, <1>4, <1>5 DEF CorrectsRow

(* Files found are there, and stay; what the spider writes has a hash.     *)
FilesRemain ==
    /\ \A p \in found : files[p] # None
    /\ spc \in {"read", "write"} => files[file_path] # None
    /\ spc = "write" => digest \in Hash

Typed == TypeOK /\ FilesRemain

(* A step leaves the rows alone, or one of the actions that do not is      *)
(* taken, with nothing but the rows and the hand of who took it changed.   *)
LEMMA RowsChange ==
    ASSUME Typed, [Next]_vars
    PROVE  \/ UNCHANGED webms
           \/ AdoptFile /\ row = 0 /\ RowsWith(digest) = {} /\ AddsRow(SpiderRow)
           \/ CorrectHash /\ row # 0 /\ RowsWith(digest) \subseteq {row} /\ CorrectsRow
           \/ SaveWebm /\ RowsWith(ImageOf[post]) = {} /\ AddsRow(PostRow) /\ NextPost
PROOF
  <1>1. CASE AdoptFile
    <2>1. SpiderRow \in Row
      BY <1>1 DEF AdoptFile, SpiderRow, Row, Typed, TypeOK, SpiderTyped, FilesRemain
    <2> QED
      BY <1>1, <2>1, RowAdded DEF AdoptFile, SpiderRow, Typed, TypeOK, TablesTyped
  <1>2. CASE CorrectHash
    <2>1. row \in 1..Len(webms) /\ digest \in Hash /\ webms \in Seq(Row) /\ Len(webms) \in Nat
      BY <1>2, LenProperties DEF CorrectHash, Typed, TypeOK, TablesTyped, SpiderTyped, FilesRemain
    <2> QED
      BY <1>2, <2>1, RowCorrected DEF CorrectHash
  <1>3. CASE SaveWebm
    <2>1. PostRow \in Row
      <3>1. post \in Post
        BY <1>3 DEF SaveWebm, Typed, TypeOK, DownloaderTyped
      <3> QED
        BY <3>1, PathOfPost DEF PostRow, Row, Hash
    <2> QED
      BY <1>3, <2>1, RowAdded DEF SaveWebm, PostRow, Typed, TypeOK, TablesTyped
  <1>4. CASE Downloader /\ ~SaveWebm
    BY <1>4 DEF Downloader, StartPass, PassDone, ReadCatalog, ReadThread, SavePost, CheckHash, SkipAlias,
                PickOriginal, InsertAlias, OpenFile, Fetch, Thumbnail, NoThumbnail, tables
  <1>5. CASE Spider /\ ~AdoptFile /\ ~CorrectHash
    BY <1>5 DEF Spider, StartWalk, StopWalk, ListDirectory, LookUpFile, ReadFile, tables
  <1>6. CASE Crash \/ (\E t \in Thread : NewPost(t)) \/ UNCHANGED vars
    BY <1>6 DEF Crash, NewPost, vars, tables
  <1> QED
    BY <1>1, <1>2, <1>3, <1>4, <1>5, <1>6 DEF Next, Downloader, Spider

(* The table of webms never shrinks.                                       *)
LEMMA RowsGrow ==
    ASSUME Typed, [Next]_vars
    PROVE  /\ webms' \in Seq(Row) /\ Len(webms) \in Nat /\ Len(webms') \in Nat
           /\ Len(webms) <= Len(webms')
PROOF
  <1>1. webms \in Seq(Row) /\ Len(webms) \in Nat
    BY LenProperties DEF Typed, TypeOK, TablesTyped
  <1>2. webms' \in Seq(Row) /\ Len(webms) <= Len(webms')
    BY <1>1, RowsChange DEF AddsRow, CorrectsRow
  <1> QED
    BY <1>1, <1>2, LenProperties

AliasRow(n) == [hash : Image, post : Post, webm : 1..n]

(* An alias of a webm that has a row has one when there are more rows.     *)
LEMMA AliasRowsGrow ==
    ASSUME NEW m \in Nat, NEW n \in Nat, m <= n
    PROVE  AliasRow(m) \subseteq AliasRow(n)
PROOF BY DEF AliasRow

(* The types hold at the start.                                            *)
LEMMA TypedInit == Init => Typed
PROOF
  <1> SUFFICES ASSUME Init PROVE Typed
    OBVIOUS
  <1>1. \A t \in Thread : Len(Listing[t]) \in Nat
    BY LenProperties
  <1>2. webms \in Seq(Row) /\ todo \in Seq(Post) /\ Len(webms) = 0
    BY EmptySeq DEF Init
  <1>3. aliases \in Seq([hash : Image, post : Post, webm : 1..Len(webms)])
    BY EmptySeq DEF Init
  <1>4. FilesTyped
    BY <1>1 DEF Init, FilesTyped
  <1>5. TablesTyped
    BY <1>2, <1>3 DEF Init, TablesTyped
  <1>6. DownloaderTyped /\ SpiderTyped
    BY <1>2 DEF Init, DownloaderTyped, SpiderTyped
  <1> QED
    BY <1>4, <1>5, <1>6 DEF Init, Typed, TypeOK, FilesRemain

(* Files and thumbnails keep their types.                                  *)
LEMMA FilesStep == Typed /\ [Next]_vars => FilesTyped'
PROOF
  <1> SUFFICES ASSUME Typed, [Next]_vars PROVE FilesTyped'
    OBVIOUS
  <1>0. FilesTyped /\ \A t \in Thread : Len(Listing[t]) \in Nat
    BY LenProperties DEF Typed, TypeOK
  <1>1. ASSUME NEW t \in Thread, NewPost(t) PROVE FilesTyped'
    BY <1>0, <1>1 DEF NewPost, FilesTyped
  <1>2. ASSUME dpc \in {"download", "fetch", "thumb", "save"}
        PROVE  post \in Post /\ PathOf(post) \in Path /\ ImageOf[post] \in Content
    BY <1>2, PathOfPost DEF Typed, TypeOK, DownloaderTyped, Content
  <1>3. CASE OpenFile \/ Fetch
    <2>1. files' \in [Path -> Content \cup {None}]
      BY <1>0, <1>2, <1>3 DEF OpenFile, Fetch, FilesTyped, Content
    <2>2. faults' \in 0..MaxFaults
      BY <1>0, <1>3, FaultsTyped DEF OpenFile, Fetch, FilesTyped
    <2> QED
      BY <1>0, <1>3, <2>1, <2>2 DEF OpenFile, Fetch, FilesTyped
  <1>4. CASE Thumbnail
    BY <1>0, <1>2, <1>4 DEF Thumbnail, FilesTyped
  <1>5. CASE NoThumbnail \/ Crash
    <2>1. faults' \in 0..MaxFaults
      BY <1>0, <1>5, FaultsTyped DEF NoThumbnail, Crash, FilesTyped
    <2> QED
      BY <1>0, <1>5, <2>1 DEF NoThumbnail, Crash, FilesTyped
  <1>6. ASSUME NEW t \in Thread, ReadThread(t) PROVE FilesTyped'
    <2>1. faults' \in 0..MaxFaults
      BY <1>0, <1>6, FaultsTyped DEF ReadThread, FilesTyped
    <2> QED
      BY <1>0, <1>6, <2>1 DEF ReadThread, FilesTyped
  <1>7. CASE \/ StartPass \/ PassDone \/ (\E b \in Board : ReadCatalog(b)) \/ SavePost \/ CheckHash
             \/ SkipAlias \/ PickOriginal \/ InsertAlias \/ SaveWebm
    BY <1>0, <1>7 DEF StartPass, PassDone, ReadCatalog, SavePost, CheckHash, SkipAlias, PickOriginal,
                      InsertAlias, SaveWebm, FilesTyped
  <1>8. CASE Spider \/ UNCHANGED vars
    BY <1>0, <1>8 DEF Spider, StartWalk, StopWalk, ListDirectory, LookUpFile, ReadFile, AdoptFile,
                      CorrectHash, vars, FilesTyped
  <1> QED
    BY <1>1, <1>3, <1>4, <1>5, <1>6, <1>7, <1>8 DEF Next, Downloader

(* The tables keep their types.                                            *)
LEMMA TablesStep == Typed /\ [Next]_vars => TablesTyped'
PROOF
  <1> SUFFICES ASSUME Typed, [Next]_vars PROVE TablesTyped'
    OBVIOUS
  <1>0. TablesTyped /\ DownloaderTyped
    BY DEF Typed, TypeOK
  <1>1. webms' \in Seq(Row) /\ Len(webms) \in Nat /\ Len(webms') \in Nat /\ Len(webms) <= Len(webms')
    BY RowsGrow
  <1>2. aliases \in Seq(AliasRow(Len(webms')))
    <2>1. AliasRow(Len(webms)) \subseteq AliasRow(Len(webms')) /\ aliases \in Seq(AliasRow(Len(webms)))
      BY <1>0, <1>1, AliasRowsGrow DEF TablesTyped, AliasRow
    <2> QED
      BY <2>1, SeqMonotonic
  <1>3. CASE InsertAlias
    <2>1. [hash |-> ImageOf[post], post |-> post, webm |-> original] \in AliasRow(Len(webms'))
      BY <1>0, <1>1, <1>3, PathOfPost DEF InsertAlias, DownloaderTyped, AliasRow
    <2>2. aliases' \in Seq(AliasRow(Len(webms')))
      BY <1>2, <1>3, <2>1, AppendProperties DEF InsertAlias
    <2> QED
      BY <1>0, <1>1, <1>3, <2>2 DEF InsertAlias, TablesTyped, AliasRow
  <1>4. ASSUME UNCHANGED aliases,
               categories' \subseteq Board, threads' \subseteq Thread, posts' \subseteq Post
        PROVE  TablesTyped'
    BY <1>1, <1>2, <1>4 DEF TablesTyped, AliasRow
  <1>5. ASSUME NEW b \in Board, ReadCatalog(b) PROVE TablesTyped'
    BY <1>0, <1>4, <1>5 DEF ReadCatalog, TablesTyped
  <1>6. ASSUME NEW t \in Thread, ReadThread(t) PROVE TablesTyped'
    BY <1>0, <1>4, <1>6 DEF ReadThread, TablesTyped
  <1>7. CASE SavePost
    <2>1. Head(todo) \in Post
      BY <1>0, <1>7, HeadTailProperties DEF SavePost, DownloaderTyped
    <2> QED
      BY <1>0, <1>4, <1>7, <2>1 DEF SavePost, TablesTyped
  <1>8. CASE \/ StartPass \/ PassDone \/ CheckHash \/ SkipAlias \/ PickOriginal
             \/ OpenFile \/ Fetch \/ Thumbnail \/ NoThumbnail \/ SaveWebm
    BY <1>0, <1>4, <1>8 DEF StartPass, PassDone, CheckHash, SkipAlias, PickOriginal, OpenFile, Fetch,
                            Thumbnail, NoThumbnail, SaveWebm, TablesTyped, tables
  <1>9. CASE Spider \/ Crash \/ (\E t \in Thread : NewPost(t)) \/ UNCHANGED vars
    BY <1>0, <1>4, <1>9 DEF Spider, StartWalk, StopWalk, ListDirectory, LookUpFile, ReadFile, AdoptFile,
                            CorrectHash, Crash, NewPost, vars, TablesTyped, tables
  <1> QED
    BY <1>3, <1>5, <1>6, <1>7, <1>8, <1>9 DEF Next, Downloader

(* The downloader's locals keep their types.                               *)
LEMMA DownloaderStep == Typed /\ [Next]_vars => DownloaderTyped'
PROOF
  <1> SUFFICES ASSUME Typed, [Next]_vars PROVE DownloaderTyped'
    OBVIOUS
  <1>0. DownloaderTyped /\ FilesTyped /\ None \notin WebmPost /\ <<>> \in Seq(Post)
    BY EmptySeq DEF Typed, TypeOK
  <1>a. Len(webms) \in Nat /\ Len(webms') \in Nat /\ Len(webms) <= Len(webms')
    BY RowsGrow
  <1>b. ASSUME NextPost PROVE DownloaderTyped'
    BY <1>0, <1>a, <1>b DEF NextPost, pass, DownloaderTyped
  <1>c. ASSUME Die PROVE DownloaderTyped'
    BY <1>0, <1>a, <1>c DEF Die, DownloaderTyped
  <1>d. ASSUME UNCHANGED downloader PROVE DownloaderTyped'
    BY <1>0, <1>a, <1>d DEF downloader, pass, hand, DownloaderTyped
  <1>1. CASE Spider \/ (\E t \in Thread : NewPost(t)) \/ UNCHANGED vars
    BY <1>1, <1>d DEF Spider, StartWalk, StopWalk, ListDirectory, LookUpFile, ReadFile, AdoptFile,
                      CorrectHash, NewPost, vars
  <1>2. CASE SkipAlias \/ InsertAlias \/ NoThumbnail \/ SaveWebm \/ Crash
    BY <1>2, <1>b, <1>c DEF SkipAlias, InsertAlias, NoThumbnail, SaveWebm, Crash
  <1>3. CASE StartPass \/ PassDone \/ \E b \in Board : ReadCatalog(b)
    BY <1>0, <1>a, <1>3 DEF StartPass, PassDone, ReadCatalog, pass, hand, DownloaderTyped
  <1>4. ASSUME NEW t \in Thread, ReadThread(t) PROVE DownloaderTyped'
    <2>1. todo' \in Seq(Post)
      <3>1. Listing[t] \in Seq(Post) /\ Len(Listing[t]) \in Nat /\ published[t] \in 0..Len(Listing[t])
        BY <1>0, LenProperties DEF FilesTyped
      <3>2. \A i \in 1..published[t] : Listing[t][i] \in Post
        BY <3>1, ElementOfSeq
      <3>3. SubSeq(Listing[t], 1, published[t]) \in Seq(Post)
        BY <3>1, <3>2, SubSeqProperties
      <3> QED
        BY <1>0, <1>4, <3>3 DEF ReadThread, DownloaderTyped
    <2> QED
      BY <1>0, <1>a, <1>4, <2>1 DEF ReadThread, hand, DownloaderTyped
  <1>5. CASE SavePost
    <2>1. Head(todo) \in Post /\ Tail(todo) \in Seq(Post)
      BY <1>0, <1>5, HeadTailProperties DEF SavePost, DownloaderTyped
    <2> QED
      BY <1>0, <1>a, <1>5, <2>1 DEF SavePost, DownloaderTyped
  <1>6. CASE CheckHash \/ OpenFile \/ Fetch \/ Thumbnail
    BY <1>0, <1>a, <1>6 DEF CheckHash, OpenFile, Fetch, Thumbnail, pass, hand, DownloaderTyped
  <1>7. CASE PickOriginal
    <2>1. CASE Die
      BY <2>1, <1>c
    <2>2. CASE (\E i \in RowsWith(ImageOf[post]) : original' = i) /\ dpc' = "insert_alias" /\ UNCHANGED <<pass, post>>
      BY <1>0, <1>a, <1>7, <2>2 DEF PickOriginal, RowsWith, pass, tables, DownloaderTyped
    <2> QED
      BY <1>7, <2>1, <2>2 DEF PickOriginal
  <1> QED
    BY <1>1, <1>2, <1>3, <1>4, <1>5, <1>6, <1>7 DEF Next, Downloader

(* Nothing but the download of a file changes files.                       *)
LEMMA FilesChange == [Next]_vars => OpenFile \/ Fetch \/ UNCHANGED files
PROOF BY DEF Next, NewPost, Downloader, Crash, Spider, StartPass, PassDone, ReadCatalog, ReadThread,
             SavePost, CheckHash, SkipAlias, PickOriginal, InsertAlias, Thumbnail, NoThumbnail,
             SaveWebm, StartWalk, StopWalk, ListDirectory, LookUpFile, ReadFile, AdoptFile,
             CorrectHash, vars

(* No step makes a file disappear.                                         *)
LEMMA FilesStay ==
    ASSUME Typed, [Next]_vars, NEW p \in Path, files[p] # None
    PROVE  files'[p] # None
PROOF
  <1>1. CASE OpenFile \/ Fetch
    <2>1. post \in Post /\ PathOf(post) \in Path /\ ImageOf[post] \in Image
      BY <1>1, PathOfPost DEF OpenFile, Fetch, Typed, TypeOK, DownloaderTyped
    <2> QED
      BY <1>1, <2>1 DEF OpenFile, Fetch, Typed, TypeOK, FilesTyped, Content
  <1>2. CASE UNCHANGED files
    BY <1>2
  <1> QED
    BY <1>1, <1>2, FilesChange

(* The spider's locals keep their types, and its file stays where it is.   *)
LEMMA SpiderStep == Typed /\ [Next]_vars => SpiderTyped' /\ FilesRemain'
PROOF
  <1> SUFFICES ASSUME Typed, [Next]_vars PROVE SpiderTyped' /\ FilesRemain'
    OBVIOUS
  <1>0. SpiderTyped /\ FilesTyped /\ FilesRemain /\ \A p \in Path : p # None
    BY DEF Typed, TypeOK
  <1>a. Len(webms) \in Nat /\ Len(webms') \in Nat /\ Len(webms) <= Len(webms')
    BY RowsGrow
  <1>b. \A p \in Path : files[p] # None => files'[p] # None
    BY FilesStay
  <1>1. CASE Downloader \/ Crash \/ (\E t \in Thread : NewPost(t)) \/ UNCHANGED vars
    <2>1. UNCHANGED spider
      BY <1>1 DEF Downloader, StartPass, PassDone, ReadCatalog, ReadThread, SavePost, CheckHash, SkipAlias,
                  PickOriginal, InsertAlias, OpenFile, Fetch, Thumbnail, NoThumbnail, SaveWebm,
                  Crash, NewPost, vars
    <2> QED
      BY <1>0, <1>a, <1>b, <2>1 DEF spider, walk, seen, SpiderTyped, FilesRemain
  <1>2. CASE StartWalk \/ StopWalk
    BY <1>0, <1>a, <1>b, <1>2 DEF StartWalk, StopWalk, seen, SpiderTyped, FilesRemain
  <1>3. ASSUME NEW b \in Board, ListDirectory(b) PROVE SpiderTyped' /\ FilesRemain'
    BY <1>0, <1>a, <1>b, <1>3 DEF ListDirectory, seen, SpiderTyped, FilesRemain
  <1>4. ASSUME NEW p \in Path, LookUpFile(p) PROVE SpiderTyped' /\ FilesRemain'
    <2>1. row' \in 0..Len(webms)
      BY <1>a, <1>4 DEF LookUpFile, RowsAt
    <2> QED
      BY <1>0, <1>a, <1>b, <1>4, <2>1 DEF LookUpFile, tables, SpiderTyped, FilesRemain
  <1>5. CASE ReadFile
    <2>1. file_path \in Path /\ files[file_path] # None
      BY <1>0, <1>5 DEF ReadFile, SpiderTyped, FilesRemain
    <2>2. digest' \in Hash
      BY <1>0, <1>5, <2>1, HashOfFile DEF ReadFile, FilesTyped
    <2> QED
      BY <1>0, <1>a, <1>b, <1>5, <2>1, <2>2 DEF ReadFile, walk, tables, SpiderTyped, FilesRemain
  <1>6. CASE AdoptFile \/ CorrectHash
    BY <1>0, <1>a, <1>b, <1>6 DEF AdoptFile, CorrectHash, NextFile, walk, SpiderTyped, FilesRemain
  <1> QED
    BY <1>1, <1>2, <1>3, <1>4, <1>5, <1>6 DEF Next, Spider

(* The types hold in every history.                                        *)
LEMMA TypedInvariant == Spec => []Typed
PROOF
  <1>1. Typed /\ [Next]_vars => Typed'
    BY FilesStep, TablesStep, DownloaderStep, SpiderStep DEF Typed, TypeOK
  <1> QED
    BY <1>1, TypedInit, PTL DEF Spec

(* The files, the tables, the downloader and the spider keep their types:  *)
(* no step finds a file gone that it was to read, or a row that it was to  *)
(* refer to.                                                               *)
THEOREM Typing == Spec => []TypeOK
PROOF
  <1>1. Typed => TypeOK
    BY DEF Typed
  <1> QED
    BY <1>1, TypedInvariant, PTL

(***************************************************************************)
(* A post becomes an alias once.  What PickOriginal has looked for and not *)
(* found is still not there when the alias is inserted: the spider writes  *)
(* no aliases.                                                             *)
(***************************************************************************)
AliasOfImage == \A k \in 1..Len(aliases) : aliases[k].hash = ImageOf[aliases[k].post]
NoAliasYet == dpc = "insert_alias" => \A k \in 1..Len(aliases) : aliases[k].post # post

AliasInv == AliasOfImage /\ NoAliasYet /\ AliasesOnce

(* An alias is inserted only for a post that has none.                     *)
LEMMA AliasStep == Typed /\ AliasInv /\ [Next]_vars => AliasInv'
PROOF
  <1> SUFFICES ASSUME Typed, AliasInv, [Next]_vars PROVE AliasInv'
    OBVIOUS
  <1>0. Len(aliases) \in Nat
    BY LenProperties DEF Typed, TypeOK, TablesTyped
  <1>1. ASSUME UNCHANGED aliases, dpc' = "insert_alias" => dpc = "insert_alias" /\ UNCHANGED post
        PROVE  AliasInv'
    BY <1>1 DEF AliasInv, AliasOfImage, NoAliasYet, AliasesOnce
  <1>2. CASE InsertAlias
    <2> DEFINE a == [hash |-> ImageOf[post], post |-> post, webm |-> original]
    <2>1. post \in Post /\ original \in 1..Len(webms)
      BY <1>2 DEF InsertAlias, Typed, TypeOK, DownloaderTyped
    <2>2. a \in AliasRow(Len(webms)) /\ a.hash = ImageOf[a.post] /\ a.post = post
      BY <2>1, PathOfPost DEF AliasRow
    <2>3. aliases' = Append(aliases, a) /\ dpc' = "index" /\ dpc = "insert_alias"
      BY <1>2 DEF InsertAlias, NextPost
    <2>4. aliases \in Seq(AliasRow(Len(webms)))
      BY DEF Typed, TypeOK, TablesTyped, AliasRow
    <2> HIDE DEF a
    <2>5. /\ Len(aliases') = Len(aliases) + 1
          /\ \A k \in 1..Len(aliases) : aliases'[k] = aliases[k]
          /\ aliases'[Len(aliases) + 1] = a
      BY <2>2, <2>3, <2>4, AppendProperties
    <2>6. AliasOfImage'
      <3> SUFFICES ASSUME NEW k \in 1..Len(aliases) + 1
                   PROVE  aliases'[k].hash = ImageOf[aliases'[k].post]
        BY <2>5 DEF AliasOfImage
      <3>1. CASE k = Len(aliases) + 1
        BY <2>2, <2>5, <3>1
      <3>2. CASE k \in 1..Len(aliases)
        BY <2>5, <3>2 DEF AliasInv, AliasOfImage
      <3> QED
        BY <1>0, <3>1, <3>2
    <2>7. AliasesOnce'
      BY <1>0, <2>2, <2>3, <2>5 DEF AliasInv, NoAliasYet, AliasesOnce
    <2> QED
      BY <2>3, <2>6, <2>7 DEF AliasInv, NoAliasYet
  <1>3. CASE PickOriginal
    <2>1. \A k \in 1..Len(aliases) : aliases[k].post # post
      BY <1>3 DEF PickOriginal, AliasesOf, AliasInv, AliasOfImage
    <2>2. UNCHANGED aliases /\ (dpc' = "insert_alias" => UNCHANGED post)
      BY <1>3 DEF PickOriginal, Die, tables
    <2> QED
      BY <2>1, <2>2 DEF AliasInv, AliasOfImage, NoAliasYet, AliasesOnce
  <1>4. CASE \/ StartPass \/ PassDone \/ (\E b \in Board : ReadCatalog(b)) \/ (\E t \in Thread : ReadThread(t))
             \/ SavePost \/ CheckHash \/ SkipAlias \/ OpenFile \/ Fetch \/ Thumbnail \/ NoThumbnail
             \/ SaveWebm \/ Crash
    BY <1>1, <1>4 DEF StartPass, PassDone, ReadCatalog, ReadThread, SavePost, CheckHash, SkipAlias, OpenFile,
                      Fetch, Thumbnail, NoThumbnail, SaveWebm, Crash, NextPost, Die, tables
  <1>5. CASE Spider \/ (\E t \in Thread : NewPost(t)) \/ UNCHANGED vars
    BY <1>1, <1>5 DEF Spider, StartWalk, StopWalk, ListDirectory, LookUpFile, ReadFile, AdoptFile,
                      CorrectHash, NewPost, downloader, hand, tables, vars
  <1> QED
    BY <1>2, <1>3, <1>4, <1>5 DEF Next, Downloader

(* However often a thread is read again, and whatever dies in between, a   *)
(* post becomes an alias of a webm at most once.                           *)
THEOREM AliasedOnce == Spec => []AliasesOnce
PROOF
  <1>1. Init => AliasInv
    BY EmptySeq DEF Init, AliasInv, AliasOfImage, NoAliasYet, AliasesOnce
  <1>2. AliasInv => AliasesOnce
    BY DEF AliasInv
  <1> QED
    BY <1>1, <1>2, AliasStep, TypedInvariant, PTL DEF Spec

(***************************************************************************)
(* What the downloader recorded is on disk, where a board, a name and a    *)
(* size make a webm.  A path with such a row is opened for writing again   *)
(* only if its thumbnail was made of something else (NotRecorded), so that *)
(* what the spider reads of it is what the row says already (ReadsRow),    *)
(* however long ago it looked the row up.  A thumbnail is never made       *)
(* again: what it was made of was true of the file when the row was made   *)
(* (FileToSave).                                                           *)
(***************************************************************************)
NoNamesakes == \A p, q \in WebmPost : PathOf(p) = PathOf(q) => ImageOf[p] = ImageOf[q]

Proper(i) == webms[i].post # None /\ thumbs[webms[i].path] = ImageOf[webms[i].post]

RowsOfPosts ==
    \A i \in 1..Len(webms) :
        webms[i].post # None =>
            /\ webms[i].post \in WebmPost
            /\ webms[i].path = PathOf(webms[i].post)
            /\ thumbs[webms[i].path] # None

ProperRows ==
    \A i \in 1..Len(webms) :
        Proper(i) => /\ webms[i].hash = ImageOf[webms[i].post]
                     /\ files[webms[i].path] = webms[i].hash

NotRecorded ==
    dpc \in {"download", "fetch", "thumb", "save"} =>
        \A i \in 1..Len(webms) : Proper(i) => webms[i].path # PathOf(post)

FileToSave ==
    dpc = "save" => /\ thumbs[PathOf(post)] # None
                    /\ files[PathOf(post)] = thumbs[PathOf(post)]

RowOfFile == row # 0 => webms[row].path = file_path

ReadsRow == spc = "write" /\ row # 0 /\ Proper(row) => digest = webms[row].hash

HashInv ==
    RowsOfPosts /\ ProperRows /\ NotRecorded /\ FileToSave /\ RowOfFile /\ ReadsRow

(* A row of a post whose thumbnail is of the whole webm says where the     *)
(* webm is.                                                                *)
LEMMA HashInvMeaning == HashInv => HashIsContent
PROOF BY DEF HashInv, ProperRows, Proper, HashIsContent

(* At the start there are no rows and no files.                            *)
LEMMA HashInit == Init => HashInv
PROOF
  <1> SUFFICES ASSUME Init PROVE HashInv
    OBVIOUS
  <1>1. Len(webms) = 0
    BY DEF Init
  <1> QED
    BY <1>1 DEF Init, HashInv, RowsOfPosts, ProperRows, NotRecorded, FileToSave, RowOfFile, ReadsRow

(* What the spider writes of a file that was recorded whole is in its row  *)
(* already.                                                                *)
LEMMA SpiderKeepsHash ==
    ASSUME Typed, HashInv, Spider
    PROVE  HashInv'
PROOF
  <1>0. Typed /\ [Next]_vars /\ Len(webms) \in Nat
    BY LenProperties DEF Next, Typed, TypeOK, TablesTyped
  <1>1. UNCHANGED <<files, thumbs, dpc, post>>
    BY DEF Spider, StartWalk, StopWalk, ListDirectory, LookUpFile, ReadFile, AdoptFile, CorrectHash,
           downloader, hand
  <1>2. FileToSave'
    BY <1>1 DEF HashInv, FileToSave, PathOf
  <1>a. ASSUME UNCHANGED webms
        PROVE  RowsOfPosts' /\ ProperRows' /\ NotRecorded' /\ \A i : Proper(i)' = Proper(i)
    BY <1>1, <1>a DEF HashInv, RowsOfPosts, ProperRows, NotRecorded, Proper, PathOf
  <1>3. CASE StartWalk \/ StopWalk \/ \E b \in Board : ListDirectory(b)
    <2>1. /\ UNCHANGED webms
          /\ (row' = row /\ UNCHANGED <<file_path, digest>>) \/ row' = 0
          /\ (spc' = "write") => (spc = "write")
      BY <1>3 DEF StartWalk, StopWalk, ListDirectory, seen, tables
    <2>2. RowOfFile' /\ ReadsRow'
      BY <1>a, <2>1 DEF HashInv, RowOfFile, ReadsRow
    <2> QED
      BY <1>2, <1>a, <2>1, <2>2 DEF HashInv
  <1>4. ASSUME NEW p \in Path, LookUpFile(p) PROVE HashInv'
    <2>1. UNCHANGED webms /\ RowOfFile' /\ ReadsRow'
      BY <1>4 DEF LookUpFile, RowsAt, tables, RowOfFile, ReadsRow
    <2> QED
      BY <1>2, <1>a, <2>1 DEF HashInv
  <1>5. CASE ReadFile
    <2>1. UNCHANGED <<webms, row, file_path>> /\ digest' = HashOf(file_path) /\ spc' = "write"
      BY <1>5 DEF ReadFile, tables
    <2>2. ReadsRow'
      <3> SUFFICES ASSUME row # 0, Proper(row) PROVE HashOf(file_path) = webms[row].hash
        BY <1>a, <2>1 DEF ReadsRow
      <3>1. row \in 1..Len(webms)
        BY <1>0 DEF Typed, TypeOK, SpiderTyped
      <3>2. files[file_path] = webms[row].hash /\ webms[row].hash \in Image
        BY <3>1, PathOfPost DEF HashInv, RowsOfPosts, ProperRows, Proper, RowOfFile
      <3> QED
        BY <3>2 DEF HashOf
    <2>3. RowOfFile'
      BY <2>1 DEF HashInv, RowOfFile
    <2> QED
      BY <1>2, <1>a, <2>1, <2>2, <2>3 DEF HashInv
  <1>6. CASE AdoptFile
    <2>1. UNCHANGED webms \/ AddsRow(SpiderRow)
      BY <1>0, <1>6, RowsChange DEF AdoptFile, CorrectHash, SaveWebm, downloader, NextPost
    <2>2. row' = 0
      BY <1>6 DEF AdoptFile, NextFile
    <2>3. ASSUME AddsRow(SpiderRow) PROVE RowsOfPosts' /\ ProperRows' /\ NotRecorded'
      <3>1. /\ SpiderRow.post = None
            /\ \A i : i = Len(webms) + 1 => ~Proper(i)'
            /\ \A i \in 1..Len(webms) : webms'[i] = webms[i] /\ Proper(i)' = Proper(i)
        BY <1>1, <2>3 DEF AddsRow, SpiderRow, Proper
      <3>2. 1..Len(webms') = 1..Len(webms) \cup {Len(webms) + 1}
        BY <1>0, <2>3 DEF AddsRow
      <3>3. RowsOfPosts'
        BY <1>1, <2>3, <3>1, <3>2 DEF AddsRow, HashInv, RowsOfPosts, PathOf
      <3>4. ProperRows' /\ NotRecorded'
        BY <1>1, <3>1, <3>2 DEF HashInv, ProperRows, NotRecorded, PathOf
      <3> QED
        BY <3>3, <3>4
    <2> QED
      BY <1>2, <1>a, <2>1, <2>2, <2>3 DEF HashInv, RowOfFile, ReadsRow
  <1>7. CASE CorrectHash
    <2>1. UNCHANGED webms \/ CorrectsRow
      BY <1>0, <1>7, RowsChange DEF AdoptFile, CorrectHash, SaveWebm, downloader, NextPost
    <2>2. row' = 0 /\ row # 0 /\ spc = "write" /\ row \in 1..Len(webms)
      BY <1>0, <1>7 DEF CorrectHash, NextFile, Typed, TypeOK, SpiderTyped
    <2>3. Proper(row) => digest = webms[row].hash
      BY <2>2 DEF HashInv, ReadsRow
    <2>4. /\ Len(webms') = Len(webms)
          /\ \A i \in 1..Len(webms) : /\ webms'[i].post = webms[i].post
                                      /\ webms'[i].path = webms[i].path
                                      /\ Proper(i) => webms'[i].hash = webms[i].hash
                                      /\ Proper(i)' = Proper(i)
      BY <1>1, <2>1, <2>3 DEF CorrectsRow, Proper
    <2>5. RowsOfPosts' /\ ProperRows' /\ NotRecorded'
      BY <1>1, <2>4 DEF HashInv, RowsOfPosts, ProperRows, NotRecorded, PathOf
    <2> QED
      BY <1>2, <2>2, <2>5 DEF HashInv, RowOfFile, ReadsRow
  <1> QED
    BY <1>3, <1>4, <1>5, <1>6, <1>7 DEF Spider

(* No step of the downloader puts a file at odds with its row.             *)
LEMMA DownloaderKeepsHash ==
    ASSUME NoNamesakes, Typed, HashInv, Downloader \/ Crash
    PROVE  HashInv'
PROOF
  <1>0. /\ Typed /\ [Next]_vars /\ Len(webms) \in Nat
        /\ files \in [Path -> Content \cup {None}] /\ thumbs \in [Path -> Content \cup {None}]
    BY LenProperties DEF Next, Typed, TypeOK, FilesTyped, TablesTyped
  <1>1. UNCHANGED <<spc, file_path, row, digest>>
    BY DEF Downloader, StartPass, PassDone, ReadCatalog, ReadThread, SavePost, CheckHash, SkipAlias,
           PickOriginal, InsertAlias, OpenFile, Fetch, Thumbnail, NoThumbnail, SaveWebm, Crash,
           spider, seen
  <1>2. row \in 0..Len(webms)
    BY DEF Typed, TypeOK, SpiderTyped
  <1>3. ASSUME UNCHANGED <<files, thumbs, webms>>
        PROVE  (RowsOfPosts /\ ProperRows /\ RowOfFile /\ ReadsRow)' /\ \A i : Proper(i)' = Proper(i)
    BY <1>1, <1>3 DEF HashInv, RowsOfPosts, ProperRows, Proper, RowOfFile, ReadsRow, PathOf
  <1>4. ASSUME UNCHANGED <<files, thumbs, webms>>,
               dpc' \in {"sleep", "index", "check", "alias", "insert_alias"}
        PROVE  HashInv'
    BY <1>3, <1>4 DEF HashInv, NotRecorded, FileToSave
  <1>5. CASE \/ StartPass \/ PassDone \/ (\E b \in Board : ReadCatalog(b)) \/ (\E t \in Thread : ReadThread(t))
             \/ SavePost \/ SkipAlias \/ PickOriginal \/ InsertAlias \/ NoThumbnail \/ Crash
    BY <1>4, <1>5 DEF StartPass, PassDone, ReadCatalog, ReadThread, SavePost, SkipAlias, PickOriginal,
                      InsertAlias, NoThumbnail, Crash, NextPost, Die, tables
  <1>6. CASE CheckHash
    <2>1. CASE dpc' = "alias"
      BY <1>4, <1>6, <2>1 DEF CheckHash, tables
    <2>2. CASE dpc' = "download"
      <3>1. RowsWith(ImageOf[post]) = {} /\ UNCHANGED <<files, thumbs, webms, post>> /\ post \in WebmPost
        BY <1>6, <2>2 DEF CheckHash, tables, hand, Typed, TypeOK, DownloaderTyped
      <3>2. NotRecorded'
        <4> SUFFICES ASSUME NEW i \in 1..Len(webms), Proper(i), webms[i].path = PathOf(post)
                     PROVE  FALSE
          BY <1>3, <3>1 DEF NotRecorded, PathOf
        <4>1. webms[i].hash = ImageOf[post]
          BY <3>1 DEF HashInv, RowsOfPosts, ProperRows, Proper, NoNamesakes
        <4> QED
          BY <3>1, <4>1 DEF RowsWith
      <3> QED
        BY <1>3, <2>2, <3>1, <3>2 DEF HashInv, FileToSave
    <2> QED
      BY <1>6, <2>1, <2>2 DEF CheckHash
  <1>7. CASE OpenFile \/ Fetch
    <2> DEFINE f == PathOf(post)
    <2>1. /\ post \in WebmPost /\ f \in Path /\ dpc \in {"download", "fetch"}
          /\ dpc' \in {"fetch", "thumb"} /\ UNCHANGED <<post, webms, thumbs>>
      BY <1>7, PathOfPost DEF OpenFile, Fetch, tables, hand, Typed, TypeOK, DownloaderTyped
    <2>2. PICK c : files' = [files EXCEPT ![f] = c]
      <3>1. files = [files EXCEPT ![f] = files[f]]
        BY <1>0
      <3> QED
        BY <1>7, <3>1 DEF OpenFile, Fetch
    <2>3. \A q \in Path : q # f => files'[q] = files[q]
      BY <1>0, <2>1, <2>2
    <2>4. \A i : Proper(i)' = Proper(i)
      BY <2>1 DEF Proper
    <2>5. \A i \in 1..Len(webms) : Proper(i) => webms[i].path # f
      BY <2>1 DEF HashInv, NotRecorded
    <2>6. RowsOfPosts' /\ ProperRows'
      <3> SUFFICES ASSUME NEW i \in 1..Len(webms), Proper(i)
                   PROVE  files'[webms[i].path] = webms[i].hash
        BY <2>1, <2>4 DEF HashInv, RowsOfPosts, ProperRows, PathOf
      <3>1. webms[i].path \in Path
        BY PathOfPost DEF HashInv, RowsOfPosts, Proper
      <3> QED
        BY <2>3, <2>5, <3>1 DEF HashInv, ProperRows
    <2>7. NotRecorded' /\ FileToSave'
      BY <2>1, <2>4, <2>5 DEF NotRecorded, FileToSave, PathOf
    <2>8. RowOfFile' /\ ReadsRow'
      BY <1>1, <2>1, <2>4 DEF HashInv, RowOfFile, ReadsRow
    <2> QED
      BY <2>6, <2>7, <2>8 DEF HashInv
  <1>8. CASE Thumbnail
    <2> DEFINE f == PathOf(post)
    <2>1. /\ dpc = "thumb" /\ dpc' = "save" /\ UNCHANGED <<files, webms, post>>
          /\ files[f] # None /\ thumbs[f] = None /\ thumbs' = [thumbs EXCEPT ![f] = files[f]]
      BY <1>8 DEF Thumbnail, tables, hand, Content
    <2>2. f \in Path
      BY <2>1, PathOfPost DEF Typed, TypeOK, DownloaderTyped
    <2>3. thumbs'[f] = files[f] /\ \A q \in Path : q # f => thumbs'[q] = thumbs[q]
      BY <1>0, <2>1, <2>2
    <2>4. \A i \in 1..Len(webms) :
             webms[i].post # None => webms[i].path \in Path /\ webms[i].path # f
      BY <2>1, PathOfPost DEF HashInv, RowsOfPosts
    <2>5. \A i \in 1..Len(webms) : Proper(i)' = Proper(i)
      BY <2>1, <2>3, <2>4 DEF Proper
    <2>6. RowsOfPosts' /\ ProperRows' /\ NotRecorded'
      BY <2>1, <2>3, <2>4, <2>5 DEF HashInv, RowsOfPosts, ProperRows, NotRecorded, PathOf
    <2>7. FileToSave'
      BY <2>1, <2>3 DEF FileToSave, PathOf
    <2>8. RowOfFile' /\ ReadsRow'
      BY <1>1, <1>2, <2>1, <2>5 DEF HashInv, RowOfFile, ReadsRow
    <2> QED
      BY <2>6, <2>7, <2>8 DEF HashInv
  <1>9. CASE SaveWebm
    <2>1. UNCHANGED <<files, thumbs>> /\ dpc = "save" /\ dpc' \in {"sleep", "index"}
      BY <1>9 DEF SaveWebm, NextPost, Die
    <2>2. CASE UNCHANGED webms
      BY <1>4, <2>1, <2>2
    <2>3. CASE AddsRow(PostRow)
      <3>1. /\ post \in WebmPost /\ thumbs[PathOf(post)] # None
            /\ files[PathOf(post)] = thumbs[PathOf(post)]
        BY <2>1 DEF HashInv, FileToSave, Typed, TypeOK, DownloaderTyped
      <3>2. PostRow.hash = ImageOf[post] /\ PostRow.path = PathOf(post) /\ PostRow.post = post
        BY DEF PostRow
      <3>3. /\ Len(webms') = Len(webms) + 1 /\ webms'[Len(webms) + 1] = PostRow
            /\ \A i \in 1..Len(webms) : webms'[i] = webms[i] /\ Proper(i)' = Proper(i)
        BY <2>1, <2>3 DEF AddsRow, Proper
      <3>4. RowsOfPosts' /\ ProperRows'
        <4> SUFFICES ASSUME NEW i \in 1..Len(webms) + 1, webms'[i].post # None
                     PROVE  /\ webms'[i].post \in WebmPost
                            /\ webms'[i].path = PathOf(webms'[i].post)
                            /\ thumbs[webms'[i].path] # None
                            /\ thumbs[webms'[i].path] = ImageOf[webms'[i].post] =>
                                  /\ webms'[i].hash = ImageOf[webms'[i].post]
                                  /\ files[webms'[i].path] = webms'[i].hash
          BY <2>1, <3>3 DEF RowsOfPosts, ProperRows, Proper, PathOf
        <4>1. CASE i = Len(webms) + 1
          BY <3>1, <3>2, <3>3, <4>1
        <4>2. CASE i \in 1..Len(webms)
          BY <3>3, <4>2 DEF HashInv, RowsOfPosts, ProperRows, Proper
        <4> QED
          BY <1>0, <4>1, <4>2
      <3>5. NotRecorded' /\ FileToSave'
        BY <2>1 DEF NotRecorded, FileToSave
      <3>6. RowOfFile' /\ ReadsRow'
        BY <1>1, <1>2, <3>3 DEF HashInv, RowOfFile, ReadsRow
      <3> QED
        BY <3>4, <3>5, <3>6 DEF HashInv
    <2> QED
      BY <1>0, <1>9, <2>2, <2>3, RowsChange DEF SaveWebm, AdoptFile, CorrectHash, downloader, NextPost, Die
  <1> QED
    BY <1>5, <1>6, <1>7, <1>8, <1>9 DEF Downloader

(* A row the downloader wrote for a webm that was all there has the hash   *)
(* of the file at its path.                                                *)
THEOREM RowsHaveTheirFile ==
    ASSUME NoNamesakes
    PROVE  Spec => []HashIsContent
PROOF
  <1>1. Typed /\ HashInv /\ [Next]_vars => HashInv'
    <2> SUFFICES ASSUME Typed, HashInv, [Next]_vars PROVE HashInv'
      OBVIOUS
    <2>1. CASE (\E t \in Thread : NewPost(t)) \/ UNCHANGED vars
      <3>1. UNCHANGED <<files, thumbs, webms, dpc, post, spc, file_path, row, digest>>
        BY <2>1 DEF NewPost, vars, tables, downloader, hand, spider, seen
      <3>2. \A i : Proper(i)' = Proper(i)
        BY <3>1 DEF Proper
      <3>3. RowsOfPosts' /\ ProperRows' /\ RowOfFile' /\ ReadsRow'
        BY <3>1, <3>2 DEF HashInv, RowsOfPosts, ProperRows, RowOfFile, ReadsRow, PathOf
      <3>4. NotRecorded' /\ FileToSave'
        BY <3>1, <3>2 DEF HashInv, NotRecorded, FileToSave, PathOf
      <3> QED
        BY <3>3, <3>4 DEF HashInv
    <2> QED
      BY <2>1, DownloaderKeepsHash, SpiderKeepsHash DEF Next
  <1> QED
    BY <1>1, HashInit, HashInvMeaning, TypedInvariant, PTL DEF Spec

(***************************************************************************)
(* While nothing fails, an alias has the hash of its webm, where a board   *)
(* and a name make a webm and ffmpeg finds a frame in every one.  A row    *)
(* with the hash of a webm then stands for a file with that content        *)
(* (RowIsFile), and a file with the content of a webm has such a row or is *)
(* about to get one (FileHasRow).  So nobody opens the file again (NoRow), *)
(* what the spider read of it stays true (DigestIsFile), and the row keeps *)
(* its hash (DigestIsRow), which is what the alias was made for.           *)
(***************************************************************************)
AllWebmsPlay == Image \subseteq Playable

WholeFiles ==
    \A f \in Path :
        \/ files[f] \in {None, Cut}
        \/ \E q \in WebmPost : PathOf(q) = f /\ files[f] = ImageOf[q]

InHand(f) == dpc \in {"thumb", "save"} /\ PathOf(post) = f
ToBeSaved(f) == dpc = "save" /\ PathOf(post) = f

FileHasRow ==
    \A f \in Path : files[f] \in Image => RowsWith(files[f]) # {} \/ InHand(f)

RowIsFile ==
    \A i \in 1..Len(webms) :
        webms[i].hash \in Image => files[webms[i].path] = webms[i].hash

NoRow == dpc \in {"download", "fetch"} => RowsWith(ImageOf[post]) = {}

Fetched == dpc \in {"thumb", "save"} => files[PathOf(post)] = ImageOf[post]

ThumbHasRow ==
    \A f \in Path :
        thumbs[f] # None => files[f] \in Image /\ (RowsWith(files[f]) # {} \/ ToBeSaved(f))

DigestIsFile == spc = "write" /\ digest \in Image => files[file_path] = digest

DigestIsRow ==
    spc = "write" /\ row # 0 /\ webms[row].hash \in Image => digest = webms[row].hash

OriginalIsImage == dpc = "insert_alias" => webms[original].hash = ImageOf[post]

AliasIsImage == \A k \in 1..Len(aliases) : webms[aliases[k].webm].hash = aliases[k].hash

FilesCalm == WholeFiles /\ FileHasRow /\ RowIsFile /\ Fetched /\ ThumbHasRow
ReadersCalm ==
    NoRow /\ RowOfFile /\ DigestIsFile /\ DigestIsRow /\ OriginalIsImage /\ AliasIsImage

Calm == FilesCalm /\ ReadersCalm
CalmInv == faults = MaxFaults => Calm

(* Nothing has failed yet after a step only if it did not fail in it.      *)
LEMMA StillCalm ==
    ASSUME Typed, [Next]_vars, faults' = MaxFaults
    PROVE  faults = MaxFaults /\ ~Fault
PROOF
  <1>1. faults \in 0..MaxFaults /\ MaxFaults \in Nat
    BY DEF Typed, TypeOK, FilesTyped
  <1>2. ~Fault
    BY <1>1 DEF Fault
  <1>3. Fault \/ faults' = faults
    BY DEF Next, NewPost, Downloader, Crash, Spider, StartPass, PassDone, ReadCatalog, ReadThread,
           SavePost, CheckHash, SkipAlias, PickOriginal, InsertAlias, OpenFile, Fetch, Thumbnail,
           NoThumbnail, SaveWebm, StartWalk, StopWalk, ListDirectory, LookUpFile, ReadFile,
           AdoptFile, CorrectHash, NoFault, vars
  <1> QED
    BY <1>2, <1>3

(* A row with the hash of a webm keeps it.                                 *)
RowsKeepImages ==
    \A i \in 1..Len(webms) :
        /\ i \in 1..Len(webms')
        /\ webms'[i].path = webms[i].path
        /\ webms[i].hash \in Image => webms'[i].hash = webms[i].hash

(* While nothing fails, a row of an image keeps its hash.                  *)
LEMMA RowsKept ==
    ASSUME Typed, Calm, [Next]_vars
    PROVE  RowsKeepImages /\ \A h \in Image : RowsWith(h) # {} => RowsWith(h)' # {}
PROOF
  <1>1. Len(webms) \in Nat /\ Len(webms') \in Nat /\ Len(webms) <= Len(webms')
    BY RowsGrow
  <1>2. CASE CorrectHash /\ row # 0 /\ CorrectsRow
    <2>1. webms[row].hash \in Image => digest = webms[row].hash
      BY <1>2 DEF CorrectHash, Calm, ReadersCalm, DigestIsRow
    <2>2. RowsKeepImages
      BY <1>1, <1>2, <2>1 DEF CorrectsRow, RowsKeepImages
    <2> QED
      BY <2>2 DEF RowsKeepImages, RowsWith
  <1>3. CASE \A i \in 1..Len(webms) : webms'[i] = webms[i]
    <2>1. 1..Len(webms) \subseteq 1..Len(webms')
      BY <1>1
    <2>2. RowsKeepImages
      BY <1>3, <2>1 DEF RowsKeepImages
    <2> QED
      BY <2>2 DEF RowsKeepImages, RowsWith
  <1> QED
    BY <1>2, <1>3, RowsChange DEF AddsRow

(* The spider takes no row away from a file, and gives a webm without one  *)
(* the right hash.                                                         *)
LEMMA SpiderKeepsCalm ==
    ASSUME Typed, Calm, Spider
    PROVE  Calm'
PROOF
  <1>0. /\ Typed /\ [Next]_vars /\ Len(webms) \in Nat
        /\ files \in [Path -> Content \cup {None}]
    BY LenProperties DEF Next, Typed, TypeOK, FilesTyped, TablesTyped
  <1>1. UNCHANGED <<files, thumbs, aliases, dpc, post, original>>
    BY DEF Spider, StartWalk, StopWalk, ListDirectory, LookUpFile, ReadFile, AdoptFile, CorrectHash,
           tables, downloader, hand
  <1>2. RowsKeepImages /\ \A h \in Image : RowsWith(h) # {} => RowsWith(h)' # {}
    BY <1>0, RowsKept
  <1>3. WholeFiles' /\ Fetched'
    BY <1>1 DEF Calm, FilesCalm, WholeFiles, Fetched, PathOf
  <1>4. FileHasRow' /\ ThumbHasRow'
    <2>1. \A f : InHand(f)' = InHand(f) /\ ToBeSaved(f)' = ToBeSaved(f)
      BY <1>1 DEF InHand, ToBeSaved, PathOf
    <2> QED
      BY <1>1, <1>2, <2>1 DEF Calm, FilesCalm, FileHasRow, ThumbHasRow
  <1>5. OriginalIsImage' /\ AliasIsImage'
    <2>1. \A k \in 1..Len(aliases) : aliases[k].webm \in 1..Len(webms) /\ aliases[k].hash \in Image
      <3>1. aliases \in Seq(AliasRow(Len(webms)))
        BY DEF Typed, TypeOK, TablesTyped, AliasRow
      <3>2. \A k \in 1..Len(aliases) : aliases[k] \in AliasRow(Len(webms))
        BY <3>1, ElementOfSeq
      <3> QED
        BY <3>2 DEF AliasRow
    <2>2. AliasIsImage'
      BY <1>1, <1>2, <2>1 DEF Calm, ReadersCalm, AliasIsImage, RowsKeepImages
    <2>3. dpc = "insert_alias" => original \in 1..Len(webms) /\ ImageOf[post] \in Image
      BY <1>0 DEF Typed, TypeOK, DownloaderTyped
    <2> QED
      BY <1>1, <1>2, <2>2, <2>3 DEF Calm, ReadersCalm, OriginalIsImage, RowsKeepImages
  <1>6. ASSUME UNCHANGED webms PROVE RowIsFile' /\ NoRow'
    BY <1>1, <1>6 DEF Calm, FilesCalm, ReadersCalm, RowIsFile, NoRow, RowsWith
  <1>7. CASE StartWalk \/ StopWalk \/ \E b \in Board : ListDirectory(b)
    <2>1. /\ UNCHANGED webms /\ spc' # "write"
          /\ UNCHANGED <<row, file_path>> \/ row' = 0
      BY <1>7 DEF StartWalk, StopWalk, ListDirectory, seen, tables
    <2>2. RowOfFile' /\ DigestIsFile' /\ DigestIsRow'
      BY <2>1 DEF Calm, ReadersCalm, RowOfFile, DigestIsFile, DigestIsRow
    <2> QED
      BY <1>3, <1>4, <1>5, <1>6, <2>1, <2>2 DEF Calm, FilesCalm, ReadersCalm
  <1>8. ASSUME NEW p \in Path, LookUpFile(p) PROVE Calm'
    <2>1. UNCHANGED webms /\ spc' # "write" /\ RowOfFile'
      BY <1>8 DEF LookUpFile, RowsAt, tables, RowOfFile
    <2>2. DigestIsFile' /\ DigestIsRow'
      BY <2>1 DEF DigestIsFile, DigestIsRow
    <2> QED
      BY <1>3, <1>4, <1>5, <1>6, <2>1, <2>2 DEF Calm, FilesCalm, ReadersCalm
  <1>9. CASE ReadFile
    <2>1. UNCHANGED <<webms, row, file_path>> /\ digest' = HashOf(file_path)
      BY <1>9 DEF ReadFile, tables
    <2>2. file_path \in Path /\ files[file_path] # None
      BY <1>9 DEF ReadFile, Typed, TypeOK, SpiderTyped, FilesRemain
    <2>3. DigestIsFile'
      BY <1>0, <1>1, <2>1, <2>2, HashOfFile DEF DigestIsFile
    <2>4. RowOfFile'
      BY <2>1 DEF Calm, ReadersCalm, RowOfFile
    <2>5. DigestIsRow'
      <3> SUFFICES ASSUME row # 0, webms[row].hash \in Image PROVE HashOf(file_path) = webms[row].hash
        BY <2>1 DEF DigestIsRow
      <3>1. row \in 1..Len(webms)
        BY <1>0 DEF Typed, TypeOK, SpiderTyped
      <3>2. files[file_path] = webms[row].hash
        BY <3>1 DEF Calm, FilesCalm, ReadersCalm, RowIsFile, RowOfFile
      <3> QED
        BY <3>2 DEF HashOf
    <2> QED
      BY <1>3, <1>4, <1>5, <1>6, <2>1, <2>3, <2>4, <2>5 DEF Calm, FilesCalm, ReadersCalm
  <1>10. CASE AdoptFile \/ CorrectHash
    <2>1. spc' # "write" /\ row' = 0 /\ spc = "write" /\ file_path \in Path
      BY <1>10 DEF AdoptFile, CorrectHash, NextFile, Typed, TypeOK, SpiderTyped
    <2>2. RowOfFile' /\ DigestIsFile' /\ DigestIsRow'
      BY <2>1 DEF RowOfFile, DigestIsFile, DigestIsRow
    <2>3. digest \in Image => files[file_path] = digest
      BY <2>1 DEF Calm, ReadersCalm, DigestIsFile
    <2>4. /\ Len(webms') \in Nat
          /\ \A i \in 1..Len(webms') :
                \/ i \in 1..Len(webms) /\ webms'[i] = webms[i]
                \/ webms'[i].hash = digest /\ webms'[i].path = file_path
      <3>1. CASE UNCHANGED webms
        BY <1>0, <3>1
      <3>2. CASE AddsRow(SpiderRow)
        <4>1. SpiderRow.hash = digest /\ SpiderRow.path = file_path
          BY DEF SpiderRow
        <4> QED
          BY <1>0, <3>2, <4>1 DEF AddsRow
      <3>3. CASE row # 0 /\ CorrectsRow
        <4>1. webms[row].path = file_path
          BY <3>3 DEF Calm, ReadersCalm, RowOfFile
        <4> QED
          BY <1>0, <3>3, <4>1 DEF CorrectsRow
      <3> QED
        BY <1>0, <1>10, <3>1, <3>2, <3>3, RowsChange DEF AdoptFile, CorrectHash, SaveWebm, downloader, NextPost
    <2>5. RowIsFile'
      BY <1>1, <2>3, <2>4 DEF Calm, FilesCalm, RowIsFile
    <2>6. NoRow'
      <3> SUFFICES ASSUME dpc \in {"download", "fetch"}, NEW i \in 1..Len(webms'),
                          webms'[i].hash = ImageOf[post]
                   PROVE  FALSE
        BY <1>1 DEF NoRow, RowsWith
      <3>1. RowsWith(ImageOf[post]) = {} /\ ImageOf[post] \in Image
        BY <1>0 DEF Calm, ReadersCalm, NoRow, Typed, TypeOK, DownloaderTyped
      <3>2. files[file_path] = ImageOf[post]
        BY <2>3, <2>4, <3>1 DEF RowsWith
      <3> QED
        BY <2>1, <3>1, <3>2 DEF Calm, FilesCalm, FileHasRow, InHand
    <2> QED
      BY <1>3, <1>4, <1>5, <2>2, <2>5, <2>6 DEF Calm, FilesCalm, ReadersCalm
  <1> QED
    BY <1>7, <1>8, <1>9, <1>10 DEF Spider
(* The downloader leaves each webm with its row, as long as nothing fails. *)
LEMMA DownloaderKeepsCalm ==
    ASSUME NoNamesakes, AllWebmsPlay, Typed, Calm, Downloader, ~Fault
    PROVE  Calm'
PROOF
  <1>0. /\ Typed /\ [Next]_vars /\ Len(webms) \in Nat
        /\ files \in [Path -> Content \cup {None}] /\ thumbs \in [Path -> Content \cup {None}]
    BY LenProperties DEF Next, Typed, TypeOK, FilesTyped, TablesTyped
  <1>1. UNCHANGED <<spc, file_path, row, digest>>
    BY DEF Downloader, StartPass, PassDone, ReadCatalog, ReadThread, SavePost, CheckHash, SkipAlias,
           PickOriginal, InsertAlias, OpenFile, Fetch, Thumbnail, NoThumbnail, SaveWebm,
           spider, seen
  <1>2. RowsKeepImages /\ \A h \in Image : RowsWith(h) # {} => RowsWith(h)' # {}
    BY <1>0, RowsKept
  <1>3. \A k \in 1..Len(aliases) : aliases[k].webm \in 1..Len(webms) /\ aliases[k].hash \in Image
    <2>1. aliases \in Seq(AliasRow(Len(webms)))
      BY DEF Typed, TypeOK, TablesTyped, AliasRow
    <2>2. \A k \in 1..Len(aliases) : aliases[k] \in AliasRow(Len(webms))
      BY <2>1, ElementOfSeq
    <2> QED
      BY <2>2 DEF AliasRow
  <1>4. ASSUME UNCHANGED aliases PROVE AliasIsImage'
    BY <1>2, <1>3, <1>4 DEF Calm, ReadersCalm, AliasIsImage, RowsKeepImages
  <1>5. ASSUME UNCHANGED webms PROVE RowOfFile' /\ DigestIsRow'
    BY <1>1, <1>5 DEF Calm, ReadersCalm, RowOfFile, DigestIsRow
  <1>6. ASSUME UNCHANGED files PROVE WholeFiles' /\ DigestIsFile'
    BY <1>1, <1>6 DEF Calm, FilesCalm, ReadersCalm, WholeFiles, DigestIsFile, PathOf
  <1>7. ASSUME UNCHANGED <<files, webms>> PROVE RowIsFile'
    BY <1>7 DEF Calm, FilesCalm, RowIsFile
  (* Steps before a file is opened, and after it is recorded.              *)
  <1>8. ASSUME UNCHANGED <<files, webms, thumbs>>,
               dpc \notin {"download", "fetch", "thumb", "save"},
               dpc' \notin {"download", "fetch", "thumb", "save"}
        PROVE  FilesCalm' /\ NoRow'
    BY <1>6, <1>7, <1>8 DEF Calm, FilesCalm, FileHasRow, ThumbHasRow, Fetched, NoRow, InHand, ToBeSaved, RowsWith
  <1>9. CASE \/ StartPass \/ PassDone \/ (\E b \in Board : ReadCatalog(b)) \/ (\E t \in Thread : ReadThread(t))
             \/ SavePost \/ SkipAlias \/ (CheckHash /\ dpc' = "alias")
    <2>1. /\ UNCHANGED <<files, webms, thumbs, aliases>> /\ dpc' # "insert_alias"
          /\ dpc \notin {"download", "fetch", "thumb", "save"}
          /\ dpc' \notin {"download", "fetch", "thumb", "save"}
      BY <1>9 DEF StartPass, PassDone, ReadCatalog, ReadThread, SavePost, SkipAlias, CheckHash, NextPost, tables
    <2>2. OriginalIsImage'
      BY <2>1 DEF OriginalIsImage
    <2> QED
      BY <1>4, <1>5, <1>6, <1>8, <2>1, <2>2 DEF Calm, ReadersCalm
  <1>10. CASE CheckHash /\ dpc' = "download"
    <2>1. /\ UNCHANGED <<files, webms, thumbs, aliases, post>>
          /\ dpc = "check" /\ RowsWith(ImageOf[post]) = {}
      BY <1>10 DEF CheckHash, tables, hand
    <2>2. NoRow' /\ OriginalIsImage'
      BY <1>10, <2>1 DEF NoRow, OriginalIsImage, RowsWith
    <2>3. FileHasRow' /\ ThumbHasRow' /\ Fetched'
      BY <1>10, <2>1 DEF Calm, FilesCalm, FileHasRow, ThumbHasRow, Fetched, InHand, ToBeSaved, RowsWith
    <2> QED
      BY <1>4, <1>5, <1>6, <1>7, <2>1, <2>2, <2>3 DEF Calm, FilesCalm, ReadersCalm
  <1>11. CASE PickOriginal
    <2>1. /\ UNCHANGED <<files, webms, thumbs, aliases>>
          /\ dpc = "alias" /\ dpc' \in {"insert_alias", "sleep"}
      BY <1>11 DEF PickOriginal, Die, tables
    <2>2. OriginalIsImage'
      BY <1>11, <2>1 DEF PickOriginal, Die, OriginalIsImage, RowsWith
    <2> QED
      BY <1>4, <1>5, <1>6, <1>8, <2>1, <2>2 DEF Calm, ReadersCalm
  <1>12. CASE InsertAlias
    <2> DEFINE a == [hash |-> ImageOf[post], post |-> post, webm |-> original]
    <2>1. /\ UNCHANGED <<files, webms, thumbs>> /\ aliases' = Append(aliases, a)
          /\ dpc = "insert_alias" /\ dpc' = "index"
      BY <1>12 DEF InsertAlias, NextPost
    <2>2. post \in Post /\ original \in 1..Len(webms)
      BY <2>1 DEF Typed, TypeOK, DownloaderTyped
    <2>3. a \in AliasRow(Len(webms)) /\ webms[a.webm].hash = a.hash
      BY <2>1, <2>2, PathOfPost DEF AliasRow, Calm, ReadersCalm, OriginalIsImage
    <2>4. aliases \in Seq(AliasRow(Len(webms))) /\ Len(aliases) \in Nat
      BY LenProperties DEF Typed, TypeOK, TablesTyped, AliasRow
    <2> HIDE DEF a
    <2>5. /\ Len(aliases') = Len(aliases) + 1
          /\ \A k \in 1..Len(aliases) : aliases'[k] = aliases[k]
          /\ aliases'[Len(aliases) + 1] = a
      BY <2>1, <2>3, <2>4, AppendProperties
    <2>6. AliasIsImage'
      <3> SUFFICES ASSUME NEW k \in 1..Len(aliases) + 1
                   PROVE  webms[aliases'[k].webm].hash = aliases'[k].hash
        BY <2>1, <2>5 DEF AliasIsImage
      <3>1. CASE k = Len(aliases) + 1
        BY <2>3, <2>5, <3>1
      <3>2. CASE k \in 1..Len(aliases)
        BY <2>5, <3>2 DEF Calm, ReadersCalm, AliasIsImage
      <3> QED
        BY <2>4, <3>1, <3>2
    <2>7. OriginalIsImage'
      BY <2>1 DEF OriginalIsImage
    <2> QED
      BY <1>5, <1>6, <1>8, <2>1, <2>6, <2>7 DEF Calm, ReadersCalm
  (* No row and no thumbnail, and no digest the spider has in hand, speaks *)
  (* of the file that is opened: a file of that content would have a row.  *)
  <1>13. CASE OpenFile \/ Fetch
    <2> DEFINE f == PathOf(post)
    <2>1. /\ post \in WebmPost /\ f \in Path /\ ImageOf[post] \in Image
          /\ dpc \in {"download", "fetch"} /\ UNCHANGED <<post, webms, thumbs, aliases>>
      BY <1>13, PathOfPost DEF OpenFile, Fetch, tables, hand, Typed, TypeOK, DownloaderTyped
    <2>2. PICK c : /\ files' = [files EXCEPT ![f] = c]
                   /\ \/ c = Cut /\ dpc' = "fetch"
                      \/ c = ImageOf[post] /\ dpc' = "thumb"
      BY <1>13 DEF OpenFile, Fetch
    <2>3. files'[f] = c /\ \A q \in Path : q # f => files'[q] = files[q]
      BY <1>0, <2>1, <2>2
    <2>4. files[f] \notin Image
      <3>1. SUFFICES ASSUME files[f] \in Image PROVE FALSE
        OBVIOUS
      <3>2. files[f] = ImageOf[post]
        BY <2>1, <3>1 DEF Calm, FilesCalm, WholeFiles, NoNamesakes, Content
      <3> QED
        BY <2>1, <3>2 DEF Calm, FilesCalm, ReadersCalm, FileHasRow, NoRow, InHand
    <2>5. thumbs[f] = None
      BY <2>1, <2>4 DEF Calm, FilesCalm, ThumbHasRow
    <2>6. \A h : RowsWith(h)' = RowsWith(h)
      BY <2>1 DEF RowsWith
    <2>7. WholeFiles'
      <3> SUFFICES ASSUME NEW q \in Path
                   PROVE  \/ files'[q] \in {None, Cut}
                          \/ \E o \in WebmPost : PathOf(o) = q /\ files'[q] = ImageOf[o]
        BY DEF WholeFiles, PathOf
      <3>1. CASE q # f
        BY <2>3, <3>1 DEF Calm, FilesCalm, WholeFiles
      <3>2. CASE q = f
        BY <2>1, <2>2, <2>3, <3>2
      <3> QED
        BY <3>1, <3>2
    <2>8. FileHasRow'
      <3> SUFFICES ASSUME NEW q \in Path, files'[q] \in Image
                   PROVE  RowsWith(files'[q]) # {} \/ (dpc' = "thumb" /\ f = q)
        BY <2>1, <2>6 DEF FileHasRow, InHand, PathOf
      <3>1. CASE q # f
        BY <2>1, <2>3, <3>1 DEF Calm, FilesCalm, FileHasRow, InHand
      <3>2. CASE q = f
        BY <2>2, <2>3, <3>2
      <3> QED
        BY <3>1, <3>2
    <2>9. RowIsFile'
      <3> SUFFICES ASSUME NEW i \in 1..Len(webms), webms[i].hash \in Image
                   PROVE  files'[webms[i].path] = webms[i].hash
        BY <2>1 DEF RowIsFile
      <3>1. files[webms[i].path] = webms[i].hash
        BY DEF Calm, FilesCalm, RowIsFile
      <3>2. webms[i].path \in Path
        <4>1. webms[i] \in Row
          BY ElementOfSeq DEF Typed, TypeOK, TablesTyped
        <4> QED
          BY <4>1 DEF Row
      <3> QED
        BY <2>3, <2>4, <3>1, <3>2
    <2>10. Fetched' /\ NoRow'
      BY <2>1, <2>2, <2>3, <2>6 DEF Fetched, NoRow, PathOf, Calm, ReadersCalm
    <2>11. ThumbHasRow'
      <3> SUFFICES ASSUME NEW q \in Path, thumbs[q] # None
                   PROVE  files'[q] \in Image /\ RowsWith(files'[q]) # {}
        BY <2>1, <2>6 DEF ThumbHasRow
      <3>1. files'[q] = files[q]
        BY <1>0, <2>3, <2>5
      <3> QED
        BY <2>1, <3>1 DEF Calm, FilesCalm, ThumbHasRow, ToBeSaved
    <2>12. DigestIsFile'
      <3> SUFFICES ASSUME spc = "write", digest \in Image PROVE files'[file_path] = digest
        BY <1>1 DEF DigestIsFile
      <3>1. files[file_path] = digest /\ file_path \in Path
        BY DEF Calm, ReadersCalm, DigestIsFile, Typed, TypeOK, SpiderTyped
      <3> QED
        BY <2>3, <2>4, <3>1
    <2>13. OriginalIsImage'
      BY <2>2 DEF OriginalIsImage
    <2> QED
      BY <1>4, <1>5, <2>1, <2>7, <2>8, <2>9, <2>10, <2>11, <2>12, <2>13 DEF Calm, FilesCalm, ReadersCalm
  <1>14. CASE Thumbnail
    <2>1. /\ UNCHANGED <<files, webms, aliases, post>> /\ dpc = "thumb" /\ dpc' = "save"
          /\ PathOf(post) \in Path /\ thumbs' = [thumbs EXCEPT ![PathOf(post)] = files[PathOf(post)]]
      BY <1>14, PathOfPost DEF Thumbnail, tables, hand, Typed, TypeOK, DownloaderTyped
    <2>2. files[PathOf(post)] = ImageOf[post] /\ ImageOf[post] \in Image
      BY <2>1 DEF Calm, FilesCalm, Fetched, Typed, TypeOK, DownloaderTyped
    <2>3. /\ \A h : RowsWith(h)' = RowsWith(h)
          /\ \A f : /\ InHand(f)' <=> PathOf(post) = f
                    /\ ToBeSaved(f)' <=> PathOf(post) = f
                    /\ InHand(f) <=> PathOf(post) = f
                    /\ ~ToBeSaved(f)
      BY <2>1 DEF RowsWith, InHand, ToBeSaved, PathOf
    <2>4. FileHasRow' /\ Fetched'
      BY <2>1, <2>3 DEF Calm, FilesCalm, FileHasRow, Fetched, PathOf
    <2>5. ThumbHasRow'
      BY <1>0, <2>1, <2>2, <2>3 DEF Calm, FilesCalm, ThumbHasRow
    <2>6. NoRow' /\ OriginalIsImage'
      BY <2>1 DEF NoRow, OriginalIsImage
    <2> QED
      BY <1>4, <1>5, <1>6, <1>7, <2>1, <2>4, <2>5, <2>6 DEF Calm, FilesCalm, ReadersCalm
  (* ffmpeg would have found a frame: the thumbnail is from an earlier     *)
  (* attempt, and the file has its row.                                    *)
  <1>15. CASE NoThumbnail
    <2>1. /\ UNCHANGED <<files, webms, aliases, thumbs>> /\ dpc = "thumb" /\ dpc' = "index"
          /\ files[PathOf(post)] \notin Playable \/ thumbs[PathOf(post)] # None
          /\ PathOf(post) \in Path
      BY <1>15, PathOfPost DEF NoThumbnail, NextPost, tables, Typed, TypeOK, DownloaderTyped
    <2>2. files[PathOf(post)] = ImageOf[post] /\ ImageOf[post] \in Image
      BY <2>1 DEF Calm, FilesCalm, Fetched, Typed, TypeOK, DownloaderTyped
    <2>3. RowsWith(ImageOf[post]) # {}
      BY <2>1, <2>2 DEF AllWebmsPlay, Calm, FilesCalm, ThumbHasRow, ToBeSaved
    <2>4. FileHasRow' /\ ThumbHasRow' /\ Fetched'
      BY <2>1, <2>2, <2>3 DEF Calm, FilesCalm, FileHasRow, ThumbHasRow, Fetched, InHand, ToBeSaved, RowsWith
    <2>5. NoRow' /\ OriginalIsImage'
      BY <2>1 DEF NoRow, OriginalIsImage
    <2> QED
      BY <1>4, <1>5, <1>6, <1>7, <2>1, <2>4, <2>5 DEF Calm, FilesCalm, ReadersCalm
  <1>16. CASE SaveWebm
    <2>1. /\ UNCHANGED <<files, thumbs, aliases>> /\ dpc = "save" /\ dpc' \in {"sleep", "index"}
          /\ post \in Post /\ ImageOf[post] \in Image
      BY <1>16 DEF SaveWebm, NextPost, Die, Typed, TypeOK, DownloaderTyped
    <2>2. PICK h \in Image : h = ImageOf[post] /\ files[PathOf(post)] = h
      BY <2>1 DEF Calm, FilesCalm, Fetched
    <2>3. (UNCHANGED webms /\ RowsWith(h) # {}) \/ AddsRow(PostRow)
      BY <1>0, <1>16, <2>2, RowsChange DEF SaveWebm, AdoptFile, CorrectHash, downloader, NextPost, Die
    <2>4. PostRow.hash = h /\ PostRow.path = PathOf(post)
      BY <2>2 DEF PostRow
    <2>5. RowsWith(h)' # {}
      <3>1. CASE UNCHANGED webms /\ RowsWith(h) # {}
        BY <1>2, <3>1
      <3>2. CASE AddsRow(PostRow)
        <4>1. Len(webms) + 1 \in 1..Len(webms') /\ webms'[Len(webms) + 1].hash = h
          BY <1>0, <2>4, <3>2 DEF AddsRow
        <4> QED
          BY <4>1 DEF RowsWith
      <3> QED
        BY <2>3, <3>1, <3>2
    <2>6. FileHasRow' /\ ThumbHasRow'
      <3>1. \A f \in Path : files[f] \in Image => RowsWith(files[f])' # {}
        <4> SUFFICES ASSUME NEW f \in Path, files[f] \in Image PROVE RowsWith(files[f])' # {}
          OBVIOUS
        <4>1. CASE RowsWith(files[f]) # {}
          BY <1>2, <2>1, <4>1
        <4>2. CASE PathOf(post) = f
          BY <2>1, <2>2, <2>5, <4>2
        <4> QED
          BY <4>1, <4>2 DEF Calm, FilesCalm, FileHasRow, InHand
      <3> QED
        BY <1>0, <2>1, <3>1 DEF Calm, FilesCalm, FileHasRow, ThumbHasRow
    <2>7. RowIsFile'
      BY <1>0, <2>1, <2>2, <2>3, <2>4 DEF AddsRow, Calm, FilesCalm, RowIsFile
    <2>8. Fetched' /\ NoRow' /\ OriginalIsImage'
      BY <2>1 DEF Fetched, NoRow, OriginalIsImage
    <2>9. RowOfFile' /\ DigestIsRow'
      <3>1. row # 0 => webms'[row] = webms[row]
        BY <2>3 DEF AddsRow, Typed, TypeOK, SpiderTyped
      <3> QED
        BY <1>1, <3>1 DEF Calm, ReadersCalm, RowOfFile, DigestIsRow
    <2> QED
      BY <1>4, <1>6, <2>1, <2>6, <2>7, <2>8, <2>9 DEF Calm, FilesCalm, ReadersCalm
  <1> QED
    BY <1>9, <1>10, <1>11, <1>12, <1>13, <1>14, <1>15, <1>16 DEF Downloader, CheckHash

(* Nothing that calm promises is undone before something fails.            *)
LEMMA CalmInvariant ==
    ASSUME NoNamesakes, AllWebmsPlay
    PROVE  Spec => []CalmInv
PROOF
  <1>1. Init => CalmInv
    <2> SUFFICES ASSUME Init PROVE Calm
      BY DEF CalmInv
    <2>1. Len(webms) = 0 /\ Len(aliases) = 0
      BY DEF Init
    <2>2. FilesCalm
      BY <2>1 DEF Init, FilesCalm, WholeFiles, FileHasRow, RowIsFile, Fetched, ThumbHasRow, Content
    <2>3. ReadersCalm
      BY <2>1 DEF Init, ReadersCalm, NoRow, RowOfFile, DigestIsFile, DigestIsRow, OriginalIsImage, AliasIsImage
    <2> QED
      BY <2>2, <2>3 DEF Calm
  <1>2. Typed /\ CalmInv /\ [Next]_vars => CalmInv'
    <2> SUFFICES ASSUME Typed, CalmInv, [Next]_vars, faults' = MaxFaults PROVE Calm'
      BY DEF CalmInv
    <2>1. Calm /\ ~Fault
      BY StillCalm DEF CalmInv
    <2>2. CASE (\E t \in Thread : NewPost(t)) \/ UNCHANGED vars
      <3>1. UNCHANGED <<files, thumbs, webms, aliases, dpc, post, original, spc, file_path, row, digest>>
        BY <2>2 DEF NewPost, vars, tables, downloader, hand, spider, seen
      <3>2. FilesCalm'
        BY <2>1, <3>1 DEF Calm, FilesCalm, WholeFiles, FileHasRow, RowIsFile, Fetched, ThumbHasRow,
                          InHand, ToBeSaved, RowsWith, PathOf
      <3>3. ReadersCalm'
        BY <2>1, <3>1 DEF Calm, ReadersCalm, NoRow, RowOfFile, DigestIsFile, DigestIsRow,
                          OriginalIsImage, AliasIsImage, RowsWith
      <3> QED
        BY <3>2, <3>3 DEF Calm
    <2>3. CASE Crash
      BY <2>1, <2>3 DEF Crash
    <2> QED
      BY <2>1, <2>2, <2>3, DownloaderKeepsCalm, SpiderKeepsCalm DEF Next
  <1> QED
    BY <1>1, <1>2, TypedInvariant, PTL DEF Spec

(* As long as nothing fails, an alias has the hash of the webm it is an    *)
(* alias of, whatever the spider made of the rows since it was looked up.  *)
THEOREM AliasesAgree ==
    ASSUME NoNamesakes, AllWebmsPlay
    PROVE  Spec => []AliasAgrees
PROOF
  <1>1. CalmInv => AliasAgrees
    BY DEF CalmInv, Calm, ReadersCalm, AliasIsImage, AliasAgrees
  <1> QED
    BY <1>1, CalmInvariant, PTL

(***************************************************************************)
(* While nothing fails, no webm is let go of that the tables do not        *)
(* describe.  The row that sent the downloader to look for an alias is     *)
(* still there when it does; a file that was just fetched has no thumbnail *)
(* yet, so that one can be made; and the only row its hash can have got    *)
(* meanwhile is the one the spider gave that very file.                    *)
(***************************************************************************)
RowToAlias == dpc = "alias" => RowsWith(ImageOf[post]) # {}

NoThumbYet == dpc = "thumb" => thumbs[PathOf(post)] = None

RowOfThisFile ==
    dpc \in {"thumb", "save"} =>
        \A i \in RowsWith(ImageOf[post]) : webms[i].path = PathOf(post)

HandCalm == RowToAlias /\ NoThumbYet /\ RowOfThisFile
HandInv == faults = MaxFaults => HandCalm

(* What the spider writes about the image in hand is a row of its file.    *)
LEMMA SpiderKeepsHand ==
    ASSUME Typed, Calm, HandCalm, Spider
    PROVE  HandCalm'
PROOF
  <1>0. Typed /\ [Next]_vars /\ Len(webms) \in Nat
    BY LenProperties DEF Next, Typed, TypeOK, TablesTyped
  <1>1. UNCHANGED <<thumbs, dpc, post>>
    BY DEF Spider, StartWalk, StopWalk, ListDirectory, LookUpFile, ReadFile, AdoptFile, CorrectHash,
           downloader, hand
  <1>2. RowToAlias' /\ NoThumbYet'
    <2>1. dpc = "alias" => ImageOf[post] \in Image
      BY <1>0 DEF Typed, TypeOK, DownloaderTyped
    <2>2. \A h \in Image : RowsWith(h) # {} => RowsWith(h)' # {}
      BY <1>0, RowsKept
    <2>3. RowToAlias'
      BY <1>1, <2>1, <2>2 DEF HandCalm, RowToAlias, RowsWith
    <2> QED
      BY <1>1, <2>3 DEF HandCalm, NoThumbYet, PathOf
  <1>3. RowOfThisFile'
    <2> SUFFICES ASSUME dpc \in {"thumb", "save"}, NEW i \in 1..Len(webms'),
                        webms'[i].hash = ImageOf[post]
                 PROVE  webms'[i].path = PathOf(post)
      BY <1>1 DEF RowOfThisFile, RowsWith, PathOf
    <2>1. \A j \in RowsWith(ImageOf[post]) : webms[j].path = PathOf(post)
      BY DEF HandCalm, RowOfThisFile
    <2>2. post \in WebmPost /\ ImageOf[post] \in Image
      BY <1>0 DEF Typed, TypeOK, DownloaderTyped
    <2>3. ASSUME spc = "write", digest = ImageOf[post], RowsWith(digest) = {}
          PROVE  file_path = PathOf(post)
      <3>1. file_path \in Path /\ files[file_path] = ImageOf[post]
        BY <2>2, <2>3 DEF Calm, ReadersCalm, DigestIsFile, Typed, TypeOK, SpiderTyped
      <3> QED
        BY <2>2, <2>3, <3>1 DEF Calm, FilesCalm, FileHasRow, InHand
    <2>4. CASE UNCHANGED webms
      BY <2>1, <2>4 DEF RowsWith
    <2>5. CASE AdoptFile /\ RowsWith(digest) = {} /\ AddsRow(SpiderRow)
      <3>1. SpiderRow.hash = digest /\ SpiderRow.path = file_path /\ spc = "write"
        BY <2>5 DEF SpiderRow, AdoptFile
      <3>2. CASE i = Len(webms) + 1
        BY <2>3, <2>5, <3>1, <3>2 DEF AddsRow
      <3>3. CASE i \in 1..Len(webms)
        BY <2>1, <2>5, <3>3 DEF AddsRow, RowsWith
      <3> QED
        BY <1>0, <2>5, <3>2, <3>3 DEF AddsRow
    <2>6. CASE CorrectHash /\ row # 0 /\ RowsWith(digest) \subseteq {row} /\ CorrectsRow
      <3>1. i \in 1..Len(webms) /\ spc = "write"
        BY <2>6 DEF CorrectsRow, CorrectHash
      <3>2. CASE i # row
        BY <2>1, <2>6, <3>1, <3>2 DEF CorrectsRow, RowsWith
      <3>3. CASE i = row
        <4>1. /\ digest = ImageOf[post] /\ webms'[i].path = webms[row].path
              /\ webms[row].path = file_path
          BY <2>6, <3>3 DEF CorrectsRow, Calm, ReadersCalm, RowOfFile
        <4>2. CASE RowsWith(digest) = {}
          BY <2>3, <3>1, <4>1, <4>2
        <4>3. CASE row \in RowsWith(digest)
          BY <2>1, <4>1, <4>3
        <4> QED
          BY <2>6, <4>2, <4>3
      <3> QED
        BY <3>2, <3>3
    <2> QED
      BY <1>0, <1>1, <2>4, <2>5, <2>6, RowsChange DEF SaveWebm, Typed, TypeOK, DownloaderTyped, NextPost
  <1> QED
    BY <1>2, <1>3 DEF HandCalm

(* A file that is fetched had no row and no thumbnail.                     *)
LEMMA DownloaderKeepsHand ==
    ASSUME NoNamesakes, Typed, Calm, HandCalm, Downloader, ~Fault
    PROVE  HandCalm'
PROOF
  <1>1. ASSUME dpc' \notin {"alias", "thumb", "save"} PROVE HandCalm'
    BY <1>1 DEF HandCalm, RowToAlias, NoThumbYet, RowOfThisFile
  <1>2. CASE \/ StartPass \/ PassDone \/ (\E b \in Board : ReadCatalog(b)) \/ (\E t \in Thread : ReadThread(t))
             \/ SavePost \/ SkipAlias \/ PickOriginal \/ InsertAlias \/ OpenFile \/ NoThumbnail \/ SaveWebm
    <2>1. dpc' \notin {"alias", "thumb", "save"}
      BY <1>2 DEF StartPass, PassDone, ReadCatalog, ReadThread, SavePost, SkipAlias, PickOriginal,
                  InsertAlias, OpenFile, NoThumbnail, SaveWebm, NextPost, Die
    <2> QED
      BY <1>1, <2>1
  <1>3. CASE CheckHash
    BY <1>3 DEF CheckHash, tables, hand, HandCalm, RowToAlias, NoThumbYet, RowOfThisFile, RowsWith
  <1>4. CASE Fetch
    <2>1. /\ UNCHANGED <<post, webms, thumbs>> /\ dpc = "fetch" /\ dpc' = "thumb"
          /\ post \in WebmPost /\ PathOf(post) \in Path
      BY <1>4, PathOfPost DEF Fetch, tables, hand, Typed, TypeOK, DownloaderTyped
    <2>2. RowsWith(ImageOf[post]) = {}
      BY <2>1 DEF Calm, ReadersCalm, NoRow
    <2>3. thumbs[PathOf(post)] = None
      <3> SUFFICES ASSUME thumbs[PathOf(post)] # None PROVE FALSE
        OBVIOUS
      <3>1. files[PathOf(post)] \in Image /\ RowsWith(files[PathOf(post)]) # {}
        BY <2>1 DEF Calm, FilesCalm, ThumbHasRow, ToBeSaved
      <3>2. files[PathOf(post)] = ImageOf[post]
        BY <2>1, <3>1 DEF Calm, FilesCalm, WholeFiles, NoNamesakes, Content
      <3> QED
        BY <2>2, <3>1, <3>2
    <2> QED
      BY <2>1, <2>2, <2>3 DEF HandCalm, RowToAlias, NoThumbYet, RowOfThisFile, RowsWith, PathOf
  <1>5. CASE Thumbnail
    <2>1. UNCHANGED <<post, webms>> /\ dpc = "thumb" /\ dpc' = "save"
      BY <1>5 DEF Thumbnail, tables, hand
    <2> QED
      BY <2>1 DEF HandCalm, RowToAlias, NoThumbYet, RowOfThisFile, RowsWith, PathOf
  <1> QED
    BY <1>2, <1>3, <1>4, <1>5 DEF Downloader

(* What is known of the post in hand holds in every history.               *)
LEMMA HandInvariant ==
    ASSUME NoNamesakes, AllWebmsPlay
    PROVE  Spec => []HandInv
PROOF
  <1>1. Init => HandInv
    BY DEF Init, HandInv, HandCalm, RowToAlias, NoThumbYet, RowOfThisFile
  <1>2. Typed /\ CalmInv /\ HandInv /\ [Next]_vars => HandInv'
    <2> SUFFICES ASSUME Typed, CalmInv, HandInv, [Next]_vars, faults' = MaxFaults PROVE HandCalm'
      BY DEF HandInv
    <2>1. Calm /\ HandCalm /\ ~Fault
      BY StillCalm DEF CalmInv, HandInv
    <2>2. CASE (\E t \in Thread : NewPost(t)) \/ UNCHANGED vars
      <3>1. UNCHANGED <<thumbs, webms, dpc, post>>
        BY <2>2 DEF NewPost, vars, tables, downloader, hand
      <3> QED
        BY <2>1, <3>1 DEF HandCalm, RowToAlias, NoThumbYet, RowOfThisFile, RowsWith, PathOf
    <2> QED
      BY <2>1, <2>2, DownloaderKeepsHand, SpiderKeepsHand DEF Next, Crash
  <1> QED
    BY <1>1, <1>2, TypedInvariant, CalmInvariant, PTL DEF Spec

(* While nothing fails, the downloader lets go of a webm only once it is   *)
(* described, or because the spider gave its file a row first.             *)
THEOREM NoneLetGo ==
    ASSUME NoNamesakes, AllWebmsPlay
    PROVE  Spec => NoneDropped
PROOF
  <1>1. ASSUME Typed, CalmInv, HandInv, [Next]_vars,
               NEW p \in WebmPost, post = p, post' # p, faults' = MaxFaults
        PROVE  \/ Described(p)'
               \/ dpc = "save" /\ \E i \in RowsWith(ImageOf[p]) : webms[i].path = PathOf(p)
    <2>1. Calm /\ HandCalm /\ ~Fault
      BY <1>1, StillCalm DEF CalmInv, HandInv
    <2>2. dpc # "index"
      BY <1>1 DEF Typed, TypeOK, DownloaderTyped
    <2>3. CASE SkipAlias
      <3>1. UNCHANGED <<webms, aliases>> /\ \E k \in 1..Len(aliases) : aliases[k].post = p
        BY <1>1, <2>3 DEF SkipAlias, AliasesOf, tables
      <3> QED
        BY <3>1 DEF Described
    <2>4. CASE PickOriginal
      <3>1. RowsWith(ImageOf[post]) # {}
        BY <2>1, <2>4 DEF PickOriginal, HandCalm, RowToAlias
      <3> QED
        BY <1>1, <2>4, <3>1 DEF PickOriginal
    <2>5. CASE InsertAlias
      <3> DEFINE a == [hash |-> ImageOf[post], post |-> post, webm |-> original]
      <3>1. aliases' = Append(aliases, a) /\ a.post = p
        BY <1>1, <2>5 DEF InsertAlias
      <3>2. aliases \in Seq(AliasRow(Len(webms))) /\ a \in AliasRow(Len(webms)) /\ Len(aliases) \in Nat
        <4>1. post \in Post /\ original \in 1..Len(webms)
          BY <1>1, <2>5 DEF InsertAlias, Typed, TypeOK, DownloaderTyped
        <4>2. a \in AliasRow(Len(webms))
          BY <4>1, PathOfPost DEF AliasRow
        <4> QED
          BY <1>1, <4>2, LenProperties DEF Typed, TypeOK, TablesTyped, AliasRow
      <3> HIDE DEF a
      <3>3. Len(aliases) + 1 \in 1..Len(aliases') /\ aliases'[Len(aliases) + 1] = a
        BY <3>1, <3>2, AppendProperties
      <3> QED
        BY <3>1, <3>3 DEF Described
    <2>6. CASE NoThumbnail
      <3>1. files[PathOf(post)] = ImageOf[post] /\ ImageOf[post] \in Playable
        BY <1>1, <2>1, <2>6 DEF NoThumbnail, Calm, FilesCalm, Fetched, AllWebmsPlay
      <3> QED
        BY <2>1, <2>6, <3>1 DEF NoThumbnail, HandCalm, NoThumbYet
    <2>7. CASE SaveWebm
      <3>1. CASE RowsWith(ImageOf[p]) # {}
        BY <1>1, <2>1, <2>7, <3>1 DEF SaveWebm, HandCalm, RowOfThisFile
      <3>2. CASE RowsWith(ImageOf[p]) = {}
        <4>1. webms' # webms /\ webms' = Append(webms, PostRow) /\ webms \in Seq(Row) /\ PostRow \in Row
          <5>1. post \in Post /\ webms \in Seq(Row)
            BY <1>1 DEF Typed, TypeOK, TablesTyped
          <5>2. PostRow \in Row
            BY <5>1, PathOfPost DEF PostRow, Row, Hash
          <5>3. webms' = Append(webms, PostRow)
            BY <1>1, <2>7, <3>2 DEF SaveWebm, PostRow
          <5> QED
            BY <5>1, <5>2, <5>3, AppendProperties, LenProperties
        <4>2. AddsRow(PostRow) /\ PostRow.post = p
          BY <1>1, <4>1, RowAdded DEF PostRow
        <4>3. Len(webms) + 1 \in 1..Len(webms') /\ webms'[Len(webms) + 1].post = p
          BY <4>1, <4>2, LenProperties DEF AddsRow
        <4> QED
          BY <4>3 DEF Described
      <3> QED
        BY <3>1, <3>2
    <2>8. CASE Downloader /\ ~SkipAlias /\ ~PickOriginal /\ ~InsertAlias /\ ~NoThumbnail /\ ~SaveWebm
      BY <1>1, <2>2, <2>8 DEF Downloader, StartPass, PassDone, ReadCatalog, ReadThread, SavePost, CheckHash,
                              OpenFile, Fetch, Thumbnail, hand
    <2>9. CASE Spider \/ Crash \/ (\E t \in Thread : NewPost(t)) \/ UNCHANGED vars
      BY <1>1, <2>1, <2>9 DEF Spider, StartWalk, StopWalk, ListDirectory, LookUpFile, ReadFile, AdoptFile,
                              CorrectHash, Crash, NewPost, vars, downloader, hand
    <2> QED
      BY <1>1, <2>3, <2>4, <2>5, <2>6, <2>7, <2>8, <2>9 DEF Next
  <1>2. Typed /\ CalmInv /\ HandInv /\ [Next]_vars =>
            [\A p \in WebmPost : post = p /\ post' # p /\ faults' = MaxFaults =>
                \/ Described(p)'
                \/ dpc = "save" /\ \E i \in RowsWith(ImageOf[p]) : webms[i].path = PathOf(p)]_vars
    BY <1>1
  <1> QED
    BY <1>2, TypedInvariant, CalmInvariant, HandInvariant, PTL DEF Spec, NoneDropped
=============================================================================
