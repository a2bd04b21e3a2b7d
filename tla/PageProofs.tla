----------------------------- MODULE PageProofs -----------------------------
(***************************************************************************)
(* Proofs about WebmPage and ThreadPage: what the pages of the C server    *)
(* show while the scraper works on the files and tables they are made of.  *)
(***************************************************************************)
EXTENDS ThreadPage, ArchiveProofs, FunctionTheorems

USE PageAssumption

(* The scraper beside the pages is the scraper ArchiveProofs is about.     *)
LEMMA PagesOnlyRead == PageSpec => Spec
PROOF
  <1>1. PageInit => Init
    BY DEF PageInit
  <1>2. [PageNext]_page_vars => [Next]_vars
    BY DEF PageNext, ScraperStep, Page, AskForPage, HashFile, FindWebm, FindAlias, ListAliases, SendPage, page_vars
  <1> QED
    BY <1>1, <1>2, PTL DEF PageSpec, Spec

(***************************************************************************)
(* The tables with their ids: what the scraper inserts, in a row.          *)
(***************************************************************************)
AliasId == [hash : Content, path : Path, post : Post, webm_id : Nat]

WebmIds ==
    /\ webm_ids \in Seq(Row)
    /\ \A i \in 1..Len(webm_ids) : webm_ids[i] \in webms
    /\ \A r \in webms : \E i \in 1..Len(webm_ids) : webm_ids[i] = r
    /\ \A i, j \in 1..Len(webm_ids) : webm_ids[i].hash = webm_ids[j].hash => i = j

AliasIds ==
    /\ alias_ids \in Seq(AliasId)
    /\ \A i \in 1..Len(alias_ids) :
          /\ alias_ids[i].webm_id \in 1..Len(webm_ids)
          /\ webm_ids[alias_ids[i].webm_id].hash = alias_ids[i].hash
          /\ [hash |-> alias_ids[i].hash, path |-> alias_ids[i].path, post |-> alias_ids[i].post] \in aliases

RequestTyped ==
    /\ page_pc \in {"idle", "hash", "row", "alias", "list", "done"}
    /\ IF page_pc = "idle" THEN full_path = None ELSE full_path \in Path
    /\ image_hash \in Content \cup {Cut, None}
    /\ webm_id \in 0..Len(webm_ids) /\ alias_id \in 0..Len(alias_ids)
    /\ shown \subseteq 1..Len(alias_ids)
    /\ page_faults \in 0..MaxPageFaults

Numbering == WebmIds /\ AliasIds

(* What was due when the page was asked for, label by label.  A row, and a *)
(* link to its file, stay: Catalogued only grows.                          *)
WebmDue ==
    NoQueryFailed =>
        /\ page_pc = "hash" => due.webm \subseteq Catalogued(full_path)
        /\ page_pc = "row" => due.webm \subseteq IdsOfWebms(image_hash)
        /\ page_pc \in {"alias", "list", "done"} => due.webm \subseteq {webm_id}

AliasesDue ==
    /\ due.webm \subseteq 1..Len(webm_ids)
    /\ \A i \in due.aliases : i \in 1..Len(alias_ids) /\ alias_ids[i].webm_id \in due.webm
    /\ page_pc = "done" /\ NoQueryFailed => due.aliases \subseteq shown

(* One post, one alias, until two things have failed.                      *)
OneAliasEach ==
    MaxFaults - faults <= 1 =>
        \A i, j \in 1..Len(alias_ids) : alias_ids[i].post = alias_ids[j].post => i = j

HashOfPost == \A r \in webms : r.hash = ImageOf[r.post]

(***************************************************************************)
(* The numbering.                                                          *)
(***************************************************************************)
LEMMA AppendRow ==
    ASSUME NEW s \in Seq(Row), NEW r \in Row, NEW u, u = Append(s, r)
    PROVE  /\ u \in Seq(Row) /\ Len(s) \in Nat /\ Len(u) = Len(s) + 1
           /\ \A i \in 1..Len(s) : i \in 1..Len(u) /\ u[i] = s[i]
           /\ Len(u) \in 1..Len(u) /\ u[Len(u)] = r
           /\ \A i \in 1..Len(u) : i \in 1..Len(s) \/ i = Len(u)
PROOF BY AppendProperties, LenProperties

(* What a sequence of numbered rows holds with one more at its end.        *)
LEMMA AppendAlias ==
    ASSUME NEW s \in Seq(AliasId), NEW r \in AliasId, NEW u, u = Append(s, r)
    PROVE  /\ u \in Seq(AliasId) /\ Len(s) \in Nat /\ Len(u) = Len(s) + 1
           /\ \A i \in 1..Len(s) : i \in 1..Len(u) /\ u[i] = s[i]
           /\ Len(u) \in 1..Len(u) /\ u[Len(u)] = r
           /\ \A i \in 1..Len(u) : i \in 1..Len(s) \/ i = Len(u)
PROOF BY AppendProperties, LenProperties

(* Webms keep their numbers, and a new one gets the next.                  *)
LEMMA WebmIdsStep ==
    ASSUME TypeOK, TypeOK', OneRowPerHash', WebmIds, ScraperStep
    PROVE  /\ WebmIds'
           /\ Len(webm_ids) \in Nat /\ Len(webm_ids') \in Nat /\ Len(webm_ids) <= Len(webm_ids')
           /\ \A i \in 1..Len(webm_ids) : i \in 1..Len(webm_ids') /\ webm_ids'[i] = webm_ids[i]
PROOF
  <1>1. webms \subseteq Row /\ webms' \subseteq Row /\ webm_ids \in Seq(Row) /\ Len(webm_ids) \in Nat
    BY LenProperties DEF TypeOK, DurableTyped, WebmIds
  <1>2. CASE webms' = webms /\ UNCHANGED webm_ids
    BY <1>1, <1>2 DEF WebmIds
  <1>3. ASSUME NEW r \in webms' \ webms, webm_ids' = Append(webm_ids, r)
        PROVE  /\ WebmIds'
               /\ Len(webm_ids') \in Nat /\ Len(webm_ids) <= Len(webm_ids')
               /\ \A i \in 1..Len(webm_ids) : i \in 1..Len(webm_ids') /\ webm_ids'[i] = webm_ids[i]
    <2>1. /\ webm_ids' \in Seq(Row) /\ Len(webm_ids') = Len(webm_ids) + 1
          /\ \A i \in 1..Len(webm_ids) : i \in 1..Len(webm_ids') /\ webm_ids'[i] = webm_ids[i]
          /\ Len(webm_ids') \in 1..Len(webm_ids') /\ webm_ids'[Len(webm_ids')] = r
          /\ \A i \in 1..Len(webm_ids') : i \in 1..Len(webm_ids) \/ i = Len(webm_ids')
      <3>1. r \in Row
        BY <1>1, <1>3
      <3> QED
        BY <1>1, <1>3, <3>1, AppendRow
    <2>2. webms' = webms \cup {r}
      BY <1>3, RowsMove DEF ScraperStep, AddWebm
    <2>3. \A i \in 1..Len(webm_ids') : webm_ids'[i] \in webms'
      BY <2>1, <2>2 DEF WebmIds
    <2>4. \A s \in webms' : \E i \in 1..Len(webm_ids') : webm_ids'[i] = s
      <3> TAKE s \in webms'
      <3>1. CASE s \in webms
        <4>1. PICK i \in 1..Len(webm_ids) : webm_ids[i] = s
          BY <3>1 DEF WebmIds
        <4> QED
          BY <2>1, <4>1
      <3>2. CASE s = r
        BY <2>1, <3>2
      <3> QED
        BY <2>2, <3>1, <3>2
    <2>5. \A i \in 1..Len(webm_ids) : webm_ids[i].hash # r.hash
      <3> TAKE i \in 1..Len(webm_ids)
      <3>1. webm_ids[i] \in webms /\ webm_ids[i] # r
        BY <1>3 DEF WebmIds
      <3> QED
        BY <1>3, <2>2, <3>1 DEF OneRowPerHash
    <2>6. \A i, j \in 1..Len(webm_ids') : webm_ids'[i].hash = webm_ids'[j].hash => i = j
      <3> TAKE i, j \in 1..Len(webm_ids')
      <3>1. CASE i \in 1..Len(webm_ids) /\ j \in 1..Len(webm_ids)
        BY <2>1, <3>1 DEF WebmIds
      <3>2. CASE i = Len(webm_ids') /\ j = Len(webm_ids')
        BY <3>2
      <3>3. CASE i \in 1..Len(webm_ids) /\ j = Len(webm_ids')
        BY <2>1, <2>5, <3>3
      <3>4. CASE i = Len(webm_ids') /\ j \in 1..Len(webm_ids)
        BY <2>1, <2>5, <3>4
      <3> QED
        BY <2>1, <3>1, <3>2, <3>3, <3>4
    <2> QED
      BY <1>1, <2>1, <2>3, <2>4, <2>6 DEF WebmIds
  <1> QED
    BY <1>1, <1>2, <1>3 DEF ScraperStep

(* Aliases keep their numbers, and a new one gets the next.                *)
LEMMA AliasIdsStep ==
    ASSUME TypeOK, TypeOK', OneRowPerHash', OldWebmElsewhere, Numbering, ScraperStep
    PROVE  /\ AliasIds'
           /\ Len(alias_ids) \in Nat /\ Len(alias_ids') \in Nat /\ Len(alias_ids) <= Len(alias_ids')
           /\ \A i \in 1..Len(alias_ids) : i \in 1..Len(alias_ids') /\ alias_ids'[i] = alias_ids[i]
           /\ \/ UNCHANGED alias_ids
              \/ /\ InsertAlias /\ Len(alias_ids') = Len(alias_ids) + 1
                 /\ alias_ids'[Len(alias_ids')].post = match /\ match \in Post
                 /\ alias_ids'[Len(alias_ids')].path = PathOf(match)
PROOF
  <1>1. /\ alias_ids \in Seq(AliasId) /\ Len(alias_ids) \in Nat /\ Len(webm_ids) \in Nat
        /\ \A i \in 1..Len(webm_ids) : i \in 1..Len(webm_ids') /\ webm_ids'[i] = webm_ids[i]
    BY LenProperties, WebmIdsStep DEF Numbering, AliasIds
  <1>2. aliases \subseteq aliases'
    BY RowsMove DEF ScraperStep, AddAlias
  <1>3. CASE UNCHANGED alias_ids
    BY <1>1, <1>2, <1>3 DEF Numbering, AliasIds
  <1>4. CASE /\ InsertAlias
             /\ alias_ids' = Append(alias_ids,
                    Numbered([hash |-> old_webm.hash, path |-> PathOf(match), post |-> match]))
    <2>1. /\ pc = "alias" /\ match \in Post /\ old_webm \in webms /\ old_webm \in Row
          /\ aliases' = aliases \cup {[hash |-> old_webm.hash, path |-> PathOf(match), post |-> match]}
      BY <1>4 DEF InsertAlias, AddAlias, TypeOK, LocalsTyped, OldWebmElsewhere
    <2>2. PathOf(match) \in Path /\ old_webm.hash \in Content
      BY <2>1, PathOfPost DEF Row
    <2>3. PICK k : k = CHOOSE i \in IdsOfWebms(old_webm.hash) : TRUE
      OBVIOUS
    <2>4. k \in 1..Len(webm_ids) /\ webm_ids[k].hash = old_webm.hash
      <3>1. \E i \in 1..Len(webm_ids) : webm_ids[i] = old_webm
        BY <2>1 DEF Numbering, WebmIds
      <3>2. \E i : i \in IdsOfWebms(old_webm.hash)
        BY <3>1 DEF IdsOfWebms
      <3>3. k \in IdsOfWebms(old_webm.hash)
        BY <2>3, <3>2
      <3> QED
        BY <3>3 DEF IdsOfWebms
    <2>5. PICK a : a = [hash |-> old_webm.hash, path |-> PathOf(match), post |-> match, webm_id |-> k]
      OBVIOUS
    <2>6. /\ a.hash = old_webm.hash /\ a.path = PathOf(match) /\ a.post = match /\ a.webm_id = k
          /\ Numbered([hash |-> old_webm.hash, path |-> PathOf(match), post |-> match]) = a
      BY <2>3, <2>5 DEF Numbered
    <2>7. a \in AliasId
      BY <1>1, <2>1, <2>2, <2>4, <2>5 DEF AliasId
    <2>8. /\ alias_ids' \in Seq(AliasId) /\ Len(alias_ids') = Len(alias_ids) + 1
          /\ \A i \in 1..Len(alias_ids) : i \in 1..Len(alias_ids') /\ alias_ids'[i] = alias_ids[i]
          /\ alias_ids'[Len(alias_ids')] = a
          /\ \A i \in 1..Len(alias_ids') : i \in 1..Len(alias_ids) \/ i = Len(alias_ids')
      BY <1>1, <1>4, <2>6, <2>7, AppendAlias
    <2>9. ASSUME NEW i \in 1..Len(alias_ids')
          PROVE  /\ alias_ids'[i].webm_id \in 1..Len(webm_ids')
                 /\ webm_ids'[alias_ids'[i].webm_id].hash = alias_ids'[i].hash
                 /\ [hash |-> alias_ids'[i].hash, path |-> alias_ids'[i].path, post |-> alias_ids'[i].post]
                        \in aliases'
      <3>1. CASE i = Len(alias_ids')
        BY <1>1, <2>1, <2>4, <2>6, <2>8, <3>1
      <3>2. CASE i \in 1..Len(alias_ids)
        <4>1. /\ alias_ids[i].webm_id \in 1..Len(webm_ids)
              /\ webm_ids[alias_ids[i].webm_id].hash = alias_ids[i].hash
              /\ [hash |-> alias_ids[i].hash, path |-> alias_ids[i].path, post |-> alias_ids[i].post] \in aliases
          BY <3>2 DEF Numbering, AliasIds
        <4> QED
          BY <1>1, <1>2, <2>8, <3>2, <4>1
      <3> QED
        BY <2>8, <3>1, <3>2
    <2>10. AliasIds'
      BY <2>8, <2>9 DEF AliasIds
    <2> QED
      BY <1>1, <1>4, <2>1, <2>6, <2>8, <2>10
  <1> QED
    BY <1>3, <1>4 DEF ScraperStep

(* Page and database agree on the numbers: every row of webms has one, and *)
(* an alias carries that of the webm with its hash.                        *)
LEMMA NumberingInvariant == PageSpec => []Numbering
PROOF
  <1>1. PageInit => Numbering
    <2> SUFFICES ASSUME PageInit PROVE Numbering
      OBVIOUS
    <2>1. webm_ids = <<>> /\ alias_ids = <<>> /\ webms = {}
      BY DEF PageInit, Init
    <2>2. 1..Len(webm_ids) = {} /\ 1..Len(alias_ids) = {} /\ webm_ids \in Seq(Row) /\ alias_ids \in Seq(AliasId)
      BY <2>1
    <2> QED
      BY <2>1, <2>2 DEF Numbering, WebmIds, AliasIds
  <1>2. /\ TypeOK /\ TypeOK' /\ OneRowPerHash' /\ OldWebmElsewhere /\ Numbering /\ [PageNext]_page_vars
        => Numbering'
    <2> SUFFICES ASSUME TypeOK, TypeOK', OneRowPerHash', OldWebmElsewhere, Numbering, [PageNext]_page_vars
                 PROVE  Numbering'
      OBVIOUS
    <2>1. CASE ScraperStep
      BY <2>1, WebmIdsStep, AliasIdsStep DEF Numbering
    <2>2. CASE Page \/ UNCHANGED page_vars
      <3>1. UNCHANGED <<ids, webms, aliases>>
        BY <2>2 DEF Page, AskForPage, HashFile, FindWebm, FindAlias, ListAliases, SendPage, page_vars, vars, tables
      <3> QED
        BY <3>1 DEF ids, Numbering, WebmIds, AliasIds
    <2> QED
      BY <2>1, <2>2 DEF PageNext
  <1> QED
    BY <1>1, <1>2, PagesOnlyRead, Typing, AliasesOfOriginals, PTL DEF PageSpec

(* The request keeps its types.                                            *)
LEMMA RequestStep ==
    ASSUME TypeOK, TypeOK', OneRowPerHash', OldWebmElsewhere, Numbering, RequestTyped, [PageNext]_page_vars
    PROVE  RequestTyped'
PROOF
  <1>0. /\ Len(webm_ids) \in Nat /\ Len(alias_ids) \in Nat
        /\ fs \in [Path -> FileState]
    BY LenProperties DEF Numbering, WebmIds, AliasIds, TypeOK, DurableTyped
  <1>1. CASE ScraperStep
    <2>1. /\ Len(webm_ids') \in Nat /\ Len(webm_ids) <= Len(webm_ids')
          /\ Len(alias_ids') \in Nat /\ Len(alias_ids) <= Len(alias_ids')
      BY <1>1, WebmIdsStep, AliasIdsStep DEF Numbering
    <2>2. UNCHANGED <<page_pc, full_path, image_hash, webm_id, alias_id, shown, page_faults>>
      BY <1>1 DEF ScraperStep, request
    <2> QED
      BY <1>0, <2>1, <2>2 DEF RequestTyped
  <1>2. ASSUME NEW p \in Path, AskForPage(p) PROVE RequestTyped'
    BY <1>2 DEF AskForPage, RequestTyped, ids
  <1>3. CASE HashFile
    <2>1. full_path \in Path
      BY <1>3 DEF HashFile, RequestTyped
    <2>2. image_hash' \in Content \cup {Cut, None}
      <3>1. ASSUME NEW q \in RealPath(full_path) PROVE fs[q].data \in Content \cup {Cut}
        <4>1. q \in Path /\ IsReg(q)
          BY <2>1, <3>1, SinkIsPath DEF RealPath
        <4> QED
          BY <1>0, <4>1, RegularData
      <3> QED
        BY <1>3, <3>1 DEF HashFile
    <2> QED
      BY <1>3, <2>2 DEF HashFile, RequestTyped, ids
  <1>4. ASSUME NEW rows, NEW id, NEW n \in Nat, rows \subseteq 1..n, FoundBy(rows, id), page_faults \in 0..MaxPageFaults
        PROVE  id \in 0..n /\ page_faults' \in 0..MaxPageFaults
    <2>1. id = 0 \/ id \in rows
      BY <1>4 DEF FoundBy
    <2>2. page_faults' = page_faults \/ (page_faults > 0 /\ page_faults' = page_faults - 1)
      BY <1>4 DEF FoundBy
    <2>3. MaxPageFaults \in Nat
      BY DEF PageAssumption
    <2> QED
      <3>1. page_faults' \in 0..MaxPageFaults
        BY <1>4, <2>2, <2>3
      <3>2. CASE id = 0
        BY <3>1, <3>2
      <3>3. CASE id \in rows
        <4>1. id \in 1..n
          BY <1>4, <3>3
        <4> QED
          BY <3>1, <4>1
      <3> QED
        BY <2>1, <3>2, <3>3
  <1>5. CASE FindWebm
    <2>1. IdsOfWebms(image_hash) \subseteq 1..Len(webm_ids)
      BY DEF IdsOfWebms
    <2>2. webm_id' \in 0..Len(webm_ids) /\ page_faults' \in 0..MaxPageFaults
      BY <1>0, <1>4, <1>5, <2>1 DEF FindWebm, RequestTyped
    <2> QED
      BY <1>5, <2>2 DEF FindWebm, RequestTyped, ids
  <1>6. CASE FindAlias
    <2>1. IdsOfAliasesAt(full_path) \subseteq 1..Len(alias_ids)
      BY DEF IdsOfAliasesAt
    <2>2. alias_id' \in 0..Len(alias_ids) /\ page_faults' \in 0..MaxPageFaults
      BY <1>0, <1>4, <1>6, <2>1 DEF FindAlias, RequestTyped
    <2> QED
      BY <1>6, <2>2 DEF FindAlias, RequestTyped, ids
  <1>7. CASE ListAliases
    <2>1. shown' \subseteq 1..Len(alias_ids) /\ page_faults' \in 0..MaxPageFaults
      BY <1>7 DEF ListAliases, AliasesOfWebm, RequestTyped
    <2> QED
      BY <1>7, <2>1 DEF ListAliases, RequestTyped, ids
  <1>8. CASE SendPage
    BY <1>0, <1>8 DEF SendPage, RequestTyped, ids
  <1>9. CASE UNCHANGED page_vars
    BY <1>9 DEF page_vars, request, ids, RequestTyped
  <1> QED
    BY <1>1, <1>2, <1>3, <1>5, <1>6, <1>7, <1>8, <1>9 DEF PageNext, Page

(* The request has its types in every history.                             *)
LEMMA RequestInvariant == PageSpec => []RequestTyped
PROOF
  <1>1. PageInit => RequestTyped
    <2> SUFFICES ASSUME PageInit PROVE RequestTyped
      OBVIOUS
    <2>1. Len(webm_ids) = 0 /\ Len(alias_ids) = 0
      BY DEF PageInit
    <2> QED
      BY <2>1 DEF PageInit, RequestTyped
  <1>2. /\ TypeOK /\ TypeOK' /\ OneRowPerHash' /\ OldWebmElsewhere /\ Numbering /\ RequestTyped
        /\ [PageNext]_page_vars
        => RequestTyped'
    BY RequestStep
  <1> QED
    BY <1>1, <1>2, PagesOnlyRead, NumberingInvariant, Typing, AliasesOfOriginals, PTL DEF PageSpec

(* Type correctness of the pages and of the numbers they show: no page     *)
(* goes by the number of a row that is not there.                          *)
THEOREM PageTyping == PageSpec => []PageTypeOK
PROOF
  <1>1. Numbering /\ RequestTyped => PageTypeOK
    <2> SUFFICES ASSUME Numbering, RequestTyped PROVE PageTypeOK
      OBVIOUS
    <2> DEFINE A == [hash : Content, path : Path, post : Post, webm_id : 1..Len(webm_ids)]
    <2>1. alias_ids \in Seq(AliasId) /\ Len(alias_ids) \in Nat
      BY LenProperties DEF Numbering, AliasIds
    <2>2. \A i \in 1..Len(alias_ids) : alias_ids[i] \in A
      <3> TAKE i \in 1..Len(alias_ids)
      <3>1. alias_ids[i] \in AliasId /\ alias_ids[i].webm_id \in 1..Len(webm_ids)
        BY <2>1, ElementOfSeq DEF Numbering, AliasIds
      <3> QED
        BY <3>1 DEF AliasId
    <2> HIDE DEF A
    <2>3. alias_ids = [i \in 1..Len(alias_ids) |-> alias_ids[i]]
      BY <2>1
    <2>4. alias_ids \in [1..Len(alias_ids) -> A]
      BY <2>2, <2>3
    <2>5. alias_ids \in Seq(A)
      BY <2>1, <2>4, SeqDef
    <2> QED
      BY <2>5 DEF A, RequestTyped, PageTypeOK, Numbering, WebmIds
  <1> QED
    BY <1>1, NumberingInvariant, RequestInvariant, PTL

(***************************************************************************)
(* What a page finds.  The place of an original and a link to it, once     *)
(* there, stay and lead to the content of the row, so that it does not     *)
(* matter when the page reads the file and when it asks the database.      *)
(***************************************************************************)
LEMMA LinksStay ==
    ASSUME ErrorBody = {}, Files, [Next]_vars, NEW p \in Path, IsLink(p)
    PROVE  fs'[p] = fs[p]
PROOF
  <1>1. /\ fs \in [Path -> FileState] /\ LocalsTyped /\ FileInHand
        /\ RowsBacked /\ Sized /\ LinksToRows /\ TypeOK
    BY DEF Files, FilesInv, TypeOK, DurableTyped
  <1>2. CASE UNCHANGED fs
    BY <1>2
  <1>3. ASSUME ~IsLink(PathOf(match)), NEW f, fs' = [fs EXCEPT ![PathOf(match)] = f] PROVE fs'[p] = fs[p]
    BY <1>1, <1>3
  <1>4. CASE OpenImage
    <2>1. fs[PathOf(match)] \in {Absent, Reg(Cut)} /\ Sink(PathOf(match)) = {PathOf(match)}
      BY <1>1, <1>4, DownloadsIntoPlace DEF OpenImage
    <2>2. ~IsLink(PathOf(match))
      BY <2>1, Kinds DEF IsLink
    <2> QED
      BY <1>3, <1>4, <2>1, <2>2 DEF OpenImage
  <1>5. CASE FetchImage \/ Unlink
    <2>1. match \in Post /\ \E d : fs[PathOf(match)] = Reg(d)
      BY <1>1, <1>5 DEF FetchImage, Unlink, LocalsTyped, FileInHand
    <2>2. ~IsLink(PathOf(match)) /\ IsReg(PathOf(match)) /\ PathOf(match) \in Path
      BY <2>1, Kinds, PathOfPost DEF IsLink, IsReg
    <2>3. Sink(PathOf(match)) = {PathOf(match)} /\ RealPath(PathOf(match)) = {PathOf(match)}
      BY <2>2, PlainSink
    <2> QED
      BY <1>3, <1>5, <2>2, <2>3 DEF FetchImage, Unlink
  <1>6. CASE Symlink
    <2>1. fs[PathOf(match)] = Absent /\ real_fpath = PathOf(match)
      BY <1>1, <1>6 DEF Symlink, FileInHand
    <2>2. ~IsLink(PathOf(match))
      BY <2>1, Kinds DEF IsLink
    <2> QED
      BY <1>2, <1>3, <1>6, <2>1, <2>2 DEF Symlink
  <1>7. CASE ~OpenImage /\ ~FetchImage /\ ~Unlink /\ ~Symlink
    <2>1. UNCHANGED fs
      BY <1>7 DEF Next, NewPost, Scraper, Indexing, Downloading, Recording, StartCycle, ReadCatalog, ReadThread,
          IndexPost, IndexDone, PopMatch, CycleDone, SaveThread, InsertPost, SkipDownload, ThumbFails, FetchFails,
          InsertWebm, NotRecorded, FoundItself, FoundOriginal, InsertAlias, KeepAliases, RefuseLink, Crash,
          Restart, vars
    <2> QED
      BY <1>2, <2>1
  <1> QED
    BY <1>4, <1>5, <1>6, <1>7

(* What is catalogued stays catalogued, whatever the scraper does.         *)
LEMMA CataloguedStays ==
    ASSUME ErrorBody = {}, Files, Files', Numbering, ScraperStep, NEW p \in Path
    PROVE  Catalogued(p) \subseteq Catalogued(p)'
PROOF
  <1> SUFFICES ASSUME NEW i \in Catalogued(p) PROVE i \in Catalogued(p)'
    OBVIOUS
  <1>1. i \in 1..Len(webm_ids) /\ (webm_ids[i].path = p \/ fs[p] = Link(webm_ids[i].path))
    BY DEF Catalogued
  <1>2. i \in 1..Len(webm_ids') /\ webm_ids'[i] = webm_ids[i]
    BY <1>1, WebmIdsStep DEF Numbering, Files
  <1>3. CASE webm_ids[i].path = p
    BY <1>2, <1>3 DEF Catalogued
  <1>4. CASE fs[p] = Link(webm_ids[i].path)
    <2>1. IsLink(p)
      BY <1>4, Kinds DEF IsLink
    <2>2. fs'[p] = Link(webm_ids'[i].path)
      BY <1>2, <1>4, <2>1, LinksStay DEF ScraperStep
    <2> QED
      BY <1>2, <2>2 DEF Catalogued
  <1> QED
    BY <1>1, <1>3, <1>4

(* What is read where a row or a link says that it is.                     *)
LEMMA CataloguedIsRead ==
    ASSUME ErrorBody = {}, Files, Numbering, NEW p \in Path, NEW i \in Catalogued(p)
    PROVE  \E f \in Path : RealPath(p) = {f} /\ fs[f].data = webm_ids[i].hash
PROOF
  <1>1. i \in 1..Len(webm_ids) /\ (webm_ids[i].path = p \/ fs[p] = Link(webm_ids[i].path))
    BY DEF Catalogued
  <1>2. PICK r \in webms : r = webm_ids[i]
    BY <1>1 DEF Numbering, WebmIds
  <1>3. r \in Row /\ r.path \in Path /\ fs[r.path] = Reg(r.hash)
    <2>1. r \in Row
      BY <1>2 DEF Files, TypeOK, DurableTyped
    <2> QED
      BY <1>2, <2>1 DEF Row, Files, FilesInv, RowsBacked
  <1>4. IsReg(r.path) /\ ~IsLink(r.path) /\ fs[r.path].data = r.hash
    BY <1>3, Kinds DEF IsReg, IsLink
  <1>5. RealPath(r.path) = {r.path}
    BY <1>3, <1>4, PlainSink
  <1>6. CASE r.path = p
    BY <1>2, <1>4, <1>5, <1>6
  <1>7. CASE fs[p] = Link(r.path)
    <2>1. IsLink(p) /\ fs[p].to = r.path /\ ~IsReg(p)
      BY <1>7, Kinds DEF IsLink, IsReg, Link
    <2>2. r.path \in Sink(p)
      BY <1>3, <1>4, <2>1, OneLinkSink
    <2>3. \A g \in Sink(p) : g = r.path
      <3> TAKE g \in Sink(p)
      <3>1. g \in Path \ Links /\ LeadsTo(p, g)
        BY <2>1 DEF Sink
      <3>2. {p} \in SUBSET Links /\ p \in {p} /\ ClosedUnderLinks({p})
        <4>1. r.path \notin Links
          BY <1>4 DEF Links
        <4> QED
          BY <2>1, <4>1 DEF Links, ClosedUnderLinks
      <3>3. \E l \in {p} : fs[l].to = g
        BY <3>1, <3>2 DEF LeadsTo
      <3> QED
        BY <2>1, <3>3
    <2>4. RealPath(p) = {r.path}
      BY <1>4, <2>2, <2>3 DEF RealPath
    <2> QED
      BY <1>2, <1>3, <1>4, <2>4
  <1> QED
    BY <1>1, <1>2, <1>6, <1>7

(* Every webm is found by its hash, and under one number.                  *)
LEMMA OneIdPerHash ==
    ASSUME Numbering
    PROVE  /\ \A i \in 1..Len(webm_ids) : i \in IdsOfWebms(webm_ids[i].hash)
           /\ \A h : \A i, j \in IdsOfWebms(h) : i = j
PROOF BY DEF IdsOfWebms, Numbering, WebmIds

(* Every step keeps the webm that is due within reach of the request.      *)
LEMMA WebmDueStep ==
    ASSUME ErrorBody = {}, Files, Files', Numbering, RequestTyped, RequestTyped', WebmDue, [PageNext]_page_vars
    PROVE  WebmDue'
PROOF
  <1> SUFFICES ASSUME NoQueryFailed'
               PROVE  /\ page_pc' = "hash" => due.webm' \subseteq Catalogued(full_path)'
                      /\ page_pc' = "row" => due.webm' \subseteq IdsOfWebms(image_hash)'
                      /\ page_pc' \in {"alias", "list", "done"} => due.webm' \subseteq {webm_id'}
    BY DEF WebmDue
  <1>1. CASE ScraperStep
    <2>1. UNCHANGED <<page_pc, full_path, image_hash, webm_id, page_faults, due>>
      BY <1>1 DEF ScraperStep, request
    <2>2. NoQueryFailed
      BY <2>1 DEF NoQueryFailed
    <2>3. page_pc = "hash" => Catalogued(full_path) \subseteq Catalogued(full_path)'
      <3> SUFFICES ASSUME page_pc = "hash" PROVE Catalogued(full_path) \subseteq Catalogued(full_path)'
        OBVIOUS
      <3>1. PICK p \in Path : p = full_path
        BY DEF RequestTyped
      <3>2. Catalogued(p) \subseteq Catalogued(p)'
        BY <1>1, CataloguedStays
      <3> QED
        BY <2>1, <3>1, <3>2 DEF Catalogued
    <2>4. IdsOfWebms(image_hash) \subseteq IdsOfWebms(image_hash)'
      BY <1>1, <2>1, WebmIdsStep DEF IdsOfWebms, Numbering, Files
    <2> QED
      BY <2>1, <2>2, <2>3, <2>4 DEF WebmDue
  <1>2. ASSUME NEW p \in Path, AskForPage(p)
        PROVE  page_pc' = "hash" /\ due.webm' \subseteq Catalogued(full_path)'
    <2>1. page_pc' = "hash" /\ full_path' = p /\ UNCHANGED <<webm_ids, fs>> /\ due'.webm = Catalogued(p)
      BY <1>2 DEF AskForPage, vars, ids
    <2> QED
      BY <2>1 DEF Catalogued
  <1>3. CASE HashFile
    <2>1. page_pc = "hash" /\ page_pc' = "row" /\ UNCHANGED <<webm_ids, full_path, due, page_faults>>
      BY <1>3 DEF HashFile, ids
    <2>2. ASSUME NEW i \in due.webm PROVE i \in IdsOfWebms(image_hash)'
      <3>1. full_path \in Path /\ i \in Catalogued(full_path)
        BY <2>1, <2>2 DEF RequestTyped, WebmDue, NoQueryFailed
      <3>2. PICK f \in Path : RealPath(full_path) = {f} /\ fs[f].data = webm_ids[i].hash
        BY <3>1, CataloguedIsRead
      <3>3. image_hash' = webm_ids[i].hash
        BY <1>3, <3>2 DEF HashFile
      <3> QED
        BY <2>1, <3>1, <3>3 DEF IdsOfWebms, Catalogued
    <2> QED
      BY <2>1, <2>2
  <1>4. CASE FindWebm
    <2>1. /\ page_pc = "row" /\ page_pc' = "alias" /\ UNCHANGED due
          /\ FoundBy(IdsOfWebms(image_hash), webm_id')
          /\ page_faults \in 0..MaxPageFaults /\ MaxPageFaults \in Nat
      BY <1>4 DEF FindWebm, RequestTyped, PageAssumption
    <2>2. UNCHANGED page_faults /\ IF IdsOfWebms(image_hash) = {} THEN webm_id' = 0
                                                                  ELSE webm_id' \in IdsOfWebms(image_hash)
      BY <2>1 DEF FoundBy, NoQueryFailed
    <2>3. due.webm \subseteq IdsOfWebms(image_hash)
      BY <2>1, <2>2 DEF WebmDue, NoQueryFailed
    <2> QED
      BY <2>1, <2>2, <2>3, OneIdPerHash
  <1>5. CASE FindAlias \/ ListAliases
    <2>1. /\ page_pc \in {"alias", "list"} /\ page_pc' \in {"list", "done"} /\ UNCHANGED <<due, webm_id>>
          /\ page_faults' = page_faults \/ (page_faults > 0 /\ page_faults' = page_faults - 1)
          /\ page_faults \in 0..MaxPageFaults /\ MaxPageFaults \in Nat
      BY <1>5 DEF FindAlias, ListAliases, FoundBy, RequestTyped, PageAssumption
    <2>2. NoQueryFailed
      BY <2>1 DEF NoQueryFailed
    <2> QED
      BY <2>1, <2>2 DEF WebmDue
  <1>6. CASE SendPage
    BY <1>6 DEF SendPage
  <1>7. CASE UNCHANGED page_vars
    BY <1>7 DEF page_vars, request, ids, vars, WebmDue, NoQueryFailed, Catalogued, IdsOfWebms
  <1> QED
    BY <1>1, <1>2, <1>3, <1>4, <1>5, <1>6, <1>7 DEF PageNext, Page

(* The webm that is due is within reach in every history.                  *)
LEMMA WebmDueInvariant ==
    ASSUME ErrorBody = {}
    PROVE  PageSpec => []WebmDue
PROOF
  <1>1. PageInit => WebmDue
    BY DEF PageInit, WebmDue
  <1>2. /\ Files /\ Files' /\ Numbering /\ RequestTyped /\ RequestTyped' /\ WebmDue /\ [PageNext]_page_vars
        => WebmDue'
    BY WebmDueStep
  <1> QED
    BY <1>1, <1>2, PagesOnlyRead, FilesInvariant, NumberingInvariant, RequestInvariant, PTL DEF PageSpec

(* The page of a file that had a row, or of a link to one, is the page of  *)
(* that row, whatever the scraper did while it was made.                   *)
THEOREM PageIsOfTheRow ==
    ASSUME ErrorBody = {}
    PROVE  PageSpec => []PageFindsFile
PROOF
  <1>1. WebmDue => PageFindsFile
    BY DEF WebmDue, PageFindsFile
  <1> QED
    BY <1>1, WebmDueInvariant, PTL

(* Every step keeps the aliases that are due among those of the webm.      *)
LEMMA AliasesDueStep ==
    ASSUME Files, Files', Numbering, RequestTyped, WebmDue, AliasesDue, [PageNext]_page_vars
    PROVE  AliasesDue'
PROOF
  <1>0. /\ Len(webm_ids) \in Nat /\ Len(alias_ids) \in Nat
        /\ MaxPageFaults \in Nat /\ page_faults \in 0..MaxPageFaults
        /\ page_faults' \in 0..MaxPageFaults \/ page_faults' = page_faults \/ page_faults' = page_faults - 1
    BY LenProperties DEF Numbering, WebmIds, AliasIds, PageAssumption, RequestTyped, PageNext, ScraperStep, Page,
       AskForPage, HashFile, FindWebm, FindAlias, ListAliases, SendPage, FoundBy, page_vars
  <1>1. CASE ScraperStep
    <2>1. UNCHANGED <<page_pc, shown, page_faults, due>>
      BY <1>1 DEF ScraperStep, request
    <2>2. /\ \A i \in 1..Len(webm_ids) : i \in 1..Len(webm_ids')
          /\ \A i \in 1..Len(alias_ids) : i \in 1..Len(alias_ids') /\ alias_ids'[i] = alias_ids[i]
      BY <1>1, WebmIdsStep, AliasIdsStep DEF Numbering, Files
    <2> QED
      BY <2>1, <2>2 DEF AliasesDue, NoQueryFailed
  <1>2. ASSUME NEW p \in Path, AskForPage(p) PROVE AliasesDue'
    <2>1. /\ page_pc' = "hash" /\ UNCHANGED <<webm_ids, alias_ids>>
          /\ due'.webm = Catalogued(p) /\ due'.aliases = UNION {Reposts(i) : i \in Catalogued(p)}
      BY <1>2 DEF AskForPage, ids
    <2>2. Catalogued(p) \subseteq 1..Len(webm_ids)
      BY DEF Catalogued
    <2>3. ASSUME NEW i \in Catalogued(p), NEW a \in Reposts(i)
          PROVE  a \in 1..Len(alias_ids) /\ alias_ids[a].webm_id = i
      <3>1. a \in 1..Len(alias_ids) /\ alias_ids[a].hash = webm_ids[i].hash
        BY <2>3 DEF Reposts
      <3>2. /\ alias_ids[a].webm_id \in 1..Len(webm_ids)
            /\ webm_ids[alias_ids[a].webm_id].hash = webm_ids[i].hash
        BY <3>1 DEF Numbering, AliasIds
      <3> QED
        BY <2>2, <2>3, <3>1, <3>2 DEF Numbering, WebmIds
    <2> QED
      BY <2>1, <2>2, <2>3 DEF AliasesDue
  <1>3. CASE HashFile \/ FindWebm \/ FindAlias
    <2>1. UNCHANGED <<webm_ids, alias_ids, due>> /\ page_pc' # "done"
      BY <1>3 DEF HashFile, FindWebm, FindAlias, ids
    <2> QED
      BY <2>1 DEF AliasesDue
  <1>4. CASE ListAliases
    <2>1. UNCHANGED <<webm_ids, alias_ids, due>> /\ page_pc = "list"
      BY <1>4 DEF ListAliases, ids
    <2>2. ASSUME NoQueryFailed', NEW a \in due.aliases PROVE a \in shown'
      <3>1. page_faults = MaxPageFaults /\ shown' = AliasesOfWebm(PageId)
        BY <1>0, <1>4, <2>2 DEF ListAliases, NoQueryFailed
      <3>2. due.webm \subseteq {webm_id}
        BY <2>1, <3>1 DEF WebmDue, NoQueryFailed
      <3>3. a \in 1..Len(alias_ids) /\ alias_ids[a].webm_id \in due.webm /\ due.webm \subseteq 1..Len(webm_ids)
        BY <2>2 DEF AliasesDue
      <3>4. alias_ids[a].webm_id = webm_id /\ webm_id # 0
        BY <3>2, <3>3
      <3> QED
        BY <3>1, <3>3, <3>4 DEF AliasesOfWebm, PageId
    <2> QED
      BY <2>1, <2>2 DEF AliasesDue
  <1>5. CASE SendPage
    <2>1. UNCHANGED <<webm_ids, alias_ids>> /\ page_pc' = "idle" /\ due'.webm = {} /\ due'.aliases = {}
      BY <1>5 DEF SendPage, NothingDue, ids
    <2> QED
      BY <2>1 DEF AliasesDue
  <1>6. CASE UNCHANGED page_vars
    BY <1>6 DEF page_vars, request, ids, AliasesDue, NoQueryFailed
  <1> QED
    BY <1>1, <1>2, <1>3, <1>4, <1>5, <1>6 DEF PageNext, Page

(* ... and it lists every repost known when the page was asked for.        *)
THEOREM PageHasTheReposts ==
    ASSUME ErrorBody = {}
    PROVE  PageSpec => []PageListsReposts
PROOF
  <1>1. PageInit => AliasesDue
    <2> SUFFICES ASSUME PageInit PROVE AliasesDue
      OBVIOUS
    <2>1. due.webm = {} /\ due.aliases = {}
      BY DEF PageInit, NothingDue
    <2> QED
      BY <2>1 DEF AliasesDue
  <1>2. /\ Files /\ Files' /\ Numbering /\ RequestTyped /\ WebmDue /\ AliasesDue /\ [PageNext]_page_vars
        => AliasesDue'
    BY AliasesDueStep
  <1>3. AliasesDue => PageListsReposts
    BY DEF AliasesDue, PageListsReposts
  <1> QED
    BY <1>1, <1>2, <1>3, PagesOnlyRead, FilesInvariant, NumberingInvariant, RequestInvariant, WebmDueInvariant, PTL
    DEF PageSpec

(***************************************************************************)
(* The count of posts on the page of a thread: a post brings one webm and  *)
(* one alias at most, until two things have failed.                        *)
(***************************************************************************)
LEMMA HashOfPostInvariant ==
    ASSUME ErrorBody = {}
    PROVE  Spec => []HashOfPost
PROOF
  <1>1. Init => HashOfPost
    BY DEF Init, HashOfPost
  <1>2. Files /\ HashOfPost /\ [Next]_vars => HashOfPost'
    <2> SUFFICES ASSUME Files, HashOfPost, [Next]_vars, NEW r \in webms' PROVE r.hash = ImageOf[r.post]
      BY DEF HashOfPost
    <2>1. CASE r \in webms
      BY <2>1 DEF HashOfPost
    <2>2. CASE r \notin webms
      <3>1. InsertWebm
        BY <2>2, RowsMove DEF Files
      <3>2. AddWebm(ImageOf[match], match)
        BY <3>1, ViewInHand DEF InsertWebm
      <3> QED
        BY <2>2, <3>2 DEF AddWebm
    <2> QED
      BY <2>1, <2>2
  <1> QED
    BY <1>1, <1>2, FilesInvariant, PTL DEF Spec

(* There are finitely many posts at any time.                              *)
LEMMA PostsFinite == Spec => []IsFiniteSet(posts)
PROOF
  <1>1. Init => IsFiniteSet(posts)
    BY FS_EmptySet DEF Init
  <1>2. IsFiniteSet(posts) /\ [Next]_vars => IsFiniteSet(posts)'
    <2> SUFFICES ASSUME IsFiniteSet(posts), [Next]_vars PROVE IsFiniteSet(posts')
      OBVIOUS
    <2>1. posts' = posts \/ posts' = posts \cup {match}
      <3>1. CASE InsertPost
        BY <3>1 DEF InsertPost, AddPost
      <3>2. CASE ~InsertPost
        BY <3>2 DEF Next, NewPost, Scraper, Indexing, Downloading, Recording, StartCycle, ReadCatalog, ReadThread,
            IndexPost, IndexDone, PopMatch, CycleDone, SaveThread, SkipDownload, OpenImage, ThumbFails, FetchImage,
            FetchFails, InsertWebm, NotRecorded, FoundItself, FoundOriginal, InsertAlias, KeepAliases, RefuseLink,
            Unlink, Symlink, Crash, Restart, vars, tables
      <3> QED
        BY <3>1, <3>2
    <2>2. IsFiniteSet(posts \cup {match})
      BY FS_AddElement
    <2> QED
      BY <2>1, <2>2
  <1> QED
    BY <1>1, <1>2, PTL DEF Spec

(* At most one more than the least is at most one more than any number     *)
(* above it.                                                               *)
LEMMA OrderedDistance == \A l, m, n \in Nat : l <= m /\ n - l <= 1 => n - m <= 1
PROOF OBVIOUS

(* An alias is inserted twice for a post only after the lookup of the      *)
(* first one failed, and only where something failed before: otherwise the *)
(* path of an alias is in repair, and its file is not downloaded again.    *)
LEMMA OneAliasStep ==
    ASSUME TypeOK, TypeOK', OneRowPerHash', OldWebmElsewhere, CostInv, FromListings, Numbering, OneAliasEach,
           [PageNext]_page_vars
    PROVE  OneAliasEach'
PROOF
  <1>1. faults \in Nat /\ faults' \in Nat /\ MaxFaults \in Nat /\ faults <= MaxFaults /\ faults' <= faults
    <2>1. [Next]_vars
      BY DEF PageNext, ScraperStep, Page, AskForPage, HashFile, FindWebm, FindAlias, ListAliases, SendPage, page_vars
    <2>2. (faults' = faults - 1 \/ faults' = faults) /\ faults \in 0..MaxFaults /\ faults' \in 0..MaxFaults
      BY <2>1, FaultOrNot
    <2>3. MaxFaults \in Nat
      BY SiteAssumption
    <2> QED
      BY <2>2, <2>3
  <1>2. CASE UNCHANGED alias_ids
    <2>1. MaxFaults - faults' <= 1 => MaxFaults - faults <= 1
      BY <1>1, OrderedDistance
    <2> QED
      BY <1>2, <2>1 DEF OneAliasEach
  <1>3. ASSUME ScraperStep, ~UNCHANGED alias_ids, MaxFaults - faults' <= 1,
               NEW i \in 1..Len(alias_ids'), NEW j \in 1..Len(alias_ids'), alias_ids'[i].post = alias_ids'[j].post
        PROVE  i = j
    <2>1. /\ InsertAlias /\ Len(alias_ids) \in Nat /\ Len(alias_ids') = Len(alias_ids) + 1
          /\ alias_ids'[Len(alias_ids')].post = match /\ match \in Post
          /\ \A k \in 1..Len(alias_ids) : alias_ids'[k] = alias_ids[k]
      BY <1>3, AliasIdsStep
    <2>2. AliasRowsAt(PathOf(match)) = {}
      <3> SUFFICES ASSUME AliasRowsAt(PathOf(match)) # {} PROVE FALSE
        OBVIOUS
      <3>1. Fault /\ pc = "alias" /\ match # None
        BY <2>1, NoneAssumption DEF InsertAlias
      <3>2. faults = MaxFaults
        BY <1>1, <1>3, <3>1 DEF Fault
      <3>3. OnCourse
        BY <3>1, <3>2, CostInvNoFault
      <3> QED
        BY <3>1, <3>3 DEF OnCourse
    <2>3. \A k \in 1..Len(alias_ids) : alias_ids[k].post # match
      <3> SUFFICES ASSUME NEW k \in 1..Len(alias_ids), alias_ids[k].post = match PROVE FALSE
        OBVIOUS
      <3>1. PICK a : a = [hash |-> alias_ids[k].hash, path |-> alias_ids[k].path, post |-> alias_ids[k].post]
        OBVIOUS
      <3>2. a \in aliases /\ a.post = match
        BY <3>1 DEF Numbering, AliasIds
      <3>3. a.path = PathOf(match)
        BY <3>2 DEF FromListings
      <3> QED
        BY <2>2, <3>2, <3>3 DEF AliasRowsAt
    <2>4. \A k, l \in 1..Len(alias_ids) : alias_ids[k].post = alias_ids[l].post => k = l
      <3>1. MaxFaults - faults <= 1
        BY <1>1, <1>3, OrderedDistance
      <3> QED
        BY <3>1 DEF OneAliasEach
    <2>5. CASE i \in 1..Len(alias_ids) /\ j \in 1..Len(alias_ids)
      BY <1>3, <2>1, <2>4, <2>5
    <2>6. CASE i = Len(alias_ids') /\ j \in 1..Len(alias_ids)
      BY <1>3, <2>1, <2>3, <2>6
    <2>7. CASE j = Len(alias_ids') /\ i \in 1..Len(alias_ids)
      BY <1>3, <2>1, <2>3, <2>7
    <2>8. \A k \in 1..Len(alias_ids') : k \in 1..Len(alias_ids) \/ k = Len(alias_ids')
      BY <2>1
    <2> QED
      BY <2>5, <2>6, <2>7, <2>8
  <1>4. CASE Page \/ UNCHANGED page_vars
    <2>1. UNCHANGED alias_ids
      BY <1>4 DEF Page, AskForPage, HashFile, FindWebm, FindAlias, ListAliases, SendPage, page_vars, ids
    <2> QED
      BY <1>2, <2>1
  <1> QED
    BY <1>2, <1>3, <1>4 DEF PageNext, OneAliasEach

(* A thread's page counts its posts, each of them once.                    *)
LEMMA CountedOnce ==
    ASSUME IsFiniteSet(posts), NEW t,
           \A p : \A x, y \in Joined(webm_ids, p) : x = y,
           \A p : \A x, y \in Joined(alias_ids, p) : x = y
    PROVE  Total(t) = Cardinality({p \in posts : ThreadOf[p] = t})
PROOF
  <1> DEFINE S == {p \in posts : ThreadOf[p] = t}
             T == PostsByThread(t)
             f == [p \in S |-> CHOOSE x \in T : x[1] = p]
  <1>1. IsFiniteSet(S)
    BY FS_Subset
  <1>2. \A p : Joined(webm_ids, p) # {} /\ Joined(alias_ids, p) # {}
    BY DEF Joined
  <1>3. ASSUME NEW p \in S PROVE \E x \in T : x[1] = p
    <2>1. PICK w \in Joined(webm_ids, p), a \in Joined(alias_ids, p) : TRUE
      BY <1>2
    <2>2. <<p, w, a>> \in {p} \X Joined(webm_ids, p) \X Joined(alias_ids, p)
      OBVIOUS
    <2>3. <<p, w, a>> \in T
      BY <2>2 DEF PostsByThread
    <2> QED
      BY <2>3
  <1>4. ASSUME NEW x \in T
        PROVE  x[1] \in S /\ x[2] \in Joined(webm_ids, x[1]) /\ x[3] \in Joined(alias_ids, x[1])
               /\ x = <<x[1], x[2], x[3]>>
    <2>1. PICK p \in S : x \in {p} \X Joined(webm_ids, p) \X Joined(alias_ids, p)
      BY <1>4 DEF PostsByThread
    <2> QED
      BY <2>1
  <1>5. \A x, y \in T : x[1] = y[1] => x = y
    BY <1>4
  <1> HIDE DEF S, T
  <1>6. \A p \in S : f[p] \in T /\ f[p][1] = p
    BY <1>3
  <1>7. f \in [S -> T]
    BY <1>6
  <1> HIDE DEF f
  <1>8. \A p, q \in S : f[p] = f[q] => p = q
    BY <1>6
  <1>9. \A x \in T : \E p \in S : f[p] = x
    BY <1>4, <1>5, <1>6
  <1>10. f \in Bijection(S, T)
    BY <1>7, <1>8, <1>9, Fun_IsBij
  <1>11. ExistsBijection(S, T)
    BY <1>10 DEF ExistsBijection
  <1>12. Cardinality(T) = Cardinality(S)
    BY <1>1, <1>11, FS_Bijection
  <1> QED
    BY <1>12 DEF S, T, Total

(* A post is on the page of its thread once, whatever is downloaded again  *)
(* and recorded again, until two things have failed.                       *)
THEOREM ThreadPageCounts ==
    ASSUME ErrorBody = {}
    PROVE  PageSpec => []CountsPostsOnce
PROOF
  <1>1. PageInit => OneAliasEach
    <2> SUFFICES ASSUME PageInit PROVE OneAliasEach
      OBVIOUS
    <2>1. 1..Len(alias_ids) = {}
      BY DEF PageInit
    <2> QED
      BY <2>1 DEF OneAliasEach
  <1>2. /\ TypeOK /\ TypeOK' /\ OneRowPerHash' /\ OldWebmElsewhere /\ CostInv /\ FromListings /\ Numbering
        /\ OneAliasEach /\ [PageNext]_page_vars
        => OneAliasEach'
    BY OneAliasStep
  <1>3. OneAliasEach /\ HashOfPost /\ Numbering /\ IsFiniteSet(posts) => CountsPostsOnce
    <2> SUFFICES ASSUME OneAliasEach, HashOfPost, Numbering, IsFiniteSet(posts), MaxFaults - faults <= 1,
                        NEW t \in Thread
                 PROVE  Total(t) = Cardinality({p \in posts : ThreadOf[p] = t})
      BY DEF CountsPostsOnce
    <2>1. \A i, j \in 1..Len(webm_ids) : webm_ids[i].post = webm_ids[j].post => i = j
      BY DEF HashOfPost, Numbering, WebmIds
    <2>2. \A i, j \in 1..Len(alias_ids) : alias_ids[i].post = alias_ids[j].post => i = j
      BY DEF OneAliasEach
    <2>3. \A p : \A x, y \in Joined(webm_ids, p) : x = y
      BY <2>1 DEF Joined
    <2>4. \A p : \A x, y \in Joined(alias_ids, p) : x = y
      BY <2>2 DEF Joined
    <2> QED
      BY <2>3, <2>4, CountedOnce
  <1> QED
    BY <1>1, <1>2, <1>3, PagesOnlyRead, Typing, AliasesOfOriginals, CostInvariant, ListingsInvariant,
       NumberingInvariant, HashOfPostInvariant, PostsFinite, PTL DEF PageSpec
=============================================================================
