---------------------------- MODULE NamesProofs ----------------------------
(***************************************************************************)
(* Proofs about Names, for names of any length and buffers of any size.    *)
(***************************************************************************)
EXTENDS Names, SequenceTheorems, WellFoundedInduction, TLAPS

USE NamesAssumption

Unit == Stored \cup Decoration
Place == {"webms/", "board", "/"}
Received == Sent \cup {"quotation", "other"}

(* What the prover is told of induction: a set of numbers has a least one. *)
LEMMA LeastNumber ==
    ASSUME NEW S \in SUBSET Nat, S # {}
    PROVE  \E n \in S : \A m \in S : n <= m
PROOF
  <1> DEFINE R == OpToRel(<, Nat)
  <1>1. IsWellFoundedOn(R, Nat)
    BY NatLessThanWellFounded
  <1>2. \A x, y \in Nat : <<y, x>> \in R <=> y < x
    BY DEF OpToRel
  <1> HIDE DEF R
  <1>3. PICK n \in S : \A m \in S : ~(<<m, n>> \in R)
    BY <1>1, WFMin
  <1>4. \A m \in S : ~(m < n)
    BY <1>2, <1>3
  <1> QED
    BY <1>4

(***************************************************************************)
(* The link, and what the operators on sequences give.                     *)
(***************************************************************************)
LEMMA NameIsSequence ==
    ASSUME name \in NamesOf
    PROVE  name \in Seq(Stored) /\ Len(name) \in Nat
PROOF
  <1>1. PICK n \in 0..MaxLength : name \in [1..n -> Stored]
    BY DEF NamesOf
  <1>2. name \in Seq(Stored)
    BY <1>1, SeqDef
  <1> QED
    BY <1>2, LenProperties

(* A link ends in an extension, and only names hold what HTML marks.       *)
LEMMA LinkIsDecorated ==
    ASSUME name \in NamesOf, kind \in {"webm", "thumb"}
    PROVE  /\ Link \in Seq(Unit) /\ Len(Link) \in Nat \ {0}
           /\ Link[Len(Link)] \in {".webm", ".jpg"}
           /\ \A k \in 1..Len(Link) : Link[k] \in Unit
           /\ \A k \in 1..Len(Link) : Link[k] = "#" => \E l \in 1..Len(name) : name[l] = "#"
           /\ DOMAIN Link = 1..Len(Link)
PROOF
  <1>1. name \in Seq(Unit) /\ Len(name) \in Nat
    BY NameIsSequence DEF Unit
  <1>2. CASE kind = "webm"
    <2>1. <<".webm">> \in Seq(Unit) /\ Len(<<".webm">>) = 1 /\ <<".webm">>[1] = ".webm"
      BY DEF Unit, Decoration
    <2>2. Link = name \o <<".webm">>
      BY <1>2 DEF Link
    <2>3. Link \in Seq(Unit) /\ Len(Link) = Len(name) + 1
      BY <1>1, <2>1, <2>2, ConcatProperties
    <2>4. \A k \in 1..Len(Link) : Link[k] = IF k <= Len(name) THEN name[k] ELSE ".webm"
      BY <1>1, <2>1, <2>2, <2>3, ConcatProperties
    <2> QED
      BY <1>1, <2>3, <2>4, LenProperties, ElementOfSeq
  <1>3. CASE kind = "thumb"
    <2> DEFINE front == <<"t/thumb_">> \o name
    <2>1. <<"t/thumb_">> \in Seq(Unit) /\ Len(<<"t/thumb_">>) = 1 /\ <<"t/thumb_">>[1] = "t/thumb_"
      BY DEF Unit, Decoration
    <2>2. <<".jpg">> \in Seq(Unit) /\ Len(<<".jpg">>) = 1 /\ <<".jpg">>[1] = ".jpg"
      BY DEF Unit, Decoration
    <2>3. /\ front \in Seq(Unit) /\ Len(front) = Len(name) + 1
          /\ \A k \in 1..Len(front) : front[k] = IF k = 1 THEN "t/thumb_" ELSE name[k - 1]
      BY <1>1, <2>1, ConcatProperties
    <2>4. Link = front \o <<".jpg">>
      BY <1>3 DEF Link
    <2> HIDE DEF front
    <2>5. Link \in Seq(Unit) /\ Len(Link) = Len(front) + 1
      BY <2>2, <2>3, <2>4, ConcatProperties
    <2>6. \A k \in 1..Len(Link) : Link[k] = IF k <= Len(front) THEN front[k] ELSE ".jpg"
      BY <1>1, <2>2, <2>3, <2>4, <2>5, ConcatProperties
    <2>7. Link[Len(Link)] = ".jpg"
      BY <1>1, <2>3, <2>5, <2>6
    <2>8. \A k \in 1..Len(Link) : Link[k] = "#" => \E l \in 1..Len(name) : name[l] = "#"
      <3> TAKE k \in 1..Len(Link)
      <3> HAVE Link[k] = "#"
      <3>1. k \in 1..Len(front) /\ front[k] = "#"
        BY <1>1, <2>3, <2>5, <2>6
      <3>2. k - 1 \in 1..Len(name) /\ name[k - 1] = "#"
        BY <1>1, <2>3, <3>1
      <3> QED
        BY <3>2
    <2> QED
      BY <1>1, <2>3, <2>5, <2>7, <2>8, LenProperties, ElementOfSeq
  <1> QED
    BY <1>2, <1>3

(* A unit is written as itself, as one other character, or as three.       *)
LEMMA Escapes ==
    ASSUME NEW u \in Unit
    PROVE  /\ EscapeOf[u] \in Seq(Sent) /\ Len(EscapeOf[u]) \in {1, 3}
           /\ u \in {"space", "byte", "&quot"} =>
                /\ Len(EscapeOf[u]) = 3
                /\ EscapeOf[u][1] = "%" /\ EscapeOf[u][2] \in HexDigit /\ EscapeOf[u][3] \in HexDigit
                /\ Byte(EscapeOf[u][2], EscapeOf[u][3]) = IF u = "&quot" THEN "quotation" ELSE u
           /\ u \notin {"space", "byte", "&quot"} =>
                Len(EscapeOf[u]) = 1 /\ EscapeOf[u][1] = IF u = "&#039" THEN "'" ELSE u
PROOF
  <1>1. EscapeOf[u] = CASE u = "space"  -> <<"%", "2", "0">>
                        [] u = "byte"   -> <<"%", "C", "3">>
                        [] u = "&quot"  -> <<"%", "2", "2">>
                        [] u = "&#039"  -> <<"'">>
                        [] OTHER        -> <<u>>
    BY DEF EscapeOf, Unit
  <1>2. CASE u = "space"
    BY <1>1, <1>2 DEF Byte, Sent, HexDigit, Stored
  <1>3. CASE u = "byte"
    BY <1>1, <1>3 DEF Byte, Sent, HexDigit, Stored
  <1>4. CASE u = "&quot"
    BY <1>1, <1>4 DEF Byte, Sent, HexDigit, Stored
  <1>5. CASE u = "&#039"
    BY <1>1, <1>5 DEF Sent
  <1>6. CASE u \notin {"space", "byte", "&quot", "&#039"}
    <2>1. EscapeOf[u] = <<u>>
      BY <1>1, <1>6
    <2> QED
      BY <1>6, <2>1 DEF Sent, Unit
  <1> QED
    BY <1>2, <1>3, <1>4, <1>5, <1>6

(* What a cut leaves of a sequence.                                        *)
LEMMA PrefixOfSequence ==
    ASSUME NEW S, NEW s \in Seq(S), NEW n \in Nat
    PROVE  /\ SubSeq(s, 1, Min(n, Len(s))) \in Seq(S)
           /\ Len(SubSeq(s, 1, Min(n, Len(s)))) = Min(n, Len(s))
           /\ \A k \in 1..Min(n, Len(s)) : SubSeq(s, 1, Min(n, Len(s)))[k] = s[k]
           /\ Len(s) <= n => SubSeq(s, 1, Min(n, Len(s))) = s
PROOF
  <1> DEFINE m == Min(n, Len(s))
  <1>1. Len(s) \in Nat /\ m \in Nat /\ m <= Len(s) /\ (Len(s) <= n => m = Len(s))
    BY LenProperties DEF Min
  <1> HIDE DEF m
  <1>2. \A k \in 1..m : s[k] \in S
    BY <1>1, ElementOfSeq
  <1>3. /\ SubSeq(s, 1, m) \in Seq(S)
        /\ Len(SubSeq(s, 1, m)) = IF 1 <= m THEN m - 1 + 1 ELSE 0
        /\ \A k \in 1..(m - 1 + 1) : SubSeq(s, 1, m)[k] = s[1 + k - 1]
    BY <1>1, <1>2, SubSeqProperties
  <1>4. Len(SubSeq(s, 1, m)) = m /\ \A k \in 1..m : SubSeq(s, 1, m)[k] = s[k]
    BY <1>1, <1>3
  <1>5. Len(s) <= n => SubSeq(s, 1, m) = s
    BY <1>1, SubSeqFull
  <1> QED
    BY <1>3, <1>4, <1>5 DEF m

(* One more unit at the end.                                               *)
LEMMA Appended ==
    ASSUME NEW S, NEW s \in Seq(S), NEW e \in S
    PROVE  /\ Append(s, e) \in Seq(S) /\ Len(s) \in Nat
           /\ Len(Append(s, e)) = Len(s) + 1
           /\ Append(s, e)[Len(s) + 1] = e
           /\ \A k \in 1..Len(s) : Append(s, e)[k] = s[k]
PROOF BY AppendProperties, LenProperties

(* The name ends before its first apostrophe.                              *)
LEMMA QuoteEndsName ==
    ASSUME NEW S, NEW s \in Seq(S)
    PROVE  /\ UntilQuote(s) \in Seq(S)
           /\ Len(UntilQuote(s)) \in Nat /\ Len(UntilQuote(s)) <= Len(s)
           /\ \A k \in 1..Len(UntilQuote(s)) : UntilQuote(s)[k] = s[k] /\ s[k] # "'"
           /\ \/ UntilQuote(s) = s
              \/ s[Len(UntilQuote(s)) + 1] = "'" /\ Len(UntilQuote(s)) < Len(s)
PROOF
  <1>1. Len(s) \in Nat
    BY LenProperties
  <1>2. CASE ~\E k \in 1..Len(s) : s[k] = "'"
    <2>1. UntilQuote(s) = s
      BY <1>2 DEF UntilQuote
    <2> QED
      BY <1>1, <1>2, <2>1
  <1>3. CASE \E k \in 1..Len(s) : s[k] = "'"
    <2> DEFINE Quotes == {k \in 1..Len(s) : s[k] = "'"}
               First(k) == k \in 1..Len(s) /\ s[k] = "'" /\ \A l \in 1..k - 1 : s[l] # "'"
    <2>1. Quotes \in SUBSET Nat /\ Quotes # {}
      BY <1>1, <1>3
    <2>2. PICK n \in Quotes : \A m \in Quotes : n <= m
      BY <2>1, LeastNumber
    <2>3. First(n)
      <3>1. n \in 1..Len(s) /\ s[n] = "'"
        BY <2>2
      <3>2. ASSUME NEW l \in 1..n - 1 PROVE s[l] # "'"
        <4>1. l \in 1..Len(s) /\ ~(n <= l)
          BY <1>1, <3>1
        <4> QED
          BY <2>2, <4>1
      <3> QED
        BY <3>1, <3>2
    <2>4. PICK c : First(c) /\ UntilQuote(s) = SubSeq(s, 1, c - 1)
      <3> DEFINE c == CHOOSE k \in 1..Len(s) : s[k] = "'" /\ \A l \in 1..k - 1 : s[l] # "'"
      <3>1. First(c)
        BY <2>3
      <3>2. UntilQuote(s) = SubSeq(s, 1, c - 1)
        BY <1>3 DEF UntilQuote
      <3> QED
        BY <3>1, <3>2
    <2>5. c - 1 \in Nat /\ c - 1 < Len(s) /\ Min(c - 1, Len(s)) = c - 1
      BY <1>1, <2>4 DEF Min
    <2>6. /\ UntilQuote(s) \in Seq(S) /\ Len(UntilQuote(s)) = c - 1
          /\ \A k \in 1..c - 1 : UntilQuote(s)[k] = s[k]
      BY <2>4, <2>5, PrefixOfSequence
    <2>7. \A k \in 1..c - 1 : s[k] # "'"
      BY <2>4
    <2>8. s[c] = "'" /\ c = c - 1 + 1
      BY <2>4, <2>5
    <2> QED
      BY <2>5, <2>6, <2>7, <2>8
  <1> QED
    BY <1>2, <1>3

(* What lies after a buffer has no apostrophe either.                      *)
LEMMA ForeignAdded ==
    ASSUME NEW s \in Seq(Received), NEW rest \in Foreign
    PROVE  /\ s \o rest \in Seq(Received) /\ Len(s) \in Nat
           /\ Len(s) <= Len(s \o rest) /\ Len(s \o rest) \in Nat
           /\ \A k \in 1..Len(s \o rest) :
                \/ k \in 1..Len(s) /\ (s \o rest)[k] = s[k]
                \/ (s \o rest)[k] # "'"
PROOF
  <1>1. PICK n \in 0..2 : rest \in [1..n -> {"%", "other"}]
    BY DEF Foreign
  <1>2. rest \in Seq({"%", "other"})
    BY <1>1, SeqDef
  <1>3. rest \in Seq(Received) /\ Len(rest) \in Nat /\ Len(s) \in Nat
    BY <1>2, LenProperties, SeqMonotonic DEF Received, Sent, Stored
  <1>4. /\ s \o rest \in Seq(Received) /\ Len(s \o rest) = Len(s) + Len(rest)
        /\ \A k \in 1..Len(s) + Len(rest) :
             (s \o rest)[k] = IF k <= Len(s) THEN s[k] ELSE rest[k - Len(s)]
    BY <1>3, ConcatProperties
  <1>5. \A k \in 1..Len(rest) : rest[k] # "'"
    BY <1>2, ElementOfSeq
  <1>6. ASSUME NEW k \in 1..Len(s \o rest)
        PROVE  (k \in 1..Len(s) /\ (s \o rest)[k] = s[k]) \/ (s \o rest)[k] # "'"
    <2>1. k \in 1..Len(s) \/ k - Len(s) \in 1..Len(rest)
      BY <1>3, <1>4, <1>6
    <2> QED
      BY <1>3, <1>4, <1>5, <1>6, <2>1
  <1> QED
    BY <1>3, <1>4, <1>6

(* The name the server goes on with.                                       *)
LEMMA CopiedName ==
    ASSUME TypeOK
    PROVE  /\ Copied \in Seq(Received) /\ Len(Copied) \in Nat /\ Len(text) \in Nat
           /\ Len(url) \in Nat /\ Len(Copied) <= Len(text)
           /\ \A k \in 1..Len(Copied) : Copied[k] = text[k] /\ Copied[k] # "'"
           /\ Len(url) <= MaxName /\ Len(text) <= Len(url) => Copied = UntilQuote(text)
PROOF
  <1> DEFINE n == Min(Len(url), MaxName)
             p == SubSeq(text, 1, Min(n, Len(text)))
  <1>1. text \in Seq(Received) /\ Len(text) \in Nat /\ Len(url) \in Nat /\ n \in Nat
    BY LenProperties DEF TypeOK, Received, Min
  <1>2. Len(url) <= MaxName => n = Len(url)
    BY <1>1 DEF Min
  <1>3. Min(n, Len(text)) <= Len(text) /\ Min(n, Len(text)) \in Nat
    BY <1>1 DEF Min
  <1>4. Copied = UntilQuote(p)
    BY DEF Copied, Prefix
  <1> HIDE DEF n
  <1>5. /\ p \in Seq(Received) /\ Len(p) = Min(n, Len(text))
        /\ \A k \in 1..Min(n, Len(text)) : p[k] = text[k]
        /\ Len(text) <= n => p = text
    BY <1>1, PrefixOfSequence
  <1> HIDE DEF p
  <1>6. /\ Copied \in Seq(Received) /\ Len(Copied) \in Nat /\ Len(Copied) <= Len(p)
        /\ \A k \in 1..Len(Copied) : Copied[k] = p[k] /\ p[k] # "'"
    BY <1>4, <1>5, QuoteEndsName
  <1> QED
    BY <1>1, <1>2, <1>3, <1>4, <1>5, <1>6

(***************************************************************************)
(* The two steps that write: what is there stays, and something is added.  *)
(***************************************************************************)
LEMMA UnitWritten ==
    ASSUME TypeOK, WriteUnit
    PROVE  /\ url' \in Seq(Sent) /\ src \in 1..Len(Link) /\ src' = src + 1
           /\ Len(url) \in Nat /\ Link[src] \in Unit
           /\ Len(url') = Len(url) + Len(EscapeOf[Link[src]])
           /\ \A k \in 1..Len(url) : url'[k] = url[k]
           /\ \A k \in 1..Len(EscapeOf[Link[src]]) : url'[Len(url) + k] = EscapeOf[Link[src]][k]
PROOF
  <1>0. Len(Link) \in Nat /\ \A k \in 1..Len(Link) : Link[k] \in Unit
    BY LinkIsDecorated DEF TypeOK
  <1>a. src \in Nat \ {0} /\ src <= Len(Link)
    BY DEF TypeOK, WriteUnit
  <1>1. src \in 1..Len(Link) /\ Link[src] \in Unit
    BY <1>0, <1>a
  <1> DEFINE code == EscapeOf[Link[src]]
  <1>2. code \in Seq(Sent) /\ Len(code) \in {1, 3}
    BY <1>1, Escapes
  <1>3. url \in Seq(Sent) /\ Len(url) \in Nat /\ url' = url \o code
    BY LenProperties DEF TypeOK, WriteUnit
  <1> HIDE DEF code
  <1>4. /\ url' \in Seq(Sent) /\ Len(url') = Len(url) + Len(code)
        /\ \A k \in 1..Len(url) + Len(code) : url'[k] = IF k <= Len(url) THEN url[k] ELSE code[k - Len(url)]
    BY <1>2, <1>3, ConcatProperties
  <1>5. \A k \in 1..Len(url) : url'[k] = url[k]
    BY <1>2, <1>3, <1>4
  <1>6. \A k \in 1..Len(code) : url'[Len(url) + k] = code[k]
    BY <1>2, <1>3, <1>4
  <1>7. src' = src + 1
    BY DEF WriteUnit
  <1> QED
    BY <1>1, <1>3, <1>4, <1>5, <1>6, <1>7 DEF code

(* What one round of url_decode appends, and how far it gets.              *)
LEMMA UnitDecoded ==
    ASSUME TypeOK, UrlDecode
    PROVE  /\ text' \in Seq(Received) /\ Len(text) \in Nat
           /\ src \in 1..Len(url) /\ Len(url) \in Nat
           /\ \A k \in 1..Len(text) : text'[k] = text[k]
           /\ ~IsEscape(url, src) =>
                /\ Len(text') = Len(text) + 1 /\ text'[Len(text) + 1] = url[src]
                /\ src' = src + 1
           /\ IsEscape(url, src) =>
                /\ text'[Len(text) + 1] = Byte(url[src + 1], url[src + 2])
                /\ IF src + 3 <= Len(url)
                     THEN Len(text') = Len(text) + 2 /\ text'[Len(text) + 2] = url[src + 3]
                     ELSE Len(text') = Len(text) + 1
                /\ src' = src + 4
PROOF
  <1>0. url \in Seq(Sent) /\ text \in Seq(Received) /\ src \in Nat \ {0} /\ src <= Len(url)
    BY DEF TypeOK, UrlDecode, Received
  <1>1. /\ url \in Seq(Sent) /\ text \in Seq(Received)
        /\ Len(url) \in Nat /\ Len(text) \in Nat /\ src \in 1..Len(url)
    BY <1>0, LenProperties
  <1>2. \A k \in 1..Len(url) : url[k] \in Received
    BY <1>1, ElementOfSeq DEF Received
  <1>3. CASE ~IsEscape(url, src)
    <2>1. text' = Append(text, url[src]) /\ src' = src + 1
      BY <1>3 DEF UrlDecode
    <2> QED
      BY <1>1, <1>2, <1>3, <2>1, Appended
  <1>4. CASE IsEscape(url, src)
    <2> DEFINE b == Byte(url[src + 1], url[src + 2])
               t == Append(text, b)
               c == SubSeq(url, src + 3, Min(src + 3, Len(url)))
    <2>1. text' = t \o c /\ src' = src + 4
      BY <1>4 DEF UrlDecode
    <2>2. b \in Received
      BY DEF Byte, Received, Sent, Stored
    <2>3. /\ t \in Seq(Received) /\ Len(t) = Len(text) + 1 /\ t[Len(text) + 1] = b
          /\ \A k \in 1..Len(text) : t[k] = text[k]
      BY <1>1, <2>2, Appended
    <2>4. src + 2 <= Len(url)
      BY <1>4 DEF IsEscape
    <2>5. c \in Seq(Received) /\ IF src + 3 <= Len(url) THEN Len(c) = 1 /\ c[1] = url[src + 3] ELSE Len(c) = 0
      <3> DEFINE m == Min(src + 3, Len(url))
      <3>1. m \in Int /\ src + 3 \in Int /\ \A k \in (src + 3)..m : url[k] \in Received
        BY <1>1, <1>2 DEF Min
      <3>2. m = IF src + 3 <= Len(url) THEN src + 3 ELSE Len(url)
        BY <1>1 DEF Min
      <3> HIDE DEF m
      <3>3. /\ SubSeq(url, src + 3, m) \in Seq(Received)
            /\ Len(SubSeq(url, src + 3, m)) = IF src + 3 <= m THEN m - (src + 3) + 1 ELSE 0
            /\ \A k \in 1..(m - (src + 3) + 1) : SubSeq(url, src + 3, m)[k] = url[src + 3 + k - 1]
        BY <3>1, SubSeqProperties
      <3>4. CASE src + 3 <= Len(url)
        BY <1>1, <3>2, <3>3, <3>4 DEF m
      <3>5. CASE ~(src + 3 <= Len(url))
        BY <1>1, <3>2, <3>3, <3>5 DEF m
      <3> QED
        BY <3>4, <3>5
    <2> HIDE DEF b, t, c
    <2>6. /\ text' \in Seq(Received) /\ Len(text') = Len(t) + Len(c)
          /\ \A k \in 1..Len(t) + Len(c) : text'[k] = IF k <= Len(t) THEN t[k] ELSE c[k - Len(t)]
      BY <2>1, <2>3, <2>5, ConcatProperties
    <2>7. \A k \in 1..Len(text) : text'[k] = text[k]
      BY <1>1, <2>3, <2>5, <2>6
    <2>8. text'[Len(text) + 1] = b
      BY <1>1, <2>3, <2>5, <2>6
    <2>9. IF src + 3 <= Len(url)
            THEN Len(text') = Len(text) + 2 /\ text'[Len(text) + 2] = url[src + 3]
            ELSE Len(text') = Len(text) + 1
      <3>1. CASE src + 3 <= Len(url)
        <4>1. Len(c) = 1 /\ c[1] = url[src + 3]
          BY <2>5, <3>1
        <4>2. Len(text') = Len(text) + 2
          BY <1>1, <2>3, <2>6, <4>1
        <4>3. text'[Len(text) + 2] = c[1]
          BY <1>1, <2>3, <2>6, <4>1
        <4> QED
          BY <3>1, <4>1, <4>2, <4>3
      <3>2. CASE ~(src + 3 <= Len(url))
        BY <1>1, <2>3, <2>5, <2>6, <3>2
      <3> QED
        BY <3>1, <3>2
    <2> QED
      BY <1>1, <1>4, <2>1, <2>6, <2>7, <2>8, <2>9 DEF b
  <1> QED
    BY <1>1, <1>3, <1>4

(***************************************************************************)
(* The key of an alias, and the counter of its hash.                       *)
(***************************************************************************)
LEMMA PathsAreSequences ==
    ASSUME TypeOK
    PROVE  /\ Directory \o Link \in Seq(Received \cup Unit \cup Place)
           /\ FullPath \in Seq(Received \cup Unit \cup Place)
           /\ FilePath \in Seq(Received \cup Unit \cup Place)
           /\ Len(FilePath) < MaxName /\ Len(FilePath) \in Nat /\ Len(FullPath) \in Nat
           /\ Fits => FilePath = Directory \o Link /\ Len(Link) < MaxName
PROOF
  <1> DEFINE Any == Received \cup Unit \cup Place
  <1>1. Directory \in Seq(Any)
    BY DEF Directory, Place
  <1>2. Link \in Seq(Any) /\ text \in Seq(Any)
    <2>1. Link \in Seq(Unit) /\ text \in Seq(Received)
      BY LinkIsDecorated DEF TypeOK, Received
    <2> QED
      BY <2>1, SeqMonotonic
  <1> HIDE DEF Any
  <1>3. Directory \o Link \in Seq(Any) /\ Directory \o text \in Seq(Any)
    BY <1>1, <1>2, ConcatProperties
  <1>4. Len(Directory \o Link) \in Nat /\ Len(Directory \o text) \in Nat
    BY <1>3, LenProperties
  <1>5. MaxName - 1 \in Nat
    OBVIOUS
  <1>6. /\ FilePath \in Seq(Any) /\ Len(FilePath) = Min(MaxName - 1, Len(Directory \o Link))
        /\ Len(Directory \o Link) <= MaxName - 1 => FilePath = Directory \o Link
    BY <1>3, <1>5, PrefixOfSequence DEF FilePath, Prefix
  <1>7. Len(FilePath) < MaxName /\ Len(FilePath) \in Nat
    BY <1>4, <1>5, <1>6 DEF Min
  <1>8. Fits => FilePath = Directory \o Link /\ Len(Link) < MaxName
    <2>1. Len(Link) \in Nat /\ Len(Directory) \in Nat
      BY <1>1, <1>2, LenProperties
    <2>2. Len(Directory \o Link) = Len(Directory) + Len(Link)
      BY <1>1, <1>2, ConcatProperties
    <2> QED
      BY <1>4, <1>6, <2>1, <2>2 DEF Fits
  <1> QED
    BY <1>3, <1>4, <1>6, <1>7, <1>8 DEF FullPath, Any

(* A key is never longer than the buffer it is cut to.                     *)
LEMMA KeyBounded ==
    ASSUME TypeOK
    PROVE  KeyLength(FullPath) \in 0..MaxName
PROOF BY PathsAreSequences DEF KeyLength, Min

(* The types hold at the start.                                            *)
LEMMA TypeInit == Init => TypeOK
PROOF
  <1> SUFFICES ASSUME Init PROVE TypeOK
    OBVIOUS
  <1>1. url \in Seq(Sent) /\ text \in Seq(Sent \cup {"quotation", "other"})
    BY EmptySeq DEF Init
  <1> QED
    BY <1>1 DEF Init, TypeOK

(* The types are kept by every step.                                       *)
LEMMA TypeStep == TypeOK /\ [Next]_vars => TypeOK'
PROOF
  <1> SUFFICES ASSUME TypeOK, [Next]_vars PROVE TypeOK'
    OBVIOUS
  <1>0. CASE UNCHANGED vars
    BY <1>0 DEF TypeOK, vars
  <1>1. CASE FollowLink \/ HashDone
    <2>1. /\ UNCHANGED <<kind, name, url, text, src, i>>
          /\ at' \in {"unrouted", "write", "done"} /\ (at' = "done" => at = "hash")
      BY <1>1 DEF FollowLink, HashDone
    <2> QED
      BY <2>1 DEF TypeOK
  <1>6. CASE Ask
    <2>1. UNCHANGED <<kind, name, url, text, i>> /\ at' = "decode" /\ src' = 1
      BY <1>6 DEF Ask
    <2> QED
      BY <2>1 DEF TypeOK
  <1>2. CASE WriteUnit
    <2>1. url' \in Seq(Sent) /\ src' = src + 1
      BY <1>2, UnitWritten
    <2>2. UNCHANGED <<kind, name, at, text, i>>
      BY <1>2 DEF WriteUnit
    <2> QED
      BY <2>1, <2>2 DEF TypeOK
  <1>3. CASE UrlDecode
    <2>1. text' \in Seq(Received) /\ src' \in {src + 1, src + 4}
      BY <1>3, UnitDecoded
    <2>2. UNCHANGED <<kind, name, at, url, i>> /\ at = "decode"
      BY <1>3 DEF UrlDecode
    <2> QED
      BY <2>1, <2>2 DEF TypeOK, Received
  <1>4. CASE GetWebmFromBoard
    <2>1. PICK rest \in Foreign : text' = IF Len(Copied) < MaxName THEN Copied ELSE Copied \o rest
      BY <1>4 DEF GetWebmFromBoard
    <2>2. text' \in Seq(Received) /\ \A k \in 1..Len(text') : text'[k] # "'"
      BY <2>1, CopiedName, ForeignAdded
    <2> QED
      BY <1>4, <2>2 DEF TypeOK, GetWebmFromBoard, Received
  <1>7. CASE Overrun
    <2>1. /\ UNCHANGED <<kind, name, url, i>> /\ at' \in {"dead", "decode"} /\ at = "decode"
          /\ \/ UNCHANGED <<text, src>>
             \/ \E rest \in Foreign : text' = text \o rest /\ src' = Len(url) + 1
      BY <1>7 DEF Overrun
    <2>2. text' \in Seq(Received)
      BY <2>1, ForeignAdded DEF TypeOK, Received
    <2>3. src' \in Nat \ {0}
      BY <2>1, LenProperties DEF TypeOK
    <2> QED
      BY <2>1, <2>2, <2>3 DEF TypeOK, Received
  <1>5. CASE HashByte
    <2>1. i' \in 0..(Modulus - 1)
      <3>1. i < MaxName /\ i \in Nat /\ i' = (i + 1) % Modulus
        <4>1. KeyLength(FullPath) \in 0..MaxName /\ i \in Nat
          BY KeyBounded DEF TypeOK
        <4>2. i < KeyLength(FullPath) /\ i' = (i + 1) % Modulus
          BY <1>5 DEF HashByte
        <4> QED
          BY <4>1, <4>2
      <3>2. i + 1 \in 0..(Modulus - 1)
        BY <3>1
      <3> QED
        BY <3>1, <3>2
    <2> QED
      BY <1>5, <2>1 DEF TypeOK, HashByte
  <1> QED
    BY <1>0, <1>1, <1>2, <1>3, <1>4, <1>5, <1>6, <1>7 DEF Next

(* The variables keep their types, and no apostrophe is left in the name   *)
(* the server goes on with.                                                *)
THEOREM Typing == Spec => []TypeOK
PROOF BY TypeInit, TypeStep, PTL DEF Spec

(* A path is found under the key it was recorded under, and under no other *)
(* path's: the key of the recorded path is that path, for it fits the      *)
(* buffer with its terminating byte, and a longer key has more bytes.      *)
THEOREM KeysIdentifyPaths == Spec => []KeyAgrees
PROOF
  <1>1. TypeOK => KeyAgrees
    <2> SUFFICES ASSUME TypeOK PROVE AliasKey(FullPath) = AliasKey(FilePath) <=> Found
      BY DEF KeyAgrees
    <2>1. MaxName \in Nat
      OBVIOUS
    <2>2. /\ Len(AliasKey(FullPath)) = Min(MaxName, Len(FullPath))
          /\ Len(FullPath) <= MaxName => AliasKey(FullPath) = FullPath
          /\ AliasKey(FilePath) = FilePath
      <3>1. Min(Len(FullPath), MaxName) = Min(MaxName, Len(FullPath))
            /\ Min(Len(FilePath), MaxName) = Min(MaxName, Len(FilePath))
        BY PathsAreSequences DEF Min
      <3>2. PICK S : FullPath \in Seq(S) /\ FilePath \in Seq(S)
        BY PathsAreSequences
      <3>3. /\ Len(SubSeq(FullPath, 1, Min(MaxName, Len(FullPath)))) = Min(MaxName, Len(FullPath))
            /\ Len(FullPath) <= MaxName => SubSeq(FullPath, 1, Min(MaxName, Len(FullPath))) = FullPath
        BY <2>1, <3>2, PrefixOfSequence
      <3>4. Len(FilePath) <= MaxName => SubSeq(FilePath, 1, Min(MaxName, Len(FilePath))) = FilePath
        BY <2>1, <3>2, PrefixOfSequence
      <3>5. Len(FilePath) <= MaxName
        BY <2>1, PathsAreSequences
      <3> QED
        BY <3>1, <3>3, <3>4, <3>5 DEF AliasKey, KeyLength
    <2>3. ASSUME AliasKey(FullPath) = FilePath PROVE FullPath = FilePath
      <3>1. Min(MaxName, Len(FullPath)) < MaxName
        BY <2>2, <2>3, PathsAreSequences
      <3>2. Len(FullPath) <= MaxName
        BY <2>1, <3>1, PathsAreSequences DEF Min
      <3> QED
        BY <2>2, <2>3, <3>2
    <2> QED
      BY <2>2, <2>3 DEF Found
  <1> QED
    BY <1>1, Typing, PTL

(* No key is so long that the counter of its hash wraps around.            *)
THEOREM CounterSuffices == Spec => [][i' = i + 1]_i
PROOF
  <1>1. TypeOK /\ [Next]_vars => [i' = i + 1]_i
    <2> SUFFICES ASSUME TypeOK, Next PROVE i' = i + 1 \/ i' = i
      BY DEF vars
    <2>1. CASE HashByte
      <3>1. i < MaxName /\ i \in Nat /\ i' = (i + 1) % Modulus
        <4>1. KeyLength(FullPath) \in 0..MaxName /\ i \in Nat
          BY KeyBounded DEF TypeOK
        <4>2. i < KeyLength(FullPath) /\ i' = (i + 1) % Modulus
          BY <2>1 DEF HashByte
        <4> QED
          BY <4>1, <4>2
      <3>2. i + 1 \in 0..(Modulus - 1)
        BY <3>1
      <3> QED
        BY <3>1, <3>2
    <2>2. CASE ~HashByte
      BY <2>2 DEF Next, FollowLink, WriteUnit, Ask, Overrun, UrlDecode, GetWebmFromBoard, HashDone
    <2> QED
      BY <2>1, <2>2
  <1> QED
    BY <1>1, Typing, PTL DEF Spec

(***************************************************************************)
(* Which names come through.  While the link is written, the code of each  *)
(* unit begins where the one before it ends.                               *)
(***************************************************************************)
Begins(s, st, n) ==
    /\ st \in [1..n + 1 -> Nat \ {0}]
    /\ st[1] = 1 /\ st[n + 1] = Len(s) + 1
    /\ \A k \in 1..n :
          /\ st[k + 1] = st[k] + Len(EscapeOf[Link[k]]) /\ st[k + 1] <= Len(s) + 1
          /\ \A m \in 1..Len(EscapeOf[Link[k]]) : s[st[k] + m - 1] = EscapeOf[Link[k]][m]

Written(s, n) == \E st \in [1..n + 1 -> Nat \ {0}] : Begins(s, st, n)

(* The code of one more unit begins where the last one ended.              *)
LEMMA WriteContinues ==
    ASSUME TypeOK, WriteUnit, Written(url, src - 1)
    PROVE  Written(url', src)
PROOF
  <1> DEFINE unit == Link[src]
  <1>1. /\ src \in 1..Len(Link) /\ Len(url) \in Nat /\ unit \in Unit
        /\ Len(url') = Len(url) + Len(EscapeOf[unit])
        /\ \A k \in 1..Len(url) : url'[k] = url[k]
        /\ \A k \in 1..Len(EscapeOf[unit]) : url'[Len(url) + k] = EscapeOf[unit][k]
    BY UnitWritten
  <1>2. Len(EscapeOf[unit]) \in {1, 3}
    BY <1>1, Escapes
  <1>3. src \in Nat \ {0} /\ src - 1 \in Nat /\ src - 1 + 1 = src
    BY DEF TypeOK
  <1>4. PICK st \in [1..src -> Nat \ {0}] : Begins(url, st, src - 1)
    BY <1>3 DEF Written
  <1>5. /\ st[1] = 1 /\ st[src] = Len(url) + 1
        /\ \A k \in 1..src - 1 :
              /\ st[k + 1] = st[k] + Len(EscapeOf[Link[k]]) /\ st[k + 1] <= Len(url) + 1
              /\ \A m \in 1..Len(EscapeOf[Link[k]]) : url[st[k] + m - 1] = EscapeOf[Link[k]][m]
    BY <1>3, <1>4 DEF Begins
  <1> DEFINE next == [k \in 1..src + 1 |-> IF k <= src THEN st[k] ELSE Len(url') + 1]
  <1> HIDE DEF unit
  <1>6. next \in [1..src + 1 -> Nat \ {0}]
    BY <1>1, <1>2, <1>3
  <1>7. next[1] = 1 /\ next[src + 1] = Len(url') + 1 /\ \A k \in 1..src : next[k] = st[k]
    BY <1>3, <1>5
  <1> HIDE DEF next
  <1>8. ASSUME NEW k \in 1..src
        PROVE  /\ next[k + 1] = next[k] + Len(EscapeOf[Link[k]]) /\ next[k + 1] <= Len(url') + 1
               /\ \A m \in 1..Len(EscapeOf[Link[k]]) : url'[next[k] + m - 1] = EscapeOf[Link[k]][m]
    <2>1. CASE k = src
      <3>1. next[k] = Len(url) + 1 /\ next[k + 1] = Len(url') + 1
        BY <1>3, <1>5, <1>7, <2>1
      <3>2. ASSUME NEW m \in 1..Len(EscapeOf[unit])
            PROVE  url'[next[k] + m - 1] = EscapeOf[unit][m]
        <4>1. next[k] + m - 1 = Len(url) + m
          BY <1>1, <1>2, <3>1
        <4> QED
          BY <1>1, <4>1
      <3>3. next[k + 1] = next[k] + Len(EscapeOf[unit]) /\ next[k + 1] <= Len(url') + 1
        <4>1. Len(url') = Len(url) + Len(EscapeOf[unit]) /\ Len(url) \in Nat
          BY <1>1
        <4>2. PICK width \in {1, 3} : width = Len(EscapeOf[unit])
          BY <1>2
        <4>3. next[k] = Len(url) + 1 /\ next[k + 1] = Len(url) + width + 1
          BY <3>1, <4>1, <4>2
        <4>4. next[k + 1] = next[k] + width
          BY <4>1, <4>3
        <4>5. next[k + 1] <= Len(url') + 1
          BY <3>1, <4>1, <4>2
        <4> QED
          BY <4>2, <4>4, <4>5
      <3> QED
        BY <2>1, <3>2, <3>3 DEF unit
    <2>2. CASE k # src
      <3>1. k \in 1..src - 1 /\ k + 1 \in 1..src /\ Link[k] \in Unit
        BY <1>1, <1>3, <2>2, LinkIsDecorated DEF TypeOK
      <3>2. Len(EscapeOf[Link[k]]) \in {1, 3}
        BY <3>1, Escapes
      <3>3. /\ next[k] = st[k] /\ next[k + 1] = st[k + 1] /\ st[k] \in Nat \ {0}
            /\ st[k + 1] = st[k] + Len(EscapeOf[Link[k]]) /\ st[k + 1] <= Len(url) + 1
        BY <1>5, <1>7, <3>1
      <3>4. ASSUME NEW m \in 1..Len(EscapeOf[Link[k]])
            PROVE  url'[next[k] + m - 1] = EscapeOf[Link[k]][m]
        <4>1. st[k] + m - 1 \in 1..Len(url)
          <5>1. m \in Nat /\ 1 <= m /\ m <= Len(EscapeOf[Link[k]])
            BY <3>2
          <5>2. /\ st[k] + Len(EscapeOf[Link[k]]) <= Len(url) + 1
                /\ st[k] \in Nat \ {0} /\ Len(url) \in Nat
            BY <1>1, <3>3
          <5> QED
            BY <3>2, <5>1, <5>2
        <4>2. url[st[k] + m - 1] = EscapeOf[Link[k]][m]
          BY <1>5, <3>1
        <4> QED
          BY <1>1, <3>3, <4>1, <4>2
      <3>5. next[k + 1] = next[k] + Len(EscapeOf[Link[k]])
        BY <3>3
      <3>6. next[k + 1] <= Len(url') + 1
        <4>1. Len(url') >= Len(url) /\ Len(url) \in Nat /\ Len(url') \in Nat
          BY <1>1, <1>2
        <4>2. next[k + 1] <= Len(url) + 1 /\ next[k + 1] \in Nat
          BY <1>6, <3>1, <3>3
        <4> QED
          BY <4>1, <4>2
      <3> QED
        BY <3>4, <3>5, <3>6
    <2> QED
      BY <2>1, <2>2
  <1> QED
    BY <1>6, <1>7, <1>8 DEF Written, Begins

(***************************************************************************)
(* What url_decode meets where the code of a unit begins.                  *)
(***************************************************************************)
Tripled == {"space", "byte", "&quot"}
FirstOf(u) == IF u \in Tripled THEN "%" ELSE IF u = "&#039" THEN "'" ELSE u

(* What url_decode finds where the code of a unit begins.                  *)
LEMMA ReadAt ==
    ASSUME TypeOK, NEW st, Begins(url, st, Len(Link)), NEW k \in 1..Len(Link)
    PROVE  /\ st[k] \in 1..Len(url) /\ url[st[k]] = FirstOf(Link[k])
           /\ st[k + 1] \in Nat /\ st[k + 1] <= Len(url) + 1 /\ Len(url) \in Nat
           /\ Link[k] \notin Tripled => st[k + 1] = st[k] + 1
           /\ Link[k] \in Tripled =>
                /\ st[k + 1] = st[k] + 3 /\ IsEscape(url, st[k])
                /\ Byte(url[st[k] + 1], url[st[k] + 2])
                      = IF Link[k] = "&quot" THEN "quotation" ELSE Link[k]
PROOF
  <1> DEFINE u == Link[k]
             code == EscapeOf[u]
  <1>1. Len(Link) \in Nat /\ u \in Unit /\ Len(url) \in Nat
    BY LinkIsDecorated, LenProperties DEF TypeOK
  <1>2. /\ Len(code) \in {1, 3}
        /\ u \in Tripled =>
             /\ Len(code) = 3
             /\ code[1] = "%" /\ code[2] \in HexDigit /\ code[3] \in HexDigit
             /\ Byte(code[2], code[3]) = IF u = "&quot" THEN "quotation" ELSE u
        /\ u \notin Tripled => Len(code) = 1 /\ code[1] = IF u = "&#039" THEN "'" ELSE u
    BY <1>1, Escapes DEF Tripled
  <1>3. /\ st[k] \in Nat \ {0} /\ st[k + 1] = st[k] + Len(code) /\ st[k + 1] <= Len(url) + 1
        /\ \A m \in 1..Len(code) : url[st[k] + m - 1] = code[m]
    BY <1>1 DEF Begins
  <1> HIDE DEF code, u
  <1>4. CASE u \in Tripled
    <2>1. Len(code) = 3 /\ st[k + 1] = st[k] + 3
      BY <1>2, <1>3, <1>4
    <2>2. url[st[k]] = code[1] /\ url[st[k] + 1] = code[2] /\ url[st[k] + 2] = code[3]
      <3>1. st[k] + 1 - 1 = st[k] /\ st[k] + 2 - 1 = st[k] + 1 /\ st[k] + 3 - 1 = st[k] + 2
        BY <1>3
      <3>2. 1 \in 1..Len(code) /\ 2 \in 1..Len(code) /\ 3 \in 1..Len(code)
        BY <2>1
      <3>3. url[st[k] + 1 - 1] = code[1] /\ url[st[k] + 2 - 1] = code[2] /\ url[st[k] + 3 - 1] = code[3]
        BY <1>3, <3>2
      <3> QED
        BY <3>1, <3>3
    <2>3. IsEscape(url, st[k])
      BY <1>1, <1>2, <1>3, <1>4, <2>1, <2>2 DEF IsEscape
    <2>4. st[k] \in 1..Len(url)
      BY <1>1, <1>3, <2>1
    <2>5. url[st[k]] = FirstOf(u)
      BY <1>2, <1>4, <2>2 DEF FirstOf
    <2> QED
      BY <1>1, <1>2, <1>3, <1>4, <2>1, <2>2, <2>3, <2>4, <2>5 DEF u
  <1>5. CASE u \notin Tripled
    <2>1. Len(code) = 1 /\ st[k + 1] = st[k] + 1
      BY <1>2, <1>3, <1>5
    <2>2. url[st[k]] = code[1]
      <3>1. st[k] + 1 - 1 = st[k] /\ 1 \in 1..Len(code)
        BY <1>3, <2>1
      <3>2. url[st[k] + 1 - 1] = code[1]
        BY <1>3, <3>1
      <3> QED
        BY <3>1, <3>2
    <2>3. st[k] \in 1..Len(url)
      BY <1>1, <1>3, <2>1
    <2>4. url[st[k]] = FirstOf(u)
      BY <1>2, <1>5, <2>2 DEF FirstOf
    <2> QED
      BY <1>1, <1>3, <1>5, <2>1, <2>3, <2>4 DEF u
  <1> QED
    BY <1>4, <1>5

(* Of the units only the letter begins with a hexadecimal digit.           *)
LEMMA FirstIsHex ==
    ASSUME NEW u \in Unit, FirstOf(u) \in HexDigit
    PROVE  u = "f" /\ u \notin Tripled
PROOF BY DEF Unit, Stored, Decoration, FirstOf, Tripled, HexDigit

(* A % is taken for an escape only where the name looks so.                *)
LEMMA PercentRead ==
    ASSUME TypeOK, NEW st, Begins(url, st, Len(Link)), NEW k \in 1..Len(Link), Link[k] = "%"
    PROVE  /\ IsEscape(url, st[k]) <=> LooksEscaped(k)
           /\ IsEscape(url, st[k]) => Byte(url[st[k] + 1], url[st[k] + 2]) = "other"
PROOF
  <1>1. Len(Link) \in Nat /\ \A l \in 1..Len(Link) : Link[l] \in Unit
    BY LinkIsDecorated DEF TypeOK
  <1>2. /\ st[k] \in 1..Len(url) /\ url[st[k]] = "%" /\ st[k + 1] = st[k] + 1 /\ Len(url) \in Nat
        /\ st[Len(Link) + 1] = Len(url) + 1
    <2>1. Link[k] \notin Tripled /\ FirstOf(Link[k]) = "%"
      BY DEF FirstOf, Tripled
    <2>2. st[Len(Link) + 1] = Len(url) + 1
      BY DEF Begins
    <2> QED
      BY <2>1, <2>2, ReadAt
  <1>3. ASSUME IsEscape(url, st[k])
        PROVE  LooksEscaped(k) /\ Byte(url[st[k] + 1], url[st[k] + 2]) = "other"
    <2>1. st[k] + 2 <= Len(url) /\ url[st[k] + 1] \in HexDigit /\ url[st[k] + 2] \in HexDigit
      BY <1>3 DEF IsEscape
    <2>2. k + 1 \in 1..Len(Link)
      <3>1. k # Len(Link)
        BY <1>1, <1>2, <2>1
      <3> QED
        BY <1>1, <3>1
    <2>3. /\ st[k + 1] \in 1..Len(url) /\ url[st[k + 1]] = FirstOf(Link[k + 1])
          /\ Link[k + 1] \notin Tripled => st[k + 1 + 1] = st[k + 1] + 1
      BY <2>2, ReadAt
    <2>4. Link[k + 1] = "f" /\ st[k + 1 + 1] = st[k] + 2
      BY <1>1, <1>2, <2>1, <2>2, <2>3, FirstIsHex
    <2>5. k + 2 \in 1..Len(Link) /\ k + 1 + 1 = k + 2
      <3>1. k + 1 # Len(Link)
        BY <1>1, <1>2, <2>1, <2>4
      <3> QED
        BY <1>1, <2>2, <3>1
    <2>6. url[st[k + 2]] = FirstOf(Link[k + 2]) /\ st[k + 2] = st[k] + 2
      BY <2>4, <2>5, ReadAt
    <2>7. Link[k + 2] = "f"
      BY <1>1, <2>1, <2>5, <2>6, FirstIsHex
    <2>8. url[st[k] + 1] = "f" /\ url[st[k] + 2] = "f"
      BY <1>2, <2>3, <2>4, <2>6, <2>7 DEF FirstOf, Tripled
    <2> QED
      BY <2>4, <2>5, <2>7, <2>8 DEF LooksEscaped, Byte
  <1>4. ASSUME LooksEscaped(k) PROVE IsEscape(url, st[k])
    <2>1. k + 1 \in 1..Len(Link) /\ k + 2 \in 1..Len(Link) /\ Link[k + 1] = "f" /\ Link[k + 2] = "f"
      BY <1>1, <1>4 DEF LooksEscaped
    <2>0. "f" \notin Tripled /\ FirstOf("f") = "f" /\ "f" \in HexDigit
      BY DEF FirstOf, Tripled, HexDigit
    <2>2. url[st[k] + 1] = "f" /\ st[k + 1 + 1] = st[k] + 1 + 1
      <3>1. url[st[k + 1]] = "f" /\ st[k + 1 + 1] = st[k + 1] + 1
        BY <2>0, <2>1, ReadAt
      <3> QED
        BY <1>2, <3>1
    <2>3. st[k + 2] = st[k] + 2
      BY <1>1, <1>2, <2>2
    <2>4. url[st[k] + 2] = "f" /\ st[k] + 2 <= Len(url)
      <3>1. url[st[k + 2]] = "f" /\ st[k + 2] \in 1..Len(url)
        BY <2>0, <2>1, ReadAt
      <3> QED
        BY <1>2, <2>3, <3>1
    <2> QED
      BY <1>2, <2>0, <2>2, <2>4 DEF IsEscape
  <1> QED
    BY <1>3, <1>4

(***************************************************************************)
(* The name asked for agrees with the link so far, and so far nothing      *)
(* stands in the way; or it has strayed, and for a reason.                 *)
(***************************************************************************)
PlainAt(k) ==
    /\ Link[k] \notin {"#", "&#039", "&quot"}
    /\ k > 1 => ~(Escaped(k) /\ Escaped(k - 1))
    /\ LooksEscaped(k) => k > 1 /\ Escaped(k - 1)

AgreesTo(t, j) ==
    /\ Len(t) = j - 1
    /\ \A k \in 1..j - 1 : t[k] = Link[k] /\ PlainAt(k)
    /\ j > 1 => ~Escaped(j - 1)

OnTrack(st, t, at_src) == \E j \in 1..Len(Link) + 1 : at_src = st[j] /\ AgreesTo(t, j)

Strays(t) == ~ComesThrough /\ \E k \in 1..Len(Link) : k <= Len(t) /\ t[k] # Link[k]

(* A difference at a place where both have a unit is one for good.         *)
LEMMA StraysAt ==
    ASSUME NEW t, NEW k \in 1..Len(Link), k <= Len(t), t[k] # Link[k],
           NEW l \in 1..Len(Link), ~PlainAt(l)
    PROVE  Strays(t)
PROOF BY DEF Strays, ComesThrough, PlainAt

(* A round of url_decode keeps what was decoded.                           *)
LEMMA StrayedForGood ==
    ASSUME TypeOK, UrlDecode, Strays(text)
    PROVE  Strays(text')
PROOF
  <1>1. PICK k \in 1..Len(Link) : k <= Len(text) /\ text[k] # Link[k]
    BY DEF Strays
  <1>2. Len(Link) \in Nat
    BY LinkIsDecorated DEF TypeOK
  <1>3. /\ Len(text) \in Nat /\ Len(text') \in {Len(text) + 1, Len(text) + 2}
        /\ \A l \in 1..Len(text) : text'[l] = text[l]
    BY UnitDecoded
  <1>4. k <= Len(text') /\ text'[k] # Link[k]
    BY <1>1, <1>2, <1>3
  <1> QED
    BY <1>4 DEF Strays

(* A round of url_decode stays on track, or strays for good.               *)
LEMMA DecodeContinues ==
    ASSUME TypeOK, UrlDecode, \A k \in 1..Len(Link) : Link[k] # "#",
           NEW st, Begins(url, st, Len(Link)), OnTrack(st, text, src)
    PROVE  Strays(text') \/ OnTrack(st, text', src')
PROOF
  <1>1. PICK j \in 1..Len(Link) + 1 : src = st[j] /\ AgreesTo(text, j)
    BY DEF OnTrack
  <1>2. /\ Len(Link) \in Nat /\ Link[Len(Link)] \in {".webm", ".jpg"}
        /\ \A k \in 1..Len(Link) : Link[k] \in Unit
    BY LinkIsDecorated DEF TypeOK
  <1>3. /\ Len(text) \in Nat /\ src \in 1..Len(url) /\ Len(url) \in Nat
        /\ \A k \in 1..Len(text) : text'[k] = text[k]
        /\ ~IsEscape(url, src) =>
             /\ Len(text') = Len(text) + 1 /\ text'[Len(text) + 1] = url[src]
             /\ src' = src + 1
        /\ IsEscape(url, src) =>
             /\ text'[Len(text) + 1] = Byte(url[src + 1], url[src + 2])
             /\ IF src + 3 <= Len(url)
                  THEN Len(text') = Len(text) + 2 /\ text'[Len(text) + 2] = url[src + 3]
                  ELSE Len(text') = Len(text) + 1
             /\ src' = src + 4
    BY UnitDecoded
  <1>4. j \in 1..Len(Link)
    <2>1. j # Len(Link) + 1
      BY <1>1, <1>3 DEF Begins
    <2> QED
      BY <1>2, <2>1
  <1>5. /\ Len(text) = j - 1 /\ j \in Nat \ {0}
        /\ \A k \in 1..j - 1 : text'[k] = Link[k] /\ PlainAt(k)
        /\ j > 1 => ~Escaped(j - 1)
    BY <1>1, <1>2, <1>3 DEF AgreesTo
  <1>6. j <= Len(text')
    BY <1>3, <1>5
  <1>7. /\ url[src] = FirstOf(Link[j])
        /\ st[j + 1] \in Nat /\ st[j + 1] <= Len(url) + 1
        /\ Link[j] \notin Tripled => st[j + 1] = src + 1
        /\ Link[j] \in Tripled =>
             /\ st[j + 1] = src + 3 /\ IsEscape(url, src)
             /\ Byte(url[src + 1], url[src + 2]) = IF Link[j] = "&quot" THEN "quotation" ELSE Link[j]
    BY <1>1, <1>4, ReadAt
  <1>8. CASE Link[j] \in {"&#039", "&quot"}
    <2>1. ~PlainAt(j)
      BY <1>8 DEF PlainAt
    <2>2. text'[j] # Link[j]
      <3>1. CASE Link[j] = "&quot"
        <4>1. text'[Len(text) + 1] = "quotation"
          BY <1>3, <1>7, <3>1 DEF Tripled
        <4> QED
          BY <1>5, <3>1, <4>1
      <3>2. CASE Link[j] = "&#039"
        <4>1. url[src] = "'"
          BY <1>7, <3>2 DEF FirstOf, Tripled
        <4>2. ~IsEscape(url, src)
          BY <4>1 DEF IsEscape
        <4>3. text'[Len(text) + 1] = "'"
          BY <1>3, <4>1, <4>2
        <4> QED
          BY <1>5, <3>2, <4>3
      <3> QED
        BY <1>8, <3>1, <3>2
    <2> QED
      BY <1>4, <1>6, <2>1, <2>2, StraysAt
  <1>9. CASE Link[j] \in {"space", "byte"}
    <2>1. /\ IsEscape(url, src) /\ st[j + 1] = src + 3 /\ text'[j] = Link[j] /\ src' = src + 4
          /\ Link[j] \in Tripled /\ Escaped(j)
      BY <1>3, <1>5, <1>7, <1>9 DEF Tripled, Escaped
    <2>2. j + 1 \in 1..Len(Link)
      <3>1. j # Len(Link)
        BY <1>2, <1>9
      <3> QED
        BY <1>4, <1>2, <3>1
    <2>3. /\ st[j + 1] \in 1..Len(url) /\ url[st[j + 1]] = FirstOf(Link[j + 1])
          /\ Link[j + 1] \notin Tripled => st[j + 1 + 1] = st[j + 1] + 1
      BY <2>2, ReadAt
    <2>4. Len(text') = j + 1 /\ text'[j + 1] = FirstOf(Link[j + 1])
      <3>1. src + 3 <= Len(url)
        BY <1>3, <2>1, <2>3
      <3>2. Len(text') = Len(text) + 2 /\ text'[Len(text) + 2] = url[src + 3]
        BY <1>3, <2>1, <3>1
      <3> QED
        BY <1>5, <2>1, <2>3, <3>2
    <2>5. CASE Link[j + 1] \in {"space", "byte", "&#039", "&quot"}
      <3>1. ~PlainAt(j + 1)
        <4>1. j + 1 > 1 /\ j + 1 - 1 = j
          BY <1>5
        <4> QED
          BY <2>1, <2>5, <4>1 DEF PlainAt, Escaped
      <3>2. text'[j + 1] # Link[j + 1]
        BY <2>4, <2>5 DEF FirstOf, Tripled
      <3>3. j + 1 <= Len(text')
        BY <2>4, <1>5
      <3> QED
        BY <2>2, <3>1, <3>2, <3>3, StraysAt
    <2>6. CASE Link[j + 1] \notin {"space", "byte", "&#039", "&quot"}
      <3>1. /\ text'[j + 1] = Link[j + 1] /\ st[j + 2] = src' /\ ~Escaped(j + 1)
            /\ Link[j + 1] \notin Tripled
        <4>1. FirstOf(Link[j + 1]) = Link[j + 1] /\ Link[j + 1] \notin Tripled
          BY <2>6 DEF FirstOf, Tripled
        <4>2. st[j + 1 + 1] = st[j + 1] + 1 /\ j + 1 + 1 = j + 2
          BY <1>5, <2>3, <4>1
        <4>3. st[j + 2] = src'
          BY <1>3, <2>1, <4>2
        <4> QED
          BY <2>4, <2>6, <4>1, <4>3 DEF Escaped
      <3>2. PlainAt(j)
        BY <1>4, <1>5, <1>9 DEF PlainAt, LooksEscaped
      <3>3. PlainAt(j + 1)
        <4>1. j + 1 > 1 /\ j + 1 - 1 = j /\ Link[j + 1] # "#"
          BY <1>5, <2>2
        <4> QED
          BY <2>1, <2>6, <3>1, <4>1 DEF PlainAt
      <3>4. ASSUME NEW k \in 1..j + 1 PROVE text'[k] = Link[k] /\ PlainAt(k)
        <4>1. k \in 1..j - 1 \/ k = j \/ k = j + 1
          BY <1>5
        <4> QED
          BY <1>5, <2>1, <3>1, <3>2, <3>3, <4>1
      <3>5. AgreesTo(text', j + 2)
        <4>1. j + 2 - 1 = j + 1
          BY <1>5
        <4> QED
          BY <2>4, <3>1, <3>4, <4>1 DEF AgreesTo
      <3>6. j + 2 \in 1..Len(Link) + 1
        BY <1>2, <2>2
      <3> QED
        BY <3>1, <3>5, <3>6 DEF OnTrack
    <2> QED
      BY <2>5, <2>6
  <1>10. CASE Link[j] = "%" /\ LooksEscaped(j)
    <2>1. ~PlainAt(j)
      BY <1>5, <1>10 DEF PlainAt
    <2>2. IsEscape(url, src) /\ Byte(url[src + 1], url[src + 2]) = "other"
      BY <1>1, <1>4, <1>10, PercentRead
    <2>3. text'[j] # Link[j]
      BY <1>3, <1>5, <1>10, <2>2
    <2> QED
      BY <1>4, <1>6, <2>1, <2>3, StraysAt
  <1>11. CASE Link[j] \notin {"&#039", "&quot", "space", "byte"} /\ ~(Link[j] = "%" /\ LooksEscaped(j))
    <2>1. FirstOf(Link[j]) = Link[j] /\ Link[j] \notin Tripled /\ ~Escaped(j)
      BY <1>11 DEF FirstOf, Tripled, Escaped
    <2>2. ~IsEscape(url, src)
      <3>1. CASE Link[j] = "%"
        BY <1>1, <1>4, <1>11, <3>1, PercentRead
      <3>2. CASE Link[j] # "%"
        BY <1>7, <2>1, <3>2 DEF IsEscape
      <3> QED
        BY <3>1, <3>2
    <2>3. Len(text') = j /\ text'[j] = Link[j] /\ src' = st[j + 1]
      BY <1>3, <1>5, <1>7, <2>1, <2>2
    <2>4. PlainAt(j)
      BY <1>4, <1>11, <2>1 DEF PlainAt, LooksEscaped
    <2>5. ASSUME NEW k \in 1..j PROVE text'[k] = Link[k] /\ PlainAt(k)
      <3>1. k \in 1..j - 1 \/ k = j
        BY <1>5
      <3> QED
        BY <1>5, <2>3, <2>4, <3>1
    <2>6. AgreesTo(text', j + 1)
      <3>1. j + 1 - 1 = j
        BY <1>5
      <3> QED
        BY <2>1, <2>3, <2>5, <3>1 DEF AgreesTo
    <2>7. j + 1 \in 1..Len(Link) + 1
      BY <1>2, <1>4
    <2> QED
      BY <2>3, <2>6, <2>7 DEF OnTrack
  <1> QED
    BY <1>8, <1>9, <1>10, <1>11

(* At the end of the link the whole name has come through, or it never     *)
(* will: what is cut at an apostrophe is too short.                        *)
LEMMA DecodeEnds ==
    ASSUME TypeOK, ~(src <= Len(url)),
           NEW st, Begins(url, st, Len(Link)), OnTrack(st, text, src)
    PROVE  text = Link /\ ComesThrough /\ UntilQuote(text) = text
PROOF
  <1>1. PICK j \in 1..Len(Link) + 1 : src = st[j] /\ AgreesTo(text, j)
    BY DEF OnTrack
  <1>2. /\ Len(Link) \in Nat /\ Link \in Seq(Unit)
        /\ \A k \in 1..Len(Link) : Link[k] \in Unit
    BY LinkIsDecorated DEF TypeOK
  <1>3. j = Len(Link) + 1
    <2>1. ASSUME j \in 1..Len(Link) PROVE FALSE
      <3>1. st[j] \in 1..Len(url) /\ Len(url) \in Nat
        BY <2>1, ReadAt
      <3> QED
        BY <1>1, <3>1
    <2> QED
      BY <1>2, <2>1
  <1>4. Len(text) = Len(Link) /\ \A k \in 1..Len(Link) : text[k] = Link[k] /\ PlainAt(k)
    BY <1>1, <1>2, <1>3 DEF AgreesTo
  <1>5. text \in Seq(Received \cup Unit) /\ Link \in Seq(Received \cup Unit)
    <2>1. text \in Seq(Received)
      BY DEF TypeOK, Received
    <2> QED
      BY <1>2, <2>1, SeqMonotonic
  <1>6. text = Link
    BY <1>4, <1>5, SeqEqual
  <1>7. ComesThrough
    BY <1>4 DEF ComesThrough, PlainAt
  <1>8. \A k \in 1..Len(text) : text[k] # "'"
    BY <1>2, <1>6 DEF Unit, Stored, Decoration
  <1> QED
    BY <1>6, <1>7, <1>8 DEF UntilQuote

(* A text that has strayed is not the link, and no plain name strays.      *)
LEMMA StrayedIsLost ==
    ASSUME TypeOK, Strays(text)
    PROVE  Copied # Link /\ ~ComesThrough
PROOF
  <1>1. PICK k \in 1..Len(Link) : k <= Len(text) /\ text[k] # Link[k]
    BY DEF Strays
  <1>2. Len(Link) \in Nat
    BY LinkIsDecorated DEF TypeOK
  <1>3. \A l \in 1..Len(Copied) : Copied[l] = text[l]
    BY CopiedName
  <1>4. ASSUME Copied = Link PROVE FALSE
    BY <1>1, <1>3, <1>4
  <1> QED
    BY <1>4 DEF Strays

(***************************************************************************)
(* The invariant: what is known of the name asked for at every label.      *)
(***************************************************************************)
Decoding(s, t, at_src) ==
    \/ Strays(t)
    \/ \E st \in [1..Len(Link) + 1 -> Nat \ {0}] : Begins(s, st, Len(Link)) /\ OnTrack(st, t, at_src)

FateInv ==
    /\ at \notin {"link", "unrouted"} => \A k \in 1..Len(Link) : Link[k] # "#"
    /\ at = "link" => url = <<>> /\ text = <<>> /\ src = 1
    /\ at = "write" => text = <<>> /\ src <= Len(Link) + 1 /\ Written(url, src - 1)
    /\ at = "decode" /\ Len(url) <= MaxName =>
         Decoding(url, text, src) /\ Len(text) < src /\ Len(text) <= Len(url)
    /\ at \in {"hash", "done"} /\ Fits => (text = Link <=> ComesThrough)

(* The link is that of the name, whatever the loops do.                    *)
LEMMA LinkStays ==
    ASSUME UNCHANGED <<kind, name>>
    PROVE  /\ Link' = Link /\ (ComesThrough' <=> ComesThrough)
           /\ Directory' = Directory
           /\ \A k : (PlainAt(k)' <=> PlainAt(k)) /\ (Escaped(k)' <=> Escaped(k))
PROOF
  <1>1. Link' = Link /\ Directory' = Directory
    BY DEF Link, Directory
  <1>2. \A k : (Escaped(k)' <=> Escaped(k)) /\ (LooksEscaped(k)' <=> LooksEscaped(k))
    BY <1>1 DEF Escaped, LooksEscaped
  <1>3. \A k : PlainAt(k)' <=> PlainAt(k)
    BY <1>1, <1>2 DEF PlainAt
  <1>4. ComesThrough <=> \A k \in 1..Len(Link) : PlainAt(k)
    BY DEF ComesThrough, PlainAt
  <1>5. ComesThrough' <=> \A k \in 1..Len(Link') : PlainAt(k)'
    BY DEF ComesThrough, PlainAt
  <1> QED
    BY <1>1, <1>2, <1>3, <1>4, <1>5

(* What is written is so after a step that leaves the name alone.          *)
LEMMA WrittenStays ==
    ASSUME UNCHANGED <<kind, name>>, Written(url', src' - 1)
    PROVE  Written(url, src - 1)'
PROOF
  <1>1. Link' = Link
    BY LinkStays
  <1>2. PICK st \in [1..src' - 1 + 1 -> Nat \ {0}] : Begins(url', st, src' - 1)
    BY DEF Written
  <1>3. Begins(url, st, src - 1)'
    BY <1>1, <1>2 DEF Begins
  <1> QED
    BY <1>2, <1>3 DEF Written

(* What is decoded is so after a step that leaves the name alone.          *)
LEMMA DecodingStays ==
    ASSUME UNCHANGED <<kind, name>>, Decoding(url', text', src')
    PROVE  Decoding(url, text, src)'
PROOF
  <1>1. /\ Link' = Link /\ (ComesThrough' <=> ComesThrough)
        /\ \A k : (PlainAt(k)' <=> PlainAt(k)) /\ (Escaped(k)' <=> Escaped(k))
    BY LinkStays
  <1>2. CASE Strays(text')
    <2>1. Strays(text)'
      BY <1>1, <1>2 DEF Strays
    <2> QED
      BY <2>1 DEF Decoding
  <1>3. CASE ~Strays(text')
    <2>1. PICK st \in [1..Len(Link) + 1 -> Nat \ {0}] :
             Begins(url', st, Len(Link)) /\ OnTrack(st, text', src')
      BY <1>3 DEF Decoding
    <2>2. Begins(url, st, Len(Link))'
      BY <1>1, <2>1 DEF Begins
    <2>3. PICK j \in 1..Len(Link) + 1 : src' = st[j] /\ AgreesTo(text', j)
      BY <2>1 DEF OnTrack
    <2>4. AgreesTo(text, j)'
      BY <1>1, <2>3 DEF AgreesTo
    <2>5. OnTrack(st, text, src)'
      BY <1>1, <2>3, <2>4 DEF OnTrack
    <2> QED
      BY <1>1, <2>2, <2>5 DEF Decoding
  <1> QED
    BY <1>2, <1>3

(* At the start nothing is written and nothing is decoded.                 *)
LEMMA FateInit == Init => FateInv
PROOF BY DEF Init, FateInv

(* Nothing is written yet.                                                 *)
LEMMA NothingWritten ==
    ASSUME url = <<>>, src = 1
    PROVE  Written(url, src - 1)
PROOF
  <1> DEFINE st == [k \in 1..1 |-> 1]
  <1>1. st \in [1..0 + 1 -> Nat \ {0}] /\ st[1] = 1 /\ 0 + 1 = 1
    OBVIOUS
  <1>2. Len(url) = 0
    BY EmptySeq
  <1> HIDE DEF st
  <1>3. Begins(url, st, 0)
    BY <1>1, <1>2 DEF Begins
  <1> QED
    BY <1>1, <1>3 DEF Written

(* Every round keeps what is known of the fate of the link.                *)
LEMMA FateStep == TypeOK /\ FateInv /\ [Next]_vars => FateInv'
PROOF
  <1> SUFFICES ASSUME TypeOK, FateInv, [Next]_vars PROVE FateInv'
    OBVIOUS
  <1>1. UNCHANGED <<kind, name>>
    BY DEF Next, FollowLink, WriteUnit, Ask, Overrun, UrlDecode, GetWebmFromBoard, HashByte,
           HashDone, vars
  <1>2. Link' = Link /\ (ComesThrough' <=> ComesThrough) /\ (url' = url => (Fits' <=> Fits))
    BY <1>1, LinkStays DEF Fits
  <1>3. /\ Len(Link) \in Nat \ {0} /\ src \in Nat \ {0}
        /\ \A k \in 1..Len(Link) : Link[k] = "#" => \E l \in 1..Len(name) : name[l] = "#"
    BY LinkIsDecorated DEF TypeOK
  <1>4. CASE FollowLink
    <2>1. /\ at = "link" /\ UNCHANGED <<url, text, src>> /\ at' \in {"unrouted", "write"}
          /\ at' = "write" => ~\E k \in 1..Len(name) : name[k] = "#"
      BY <1>4 DEF FollowLink
    <2>2. url = <<>> /\ text = <<>> /\ src = 1
      BY <2>1 DEF FateInv
    <2>3. Written(url, src - 1)'
      <3>1. Written(url, src - 1)
        BY <2>2, NothingWritten
      <3> QED
        BY <1>1, <2>1, <3>1, WrittenStays
    <2>4. at' = "write" => \A k \in 1..Len(Link) : Link[k] # "#"
      BY <1>3, <2>1
    <2>5. src' <= Len(Link) + 1
      BY <1>3, <2>1, <2>2
    <2> QED
      BY <1>2, <2>1, <2>2, <2>3, <2>4, <2>5 DEF FateInv
  <1>5. CASE WriteUnit
    <2>1. at = "write" /\ UNCHANGED <<at, text>>
      BY <1>5 DEF WriteUnit
    <2>2. src \in 1..Len(Link) /\ src' = src + 1
      BY <1>5, UnitWritten
    <2>3. Written(url', src)
      BY <1>5, <2>1, WriteContinues DEF FateInv
    <2>4. Written(url, src - 1)'
      <3>1. src' - 1 = src
        BY <2>2
      <3> QED
        BY <1>1, <2>3, <3>1, WrittenStays
    <2>5. src' <= Len(Link) + 1
      BY <1>3, <2>2
    <2> QED
      BY <1>2, <2>1, <2>4, <2>5 DEF FateInv
  <1>6. CASE Ask
    <2>1. at = "write" /\ at' = "decode" /\ UNCHANGED <<url, text>> /\ src' = 1 /\ ~(src <= Len(Link))
      BY <1>3, <1>6 DEF Ask
    <2>2. text = <<>> /\ src <= Len(Link) + 1 /\ Written(url, src - 1)
      BY <2>1 DEF FateInv
    <2>3. src - 1 = Len(Link)
      BY <1>3, <2>1, <2>2
    <2>4. PICK st \in [1..Len(Link) + 1 -> Nat \ {0}] : Begins(url, st, Len(Link))
      BY <2>2, <2>3 DEF Written
    <2>5. AgreesTo(text, 1)
      <3>1. Len(text) = 0 /\ 1 - 1 = 0 /\ 1..0 = {} /\ ~(1 > 1)
        BY <2>2, EmptySeq
      <3> QED
        BY <3>1 DEF AgreesTo
    <2>6. OnTrack(st, text, 1)
      <3>1. st[1] = 1 /\ 1 \in 1..Len(Link) + 1
        BY <1>3, <2>4 DEF Begins
      <3> QED
        BY <2>5, <3>1 DEF OnTrack
    <2>7. Decoding(url', text', src')
      BY <2>1, <2>4, <2>6 DEF Decoding
    <2>8. Decoding(url, text, src)'
      BY <1>1, <2>7, DecodingStays
    <2>9. Len(text') < src' /\ Len(url) \in Nat /\ Len(text') <= Len(url')
      BY <2>1, <2>2, EmptySeq, LenProperties DEF TypeOK
    <2> QED
      BY <1>2, <2>1, <2>8, <2>9 DEF FateInv
  <1>7. CASE UrlDecode
    <2>1. at = "decode" /\ UNCHANGED <<at, url>>
      BY <1>7 DEF UrlDecode
    <2>5. \A k \in 1..Len(Link) : Link[k] # "#"
      BY <2>1 DEF FateInv
    <2>6. CASE ~(Len(url) <= MaxName)
      BY <1>2, <2>1, <2>5, <2>6 DEF FateInv
    <2> SUFFICES ASSUME Len(url) <= MaxName PROVE FateInv'
      BY <2>6
    <2>2. Decoding(url, text, src) /\ Len(text) < src
      BY <2>1 DEF FateInv
    <2>7. Len(text') < src' /\ Len(text') <= Len(url)
      <3>1. Len(text) \in Nat /\ src \in 1..Len(url) /\ Len(url) \in Nat
        BY <1>7, UnitDecoded
      <3>2. CASE IsEscape(url, src)
        <4>1. /\ IF src + 3 <= Len(url) THEN Len(text') = Len(text) + 2 ELSE Len(text') = Len(text) + 1
              /\ src' = src + 4
          BY <1>7, <3>2, UnitDecoded
        <4> QED
          BY <2>2, <3>1, <4>1
      <3>3. CASE ~IsEscape(url, src)
        <4>1. Len(text') = Len(text) + 1 /\ src' = src + 1
          BY <1>7, <3>3, UnitDecoded
        <4> QED
          BY <2>2, <3>1, <4>1
      <3> QED
        BY <3>2, <3>3
    <2>3. Decoding(url, text', src')
      <3>1. CASE Strays(text)
        BY <1>7, <3>1, StrayedForGood DEF Decoding
      <3>2. CASE ~Strays(text)
        <4>1. PICK st \in [1..Len(Link) + 1 -> Nat \ {0}] :
                 Begins(url, st, Len(Link)) /\ OnTrack(st, text, src)
          BY <2>2, <3>2 DEF Decoding
        <4>2. Strays(text') \/ OnTrack(st, text', src')
          BY <1>7, <2>5, <4>1, DecodeContinues
        <4> QED
          BY <4>1, <4>2 DEF Decoding
      <3> QED
        BY <3>1, <3>2
    <2>4. Decoding(url, text, src)'
      BY <1>1, <2>1, <2>3, DecodingStays
    <2> QED
      BY <1>2, <2>1, <2>4, <2>5, <2>7 DEF FateInv
  <1>8. CASE GetWebmFromBoard
    <2>1. at = "decode" /\ at' \in {"hash", "done"} /\ url' = url /\ src > Len(url)
      BY <1>8 DEF GetWebmFromBoard
    <2>2. \A k \in 1..Len(Link) : Link[k] # "#"
      BY <2>1 DEF FateInv
    <2>3. PICK rest \in Foreign : text' = IF Len(Copied) < MaxName THEN Copied ELSE Copied \o rest
      BY <1>8 DEF GetWebmFromBoard
    <2>4. ASSUME Fits PROVE text' = Link <=> ComesThrough
      <3>1. Decoding(url, text, src) /\ Len(text) <= Len(url) /\ Len(url) <= MaxName
        BY <2>1, <2>4 DEF FateInv, Fits
      <3>2. Copied = Link <=> ComesThrough
        <4>1. CASE Strays(text)
          BY <4>1, StrayedIsLost
        <4>2. CASE ~Strays(text)
          <5>1. PICK st \in [1..Len(Link) + 1 -> Nat \ {0}] :
                   Begins(url, st, Len(Link)) /\ OnTrack(st, text, src)
            BY <3>1, <4>2 DEF Decoding
          <5>2. ~(src <= Len(url))
            BY <1>3, <2>1, CopiedName
          <5>3. text = Link /\ ComesThrough /\ UntilQuote(text) = text
            BY <5>1, <5>2, DecodeEnds
          <5> QED
            BY <3>1, <5>3, CopiedName
        <4> QED
          BY <4>1, <4>2
      <3>3. Len(Link) < MaxName
        BY <1>3, <2>4, PathsAreSequences DEF Fits
      <3>4. CASE Len(Copied) < MaxName
        BY <2>3, <3>2, <3>4
      <3>5. CASE ~(Len(Copied) < MaxName)
        <4>1. Len(Copied) \in Nat /\ Copied # Link
          BY <1>3, <3>3, <3>5, CopiedName
        <4>2. text' = Copied \o rest /\ Len(Copied) <= Len(text') /\ Len(text') \in Nat
          BY <2>3, <3>5, CopiedName, ForeignAdded
        <4>3. text' # Link
          BY <1>3, <3>3, <3>5, <4>1, <4>2
        <4> QED
          BY <3>2, <4>1, <4>3
      <3> QED
        BY <3>4, <3>5
    <2> QED
      BY <1>2, <2>1, <2>2, <2>4 DEF FateInv
  <1>11. CASE Overrun
    <2>1. /\ at = "decode" /\ at' \in {"decode", "dead"} /\ url' = url /\ Len(url) > MaxName
      BY <1>11 DEF Overrun, Overruns
    <2>2. ~(Len(url) <= MaxName)
      BY <2>1, CopiedName
    <2>3. \A k \in 1..Len(Link) : Link[k] # "#"
      BY <2>1 DEF FateInv
    <2> QED
      BY <1>2, <2>1, <2>2, <2>3 DEF FateInv
  <1>9. CASE HashByte \/ HashDone
    <2>1. at = "hash" /\ at' \in {"hash", "done"} /\ UNCHANGED <<url, text>>
      BY <1>9 DEF HashByte, HashDone
    <2> QED
      BY <1>2, <2>1 DEF FateInv
  <1>10. CASE UNCHANGED vars
    <2>1. UNCHANGED <<at, url, text, src>>
      BY <1>10 DEF vars
    <2>2. at = "write" => Written(url, src - 1)'
      BY <1>1, <2>1, WrittenStays DEF FateInv
    <2>3. at = "decode" /\ Len(url) <= MaxName => Decoding(url, text, src)'
      BY <1>1, <2>1, DecodingStays DEF FateInv
    <2> QED
      BY <1>2, <2>1, <2>2, <2>3 DEF FateInv
  <1> QED
    BY <1>4, <1>5, <1>6, <1>7, <1>8, <1>9, <1>10, <1>11 DEF Next

(* The link on a page leads to the file it was made for exactly for the    *)
(* names with nothing HTML or URLs mark, no two escapes in a row, and no % *)
(* that looks like an escape unless it follows one: for names of any       *)
(* length whose path fits the scraper's buffer and whose link, with its    *)
(* escapes, fits the server's.                                             *)
THEOREM PlainNamesAreFound == Spec => []FoundIffPlain
PROOF
  <1>1. TypeOK /\ FateInv => FoundIffPlain
    <2> SUFFICES ASSUME TypeOK, FateInv, at = "done", Fits PROVE Found <=> ComesThrough
      BY DEF FoundIffPlain
    <2>1. FilePath = Directory \o Link
      BY PathsAreSequences
    <2>2. text = Link <=> ComesThrough
      BY DEF FateInv
    <2>3. Directory \o text = Directory \o Link => text = Link
      <3> DEFINE Any == Received \cup Unit \cup Place
      <3>1. Directory \in Seq(Any)
        BY DEF Directory, Place
      <3>2. text \in Seq(Any) /\ Link \in Seq(Any)
        <4>1. Link \in Seq(Unit) /\ text \in Seq(Received)
          BY LinkIsDecorated DEF TypeOK, Received
        <4> QED
          BY <4>1, SeqMonotonic
      <3> HIDE DEF Any
      <3> QED
        BY <3>1, <3>2, ConcatSimplifications
    <2> QED
      BY <2>1, <2>2, <2>3 DEF Found, FullPath
  <1>2. Spec => []FateInv
    <2>1. TypeOK /\ FateInv /\ [Next]_vars => FateInv'
      BY FateStep
    <2> QED
      BY <2>1, FateInit, Typing, PTL DEF Spec
  <1> QED
    BY <1>1, <1>2, Typing, PTL
=============================================================================
