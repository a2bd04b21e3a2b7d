------------------------------- MODULE Names -------------------------------
(***************************************************************************)
(* How the name of a stored file comes back to the C server: the scraper   *)
(* names the file (old/src/utils.c), a page of the server links to it, the *)
(* browser asks for the link, and the server turns the request into a path *)
(* and the path into the key of an alias (old/src/server.c, models.c).     *)
(*                                                                         *)
(* A name is a sequence of units.  The site writes the characters of HTML  *)
(* as entities, and so does the file name; one unit stands for an entity,  *)
(* for a part of a path that every name has, and for any other byte.       *)
(***************************************************************************)
EXTENDS Naturals, Sequences

CONSTANTS
    MaxName,        \* MAX_IMAGE_FILENAME_SIZE, 255: the size of every buffer
    Modulus,        \* of hash_string_fnv1a's counter, a uint8_t: 2^8
    MaxLength       \* bound on the units of a name

ASSUME NamesAssumption ==
    /\ MaxName \in Nat \ {0} /\ Modulus \in Nat /\ MaxLength \in Nat
    /\ MaxName < Modulus

VARIABLES
    kind,           \* the file asked for: "webm" or "thumb"
    name,           \* as the site has it, without its extension
    at,             \* where the request is
    url,            \* the name as the browser sends it, whole
    text,           \* the name asked for, as far as it has been decoded
    src,            \* what the browser writes, or url_decode reads, next
    i               \* uint8_t i

vars == <<kind, name, at, url, text, src, i>>

(* A plain letter, which is a hexadecimal digit too; a space; a byte of a  *)
(* character that is not ASCII; the entities of ' and of another           *)
(* character, their semicolons left out; the bytes with a meaning in a URL.*)
Stored == {"f", "space", "byte", "&#039", "&quot", "%", "#"}
NamesOf == UNION {[1..n -> Stored] : n \in 0..MaxLength}

Min(a, b) == IF a < b THEN a ELSE b
Prefix(s, n) == SubSeq(s, 1, Min(n, Len(s)))

Directory == <<"webms/", "board", "/">>
Decoration == {".webm", "t/thumb_", ".jpg"}
Link == IF kind = "webm" THEN name \o <<".webm">> ELSE <<"t/thumb_">> \o name \o <<".jpg">>

(* snprintf into a buffer of MaxName bytes.                                *)
FilePath == Prefix(Directory \o Link, MaxName - 1)

(***************************************************************************)
(* The browser.                                                            *)
(***************************************************************************)
(* It resolves the entities of the attribute, then writes as escapes what  *)
(* may not stand in a URL, and leaves a % as it is.                        *)
EscapeOf == [u \in Stored \cup Decoration |->
    CASE u = "space"  -> <<"%", "2", "0">>
      [] u = "byte"   -> <<"%", "C", "3">>
      [] u = "&quot"  -> <<"%", "2", "2">>
      [] u = "&#039"  -> <<"'">>
      [] OTHER        -> <<u>>]

Init ==
    /\ kind \in {"webm", "thumb"}
    /\ name \in NamesOf
    /\ at = "link" /\ url = <<>> /\ text = <<>> /\ src = 1 /\ i = 0

(* What follows a # is not sent, and no route has the rest.                *)
FollowLink ==
    /\ at = "link"
    /\ at' = IF \E k \in 1..Len(name) : name[k] = "#" THEN "unrouted" ELSE "write"
    /\ UNCHANGED <<kind, name, url, text, src, i>>

WriteUnit ==
    /\ at = "write" /\ src <= Len(Link)
    /\ url' = url \o EscapeOf[Link[src]]
    /\ src' = src + 1
    /\ UNCHANGED <<kind, name, at, text, i>>

Ask ==
    /\ at = "write" /\ src > Len(Link)
    /\ at' = "decode" /\ src' = 1
    /\ UNCHANGED <<kind, name, url, text, i>>

(***************************************************************************)
(* The server.                                                             *)
(***************************************************************************)
(* The server takes MaxName bytes of the name into a buffer and decodes as *)
(* many as were sent.  What url_decode makes of the bytes after the buffer *)
(* may be anything, and it may write over the end of its own.              *)
Foreign == UNION {[1..n -> {"%", "other"}] : n \in 0..2}

HexDigit == {"f", "0", "2", "3", "C"}

Byte(a, b) ==
    CASE <<a, b>> = <<"2", "0">> -> "space"
      [] <<a, b>> = <<"2", "2">> -> "quotation"
      [] <<a, b>> = <<"C", "3">> -> "byte"
      [] OTHER -> "other"

(* Mutant: a % is taken for an escape whatever follows.                    *)
AnyEscape(s, k) == s[k] = "%" /\ k + 2 <= Len(s)

IsEscape(s, k) ==
    s[k] = "%" /\ k + 2 <= Len(s) /\ s[k + 1] \in HexDigit /\ s[k + 2] \in HexDigit

(* The round at k reads past the buffer.                                   *)
Overruns(k) ==
    /\ Len(url) > MaxName
    /\ \/ k > MaxName
       \/ /\ url[k] = "%"
          /\ \E m \in 1..3 : k + m > MaxName /\ \A l \in 1..m - 1 : url[k + l] \in HexDigit

Overrun ==
    /\ at = "decode" /\ src <= Len(url) /\ Overruns(src)
    /\ \/ at' = "dead" /\ UNCHANGED <<text, src>>
       \/ \E rest \in Foreign : text' = text \o rest /\ src' = Len(url) + 1 /\ UNCHANGED at
    /\ UNCHANGED <<kind, name, url, i>>

(* One round of url_decode ("Decode the url-encoded filename",             *)
(* server.c:403): what follows an escape is copied without another look.   *)
UrlDecode ==
    /\ at = "decode" /\ src <= Len(url) /\ ~Overruns(src)
    /\ IF IsEscape(url, src)
         THEN /\ text' = Append(text, Byte(url[src + 1], url[src + 2]))
                         \o SubSeq(url, src + 3, Min(src + 3, Len(url)))
              /\ src' = src + 4
         ELSE text' = Append(text, url[src]) /\ src' = src + 1
    /\ UNCHANGED <<kind, name, at, url, i>>

(* Mutant: the whole name is taken.                                        *)
WithQuotes(s) == s

(* get_webm_from_board would write ' as an entity again, but finds no room *)
(* for it ever: the name ends there.                                       *)
UntilQuote(s) ==
    IF \E k \in 1..Len(s) : s[k] = "'"
      THEN SubSeq(s, 1, (CHOOSE k \in 1..Len(s) : s[k] = "'" /\ \A l \in 1..k - 1 : s[l] # "'") - 1)
      ELSE s

(* It copies no more than the request's buffer holds.                      *)
Copied == UntilQuote(Prefix(text, Min(Len(url), MaxName)))

(* A name that fills its own buffer has no end there, and goes on with     *)
(* what follows.                                                           *)
GetWebmFromBoard ==
    /\ at = "decode" /\ src > Len(url)
    /\ at' = IF kind = "webm" THEN "hash" ELSE "done"
    /\ \E rest \in Foreign : text' = IF Len(Copied) < MaxName THEN Copied ELSE Copied \o rest
    /\ UNCHANGED <<kind, name, url, src, i>>

(* get_full_path_for_webm, get_full_path_for_file: as long as need be.     *)
FullPath == Directory \o text

(* Mutant: as much as the scraper's buffer holds.                          *)
KeyLengthOfBuffer(p) == Min(Len(p), MaxName - 1)

(* Mutant: the key may be as long as the counter has values.               *)
KeyLengthOfCounter(p) == Min(Len(p), Modulus)

(* create_alias_key hashes strnlen(path, MaxName) bytes.                   *)
KeyLength(p) == Min(Len(p), MaxName)

AliasKey(p) == SubSeq(p, 1, KeyLength(p))

(* The loop of hash_string_fnv1a, whose counter wraps around.              *)
HashByte ==
    /\ at = "hash" /\ i < KeyLength(FullPath)
    /\ i' = (i + 1) % Modulus
    /\ UNCHANGED <<kind, name, at, url, text, src>>

HashDone ==
    /\ at = "hash" /\ ~(i < KeyLength(FullPath))
    /\ at' = "done"
    /\ UNCHANGED <<kind, name, url, text, src, i>>

Next ==
    \/ FollowLink \/ WriteUnit \/ Ask
    \/ Overrun \/ UrlDecode \/ GetWebmFromBoard \/ HashByte \/ HashDone

Spec == Init /\ [][Next]_vars

(* A request that was begun is answered.                                   *)
FairSpec == Spec /\ WF_vars(Next)

(***************************************************************************)
(* Properties.                                                             *)
(***************************************************************************)
Sent == Stored \cup Decoration \cup HexDigit \cup {"'"}

(* No ' is left in a name the server goes on with, and only the page of a  *)
(* webm asks for an alias.                                                 *)
TypeOK ==
    /\ kind \in {"webm", "thumb"} /\ name \in NamesOf
    /\ at \in {"link", "unrouted", "write", "decode", "dead", "hash", "done"}
    /\ url \in Seq(Sent) /\ text \in Seq(Sent \cup {"quotation", "other"})
    /\ at \in {"hash", "done"} => \A k \in 1..Len(text) : text[k] # "'"
    /\ at = "hash" => kind = "webm"
    /\ src \in Nat \ {0} /\ i \in 0..(Modulus - 1)

Found == FullPath = FilePath

(* The names that come through: nothing HTML or URLs mark, never two bytes *)
(* in a row that the browser escapes, no % that looks like an escape       *)
(* unless it follows one.                                                  *)
Escaped(k) == Link[k] \in {"space", "byte"}
LooksEscaped(k) ==
    Link[k] = "%" /\ k + 2 <= Len(Link) /\ Link[k + 1] = "f" /\ Link[k + 2] = "f"

ComesThrough ==
    \A k \in 1..Len(Link) :
        /\ Link[k] \notin {"#", "&#039", "&quot"}
        /\ k > 1 => ~(Escaped(k) /\ Escaped(k - 1))
        /\ LooksEscaped(k) => k > 1 /\ Escaped(k - 1)

Fits == Len(Directory \o Link) < MaxName /\ Len(url) <= MaxName

(* Where the path of a file fits its buffer, and the link to it, escapes   *)
(* written out, the buffer of the request, the link on a page leads to the *)
(* file it was made for exactly for those names; what the other links lead *)
(* to is some other path.                                                  *)
FoundIffPlain == at = "done" /\ Fits => (Found <=> ComesThrough)

(* However paths are cut, on recording and on hashing, the alias that is   *)
(* found for a path is the alias recorded for that very path.              *)
KeyAgrees == at = "done" /\ kind = "webm" =>
    (AliasKey(FullPath) = AliasKey(FilePath) <=> Found)

(* Every request is answered, unless it brought the server down: the       *)
(* counter gets to the end of every key.                                   *)
Answered == <>(at \in {"done", "unrouted", "dead"})
=============================================================================
