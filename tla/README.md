# mzbh: models and proofs

`mzbh` collects `.webm` files from an image board and hosts them. The repository holds two generations of
it: the C programs under `old/` (a scraper, a web server) and their Flask successor under `mzbh/` (a scraper, a
spider, views). This directory holds TLA+ modules for the parts that keep state, configurations for TLC, and
proofs for TLAPS.

## 1. The system

| part | code | state it keeps | operations | talks to |
|---|---|---|---|---|
| C scraper | `old/src/downloader.c`, `parse.c`, `stack.c` | stacks of threads and posts, the post in hand (memory only) | a cycle every 20 minutes: catalogs, threads, skip or queue, then post by post: save post, download, record | board (HTTP), files, tables |
| recording | `old/src/db.c:582-650` | rows of `webms` and `webm_aliases`, links | `add_image_to_db`, `modify_aliased_file` | tables, files |
| posts, threads | `old/src/db.c:736-1014` | rows of `threads` and `posts` | `add_post_to_db` | tables |
| files | `WFU_WEBMS_DIR/<board>/<size>_<name><ext>` | regular files, symbolic links | fopen, stat, realpath, unlink, symlink | |
| tables | PostgreSQL; `scripts/oleg_to_pg.py:92-141` has the schema | rows; `oleg_key` and `file_hash` are UNIQUE | INSERT and SELECT, a connection for each | |
| C web server | `old/src/server.c`, `http.c`, `main.c` on 38-moths | threads; a directory of uploads; what libpq has allocated | pages of boards, webms, threads, lists; numbers; search by URL | files, tables, the web |
| Flask scraper | `mzbh/commands/downloader.py`, `downloader.sh` | memory only | a pass every hour | board, files, tables |
| spider | `mzbh/commands/spider.py` | none | walks the files: adopts unknown ones, hashes known ones again | files, tables |
| migration | `mzbh/commands/waifu_migrate.py`, `scripts/` | | copies the C tables into the Flask ones | tables |
| Flask views | `mzbh/blueprints/main.py`, `filters.py` | a cache of board names, shared by threads | pages | tables, files |

What makes it hard: nothing is transactional across the files and the tables, so a death between any two steps
leaves a state the next cycle has to live with; what is already done is recognised by a file's name and size, by a
path known as an alias, or by a hash, and the three may disagree; paths are used through symbolic links (`stat` and
`fopen` follow them); a failed query looks like an empty answer; an HTTP error looks like a file.

What makes each part correct:

* scraper: every webm the catalog leads to is stored, kept, shown at its post's path and described; what is there is
  recognised and not fetched again; the first post of a webm becomes its original.
* recording: a content has one original; the original's file is never damaged; an alias belongs to an original
  elsewhere; links lead to files and never round in circles.
* web server and views: a page shows rows that belong together; paging reaches every webm; the link on a page leads
  to the file it was made for; a search by URL shows the webm at that URL; what a query allocates is given back; a new
  board has its name on the pages some day.
* Flask scraper and spider: a hash has one row whoever inserts it first; a file without a row is adopted.

`PROJECT.json` lists the hazards line by line.

## 2. Modules

| module | what it is | code |
|---|---|---|
| `Catalogue` | the promise: a shelf of places, originals that stay, reposts | abstract |
| `Archive` | the C scraper, the files, the four tables, the board | `downloader.c`, `db.c`, `utils.c`, `parse.c`, `stack.c` |
| `ArchiveProofs` | theorems about `Archive`: links, rows, files and the refinement; what is never lost; the order of the work and what faults cost | |
| `PageProofs` | theorems about `WebmPage` and `ThreadPage` | |
| `UrlSearchProofs`, `BoardCacheProofs`, `FlaskScraperProofs`, `MigrationProofs`, `NamesProofs`, `PagingProofs` | theorems about `Connections` with `UrlSearch`, and about the module of that name | |
| `WebmPage` | extends `Archive` with the server's page of a webm, another process over the same files and tables | `server.c:391-502`, `db.c` |
| `FlaskScraper` | the Flask downloader and the spider, over the same files and tables | `downloader.py`, `downloader.sh`, `spider.py`, `models.py` |
| `ThreadPage` | extends `WebmPage` with the page of a thread | `server.c:573-646`, `db.c:127-168` |
| `Paging` | lists shown a page at a time, and a reader who follows the links | `server.c`, `main.py`, templates |
| `Connections` | the requests of the C server, their queries, and what libpq allocates for them | `server.c`, `db.c`, `models.c` |
| `UrlSearch` | extends `Connections` with the search by URL: download, hash, lookup | `server.c:281-389`, `http.c` |
| `Names` | the name of a file on its way through scraper, page, browser and server | `utils.c`, `server.c:207-259`, `models.c` |
| `BoardCache` | the names of boards on Flask pages, from a map kept in memory | `filters.py`, `main.py`, `__init__.py` |
| `Migration` | the copy of the C tables into the Flask ones, beside the C scraper | `waifu_migrate.py` |
| `MCArchive`, `MCWebmPage`, `MCFlask`, `MCPaging`, `MCUrlSearch`, `MCMigration` | instances for TLC | |

`Archive` refines `Catalogue`; `WebmPage` composes with `Archive`, and `ThreadPage` with both; `UrlSearch` composes with
`Connections`. The others stand alone: the two generations never run over the same tables except through `Migration`,
and the names on a link and the names of boards touch nothing else.

### Archive

`pc` is the place in `main`'s loop; every other local is a variable of the same name as in the code
(`thread_matches`, `queue` for `images_to_download`, `match` for `p_match`, `old_webm`, `real_fpath`,
`real_old_fpath`). `fs` maps every path to nothing, a regular file with its content, or a link to a path.

| label | code | actions |
|---|---|---|
| `sleep` | `main` | `StartCycle` |
| `index` | `build_thread_index` | `ReadCatalog`, `ReadThread`, `IndexPost`, `IndexDone` |
| `pop` | `download_images`' loop | `PopMatch`, `CycleDone` |
| `post`, `insert_post` | `add_post_to_db` | `SaveThread`, `InsertPost` |
| `download` | `download_image` up to `fopen` | `SkipDownload`, `OpenImage`, `ThumbFails` |
| `fetch` | `get_file` | `FetchImage`, `FetchFails` |
| `record` | `add_image_to_db` up to the row | `InsertWebm`, `NotRecorded`, `FoundItself`, `FoundOriginal` |
| `alias` | `_insert_aliased_webm` | `InsertAlias`, `KeepAliases` |
| `link`, `symlink` | `modify_aliased_file` | `RefuseLink`, `Unlink`, `Symlink` |
| `down` | no process | `Restart` |

`NewPost` (the board) and `Crash` may happen at any label. A step that leaves nothing behind is part of the action
it precedes; each durable effect is an action. Every failure the environment can cause (request, query, file
operation, death) takes one from `faults`, which starts at `MaxFaults`; a failed `INSERT` may have been committed.
Closing a file twice (`downloader.c:258-263`) is undefined: `CloseTwice` goes on or dies.

Abstracted: a hash is the content; a file that was not fetched to its end is `Cut`, shorter than any announced size;
rows are what they describe (no ids, dates, bodies); thumbnails count only when they fail; boards are asked in any
order rather than in the order of `BOARDS`; paths fit in `MAX_IMAGE_FILENAME_SIZE`; one scraper runs at a time.

### WebmPage

`ScraperStep` is any step of `Archive`, and gives the row it inserts the next id of its table (`webm_ids`,
`alias_ids`): the page passes ids about, and confuses those of the two tables. `webm_handler` is `AskForPage`,
`HashFile` (the file read through links), `FindWebm` (by the hash), `FindAlias` (by the path), `ListAliases` (by id)
and `SendPage`; any of the three queries may fail, which looks like no row. `due` remembers what was catalogued when
the page was asked for. Requests only read, so one at a time stands for all.

### ThreadPage

`posts` and the numbered rows of `WebmPage` are what the join of `get_posts_by_thread_id` goes over (`PostsByThread`): a
post without a webm or an alias is still a row. `CountsPostsOnce` looks at it in every state of `WebmPage`.

### Connections and UrlSearch

A worker is a thread of 38-moths. `Plan` has the queries of each handler in their order, `Wanted` the `if`s between
them. A query is `Connect` (`_get_pg_connection`), `Exec` (`PQexec`, `PQexecParams`) and `Finish`, whose `Clears` and
`Returns` say for each kind of query what becomes of the result: counts forget it, lists return it, lookups copy it
and clear it. `Respond` clears the lists. `conns` and `results` count what is allocated; `refused` and `counted`
remember what was lost and why. That nothing should be lost is checked, and fails, in a run of its own.

`UrlSearch` puts `Search`, `Open`, `Perform`, `CloseUpload` and `HashUpload` before the queries of
`url_search_handler`, with the directory `user_uploaded` that all threads write to, and answers the lookup by hash from
`webms`. `rand()` is not seeded: it is the number of calls since the process started (`drawn`), so that a name
comes back after `StartAgain`. `due` remembers that the webm was known when its URL was sent; a fault in that
search takes it back.

### Names

`FollowLink` is the browser (external), which sends nothing after a `#`; `WriteUnit` resolves an entity and escapes what may
not stand in a URL, a unit a step, and `Ask` sends `url`. `UrlDecode` is one round of `url_decode`, which reads `url` at
`src` and writes `text`. The server copies `MaxName` bytes of the request and decodes as many as were sent: a round that
reads past the copy (`Overruns`) may find anything there, or bring the server down (`Overrun`). `GetWebmFromBoard` is the
copy up to a quote that follows, of no more than the buffer holds, as `get_webm_from_board` and `get_thumb_from_board` do
it; a name that fills its buffer goes on with whatever follows (`Foreign`); `HashByte` is one round of the loop of
`hash_string_fnv1a` with its `uint8_t`, and `HashDone` its end. A unit of a name is one of seven kinds, which are those the
code and the browser treat differently.

### BoardCache

A worker makes a page: `Ask` reads the rows, then for each row `NameFromCache`, or `ReadBoards` and `SetCache` where
nothing is kept. Between these two steps other workers run, and time goes by. `Tick` is a unit of time: `ttl` runs
down, `age` of every board goes up. No page takes longer than `Slow`: this is the one assumption about time.

### FlaskScraper

`dpc` is the downloader's place, `spc` the spider's.

| label | code | actions |
|---|---|---|
| `sleep` | `downloader.sh` | `StartPass` |
| `index` | `run`, `build_thread_index`, the loop over posts | `ReadCatalog`, `ReadThread`, `SavePost`, `PassDone` |
| `check`, `alias`, `insert_alias` | lookup by the announced hash, alias | `CheckHash`, `SkipAlias`, `PickOriginal`, `InsertAlias` |
| `download`, `fetch` | opening and writing the file | `OpenFile`, `Fetch` |
| `thumb`, `save` | ffmpeg, commit | `Thumbnail`, `NoThumbnail`, `SaveWebm` |
| spider | `os.walk`, row by path, hash, row by hash and commit | `StartWalk`, `ListDirectory`, `LookUpFile`, `ReadFile`, `AdoptFile`, `CorrectHash`, `StopWalk` |

An exception ends the pass (`Die`); so does being killed (`Crash`). Both, and whatever else may fail, take one from `faults`
and happen where `MayFailAt` lets them. A cut file has a hash of its own for each path. `thumbs` remembers what a thumbnail
was made of: ffmpeg needs one frame, so a cut file may have one or not; `Playable` is about whole contents only. The
thumbnail exists from `Thumbnail` on, though ffmpeg may still fail or be killed (`NoThumbnail` and `Crash` at `save`). The
threads `PossiblyMatched` but not `SurelyMatched` are those whose webm is in a reply the catalog may or may not show.

### Paging

A list is the order its key induces (`Before`): the time `stat` finds for a board, the number of aliases, the date. The
query of the C list by popularity orders by the number of aliases alone: `Top` has all the ways to take the first rows of
such an order, `Rows` all the rows a page may come out with, and each page chooses anew. `tied` collects the webms that
had as many aliases as another while the reader read.
A new webm is the newest (`NewWebm`); `Unlink`, `Symlink` and `Refetch` are what the scraper does to a board's
directory; `NewAlias` moves a webm up a list by popularity. The C list by popularity takes the rows of the page for
their number (`Total`). A C handler lists and counts at once (`ShowPage`), a
Flask view in two queries (`CountRows`, `QueryRows`); `FollowLink` is the link of the template. The C
templates render it on the last page too, without a number, which `strtol` takes for page 0: there the reader is `done` with
a round and begins another. `moves` counts what moved while the reader read.

### Migration

A row is copied with its old id, and refers to the rows that have the old ids it refers to. `Select` reads the table whose
turn it is, once; `CopyRow` is one `get_or_create` and its commit. The UNIQUE hash is never in the way: the C scraper's
hashes are BMW digests in hexadecimal, the Flask side's MD5 in base 64. `altered` stays after a failure, as `ALTER TABLE`
does.

## 3. Runs

| run | bounds | what it shows |
|---|---|---|
| `archive` | 5 posts, 2 threads, 2 boards, 2 webms, 2 faults | originals' files keep what was hashed, what is taken for present is the right file, posts wait oldest first, the first post becomes the original while nothing fails, each fault sets at most one path at odds with the tables, what a path shows is taken away only to be linked, what is stored is never lost, every step is one `Catalogue` allows; every webm found is stored some day and kept, and while nothing fails it is also shown at its post's path and has a row |
| `archive_errors` | 4 posts (one path posted twice), two error bodies (a page and an empty one), 3 faults | links never loop; no file is an alias of itself |
| `page_safety` | 4 posts, 2 webms on both boards, 1 fault of the scraper, 1 of the pages | a page asked for a catalogued file finds it and lists its reposts, whatever the scraper does meanwhile, unless a query of its own fails; a thread's page has every post once, until a second thing fails |
| `flask` | a webm on two boards, 1 fault, the spider racing | a webm recorded when it was all there stays on disk under the hash of its row; an alias has that of its webm while nothing fails; a post becomes an alias once; while nothing fails, the downloader lets go of a webm only once the tables describe it, or because the spider gave its file a row first; while nothing fails, or where nobody runs the spider, every webm is described and stored for good, unless a failure left a thumbnail of a part of it or a thumbnail without a row |
| `paging_walk` | the C boards with 4 webms, the C list by popularity and the Flask lists with 5, 2 a page, 2 moves | a reader misses at most as many webms as moved; of the C list by popularity, only webms that tied with another and those no link leads to; the reader of a board at rest sees all of it, round after round |
| `server` | 2 threads, 2 requests in a life of the process, 2 faults (a death with restart is one), 2 URLs that end alike, symmetric | a search shows the webm of its own URL, and finds what was known |
| `names` | names of up to 5 units of 7 kinds, buffers of 9, a counter of 10 values | which names lead back to their file, where path and link fit the buffers; a path cut short has no other path's alias; the hash loop ends |
| `board_cache` | 2 boards, 2 threads, pages of 2 rows, a map kept for 2, a page made in 1 | a page fails only for a board younger than map and page together, and some day for none |
| `migration` | 2 threads, 2 posts, 2 webms, 1 alias, 2 interruptions | a finished migration is complete, no row is copied twice; undisturbed it ends while the tables grow |
| `archive_v_lost_link` | 1 fault | `EventuallyServed` fails: death between unlink and symlink |
| `flask_v_repair` | 1 fault, in a transfer or between thumbnail and commit | `EventuallyArchived` fails: the transfer breaks off behind the first frame, and the part is recorded as the webm; with faults at `save` only, it fails with a thumbnail and no row |
| `server_v_leaks` | 1 thread, 1 fault | `NothingLeaks` fails: the object of a refused connection is dropped; without a fault it fails after pages that count rows, whose results are not cleared |

The bounds suffice for what the code can tell apart: two boards (a link leads from one to the other), a repost in
the same thread and in another one, a path posted twice, three faults (an error recorded, a second one linked to it,
and one more through the link). The scrapers handle one post at a time, so more posts add length rather than
kinds of step. For pages, two webms reposted in the other order make the ids of webms and aliases disagree. For
Flask, two boards with the same webm give the race for the UNIQUE hash, and a second pass over either; one fault, which
a later pass may repair or not, and the theorems allow for any number. For paging, a
list grows over the end of a page and of the next one; a move of a repost takes two steps, hence two moves. For the
migration, the alias's webm is in another thread than its post. For the server, two requests meet in one directory
or in the library; the third life of the process is the last the faults pay for, so a name drawn again meets the file of the
life before. For names, five units and an extension hold an escape, what follows it and a neighbour on both sides, and go
over the end of the buffer; a buffer of 9 holds the path of a webm whose name has four units, but not every link
to it, and against a counter of 0..9 it is what 255 against 0..255 is in the code. For the
cache, two threads are what a map replaced by an older one takes, and two rows what a map that expires within a page takes.

The runs of `Paging`, `Migration`, `Names` and `UrlSearch` turn the deadlock check off: the reader of a list whose links do
not lead back is done, the script has stopped and the tables are full, the one request is answered, or the last of
`MaxRequests` is.

Fairness: the C `main` loops for ever, so the scraper is weakly fair as a whole (`WF_vars(Scraper)`), and somebody
starts the program again (`WF_vars(Restart)`). `downloader.sh` loops for ever too (`WF_vars(Downloader)`), and a dead
pass is followed by another; nobody has to run the spider. The reader of pages goes on clicking (`WF_vars(Read)`), and
the migration is run, and runs on (`WF_vars(Script)`). A Flask worker that has begun a page goes on with it, and time
goes by (`WF_vars(Make(w))`, `WF_vars(Tick)`); the thread that handles a request runs (`WF_vars(Next)` in `Names`, where it is
alone). Nothing is assumed of the board or of a choice between a
process's alternatives: a fault is never forced, and its budget ends.

What the properties leave room for, because the code does:

* an HTTP error's body is kept as if it were the webm; a second such body is linked to the first, and its path is
  then skipped for ever as a known alias. `EventuallyStored` and `RowsBacked` are claimed where `ErrorBody` is empty;
* a C scraper that dies between file and row leaves a file that no later cycle looks at: rows are claimed while
  nothing fails (`CalmlyServed`);
* two webms of one name and size on one board are taken for one: `OnDiskIsTheFile`, and on the Flask side `HashIsContent`
  and `AliasAgrees`, are claimed for boards without such namesakes;
* the Flask downloader records the announced hash of whatever ffmpeg finds a frame in. `HashIsContent` is claimed of webms
  whose thumbnail is of the whole of them, `EventuallyKept` excuses those whose thumbnail is not (`Misjudged`), and
  `flask_v_repair` shows what happens to these: no later pass completes a file that was cut behind its first frame;
* ffmpeg does not write over a thumbnail, and the row waits for a new one: where a pass fails between the two, later ones
  download the webm again and record nothing. `EventuallyKept` excuses this too (`Interrupted`), once something has failed;
* a page shows an alias and a webm together for every link that leads to its file: `server.c:426` says "This shouldn't
  happen, but whatever", and takes the webm, which is right;
* a page made between unlink and symlink takes the id of the alias for that of a webm and lists that webm's aliases
  too: `PageListsReposts` says what is not missing, nothing says what is not too much;
* with the spider, one death of the Flask downloader leaves a file without a row, whose adopted row the spider may
  correct while the downloader holds its id for an alias: `AliasAgrees` is claimed while nothing fails;
* a second pass of the Flask downloader makes a post an alias of the webm it brought: `AliasesOnce` bounds it;
* a migration that fails cannot be started again: `ALTER TABLE` refuses the columns that are there. `CopiedOnce`
  rests on that;
* after two failures (a failed lookup of an alias that is recorded, and what made the scraper look at the post
  again) a post has two alias rows, and is counted twice on its thread's page: `CountsPostsOnce` allows for one failure;
* `by_alias.html` shows "@total Webms Collected", which is the number of rows on the page (`server.c:661`), and no link
  leads past the second page: `OutOfReach` in `MissesOnlyTied`. Most webms have no alias, and tie: which of them the two pages
  show is up to the database, each time (`db.c:226-231`), so `MissesOnlyTied` promises nothing about them;
* the link of the last page of a C list leads to page 0 (`server.c:531`, `board.html:31`): who follows the links never
  comes to an end, and `ComesRound` says what that is worth;
* `url_decode` copies the character after an escape unseen, so of two escapes in a row the second stays; and
  `get_webm_from_board` compares the room left with the length so far (`server.c:222`), never finds room for a quote, and
  ends the name there. `FoundIffPlain` says which names are not found: those with `#`, a quote of either kind, two
  spaces or two bytes beyond ASCII in a row. A request longer than the buffer is cut, and decoded for the length it had before
  (`server.c:208-215`), reading what lies behind: `FoundIffPlain` claims nothing of names whose link is longer than it;
* `get_record_count_in_table` never clears its result (`db.c:57-80`), and `_get_pg_connection` drops a refused
  connection: a violation run shows it, and `OnlyCountsAndRefusalsLose` proves that nothing else is lost;
* searches for URLs that end alike are told apart by `rand()` only, of which nothing is assumed but that it does not repeat
  itself within a life of the process;
* what a search downloads stays in the directory of uploads; a file that could not be hashed, or was cut after a
  status of 200, is searched for all the same. `FindsKnown` excuses a search whose own download failed;
* a Flask page fails with a `KeyError` as long as the map it uses was read before the board was made, and a board
  named once may be unknown again when a slow thread stores the map it read earlier: `FailsOnlyYoung` bounds both.

The violation runs show what the code does against what its README says: see `findings` in
`PROJECT.json`.

## 4. Proofs

`ArchiveProofs` proves, from the three named assumptions of `Archive` (the site's data is well formed; announced
sizes are the images' sizes and positive; `None` and `Cut` are none of the data):

* `Typing`: `TypeOK` is inductive as it stands.
* `NoLoops`: with `TypeOK`, `NoLinkLoop` is inductive. A plain file in place of anything closes no loop
  (`PlainFileClosesNoLoop`), nor does a link put where nothing is, to a place that is a file (`LinkToFileClosesNoLoop`);
  the strengthening is that at `symlink` the target is a regular file and the path is free.
* `AliasesOfOriginals`: needs that a hash has one row, and that at `alias`, `link` and `symlink` the row in hand is
  in the table and is not the one of this path.
* `OriginalsBacked`, `RowsStayBacked` (no error bodies): the inductive invariant `FilesInv` says that every row's
  path is a regular file with its hash, every link leads in one step to such a path, a regular file has the size of
  its name or is cut and holds an image, and what is at the path of the post in hand between `fopen` and the row. `FilesStep`
  needs no more of a step than that it serves no error body (`NoErrorServed`).
* `ArchiveKeepsCatalogue` (no error bodies): the refinement; each action maps to a `Catalogue` step or to a stutter,
  by what it does to the view of the files (`ViewOfFiles`, `ViewElsewhere`).
* `NothingIsLost` (no error bodies), the part of `EventuallyStored` and `CalmlyServed` that is safety. A step changes the file
  of the post in hand only, and one that holds an image only to unlink it (`FilesMove`); then the original it is a copy of
  is elsewhere, with the same content (`OldWebmElsewhere`, `RowsBacked`). A download starts only where nothing is shown
  (`ViewInHand`), so that of the steps that change what is shown (`ViewMoves`) only `Unlink` takes anything away.
* `DownloadsOldestFirst`, with no further assumption: `OrderInv` follows a post from the listing of its thread into the
  first stack (`ReadingUpTo`: it holds the first k posts of the listing, the last of them on top, and what is
  queued of the thread comes after them) and out of it into the second; a thread whose turn is still to come has nothing
  in the queue (`MatchesUnread`, `QueueOfBoardsRead`).
* `OnDiskIsPosted` (no error bodies, `NoNamesakes`: a name, a size and a board make a webm): `ShownIsPosted`, what a path
  shows was posted under it.
* `FaultsCostOneEach` (no error bodies): a fault and a path in disrepair are not simultaneous, for a post in hand is at odds
  with the tables until it is done. `CostInv` counts the other paths only, one fewer when the post in hand has strayed
  (`OnCourse`).
* `OldestBecomesOriginal` (`ListedOnce`: a post's number is unique on its board): `InTurn`. Every older post of the
  thread of a row's post, of the post in hand or of a queued one has a file or a link, or is before it in the queue or among
  the matches; so no row for the hash of the post in hand is of a younger one (`NoYoungerRow`). That a post comes back in a
  later cycle is why this is about what the paths show, and not about the queue alone. It speaks of
  histories without a failure; in those no error body is served, so that `Files` and `CostInv` hold in them whatever the site
  serves when it fails (`CalmFiles`, from `FilesStep` and `CostStep`).

`UrlSearchProofs` proves the three properties of the run `server`, and what the server does not lose, for any number of
threads, requests, faults and URLs (the threads are finitely many; the marks for what is in a file are no content; a URL has
one content):

* `OnlyCountsAndRefusalsLose`: what the threads hold is a sum over them. `Slots` makes it the size of a set of pairs, and
  `SlotsChange` says how the size moves when one thread's share does. `FateOfResult` splits a result's end into cleared,
  handed on, forgotten; the strengthening `CountsAnswered` (a count always has a row) keeps the fourth case out.
* `SearchesShowTheirWebm`: `NumbersDiffer` (two searches of a life have different numbers, none above `drawn`) keeps
  everybody else out of a worker's file (`Bystander`); `OwnFile` then says what can be in it at each step, whatever was
  there before, since `fopen` empties it.
* `SearchesFindKnown`: `OnItsWay` says where a search that nothing has failed for is.
* `Typing`: from the same invariant, `SearchInv`.

`BoardCacheProofs`, for any boards, threads and times with a map that is kept at all: `Typing`, and `FailsOnlyForYoung` from
`ReadLacksYoung` (what a worker has read lacks no board older than its page) and `MapLacksYoung` (the age of a board the map
lacks and the time the map has left are together at most a map's time and a page's).

`PageProofs`, where `PagesOnlyRead` (`PageSpec => Spec`) brings the invariants of `Archive` over, and the site serves no
error bodies:

* `PageTyping` (with error bodies, too): `Numbering` says that the rows with numbers are the rows of the tables, a hash has
  one number, and an alias has the number of the row with its hash.
* `PageIsOfTheRow`: `WebmDue` says, label by label, that what was due when the page was asked for is still to be found with
  what the request holds: the path (`CataloguedStays`), its hash (`CataloguedIsRead`, from `Files`), the number.
* `PageHasTheReposts`: the aliases due are those of the row due, and aliases are never taken back.
* `ThreadPageCounts`: the join of `get_posts_by_thread_id` has a row for each post, and another only if the post has a
  second alias (`CountedOnce`, a bijection). `OneAliasEach` follows from `CostInv`: the second alias takes a fault to look
  at the post again, and one to miss the first alias.

`FlaskScraperProofs`:

* `Typing`: with `FilesRemain`, no file goes away once the spider has seen it.
* `AliasedOnce`: the check `SkipAlias` makes is still true at the insert, which no one else makes.
* `RowsHaveTheirFile` (`NoNamesakes`, whatever fails and whatever plays): the thumbnail stays what it is once it is there,
  so what has to be kept is the file. From the lookup on, no row of a whole webm has the path in hand (`NotRecorded`), so
  the file may be opened; at `save` the file is what the thumbnail was made of (`FileToSave`); and what the spider has read
  of a file with such a row is what the row says (`ReadsRow`), so that correcting it changes nothing.
* `AliasesAgree` (`NoNamesakes`; `AllWebmsPlay`: in every webm it does): `Calm`. A webm's file has its row as soon as nobody
  holds it (`FileHasRow`), so a row found by the hash of a webm keeps it (`RowIsFile`, `DigestIsRow`).
* `NoneLetGo` (`NoNamesakes`, `AllWebmsPlay`): `HandCalm`. The row that sent the downloader to look for an alias is still
  there when it does (`RowToAlias`, from `RowsKept`); a file just fetched has no thumbnail yet (`NoThumbYet`: with one it
  would have had a row); and a row its hash has got meanwhile is of this very file (`RowOfThisFile`), since what the spider
  read is what is there. This is the part of `EventuallyKept` that is safety, as far as a pass goes: it says that an
  iteration does its work, not that there is another pass.

`MigrationProofs`: the tables come in an order in which references resolve (`TablesInOrder`); `NothingPassedOver` says that
what was there at the start, of the tables the script has come to, is still selected or copied with what it refers to, and
`CopiedIsBehind` that nothing copied is selected again. With `NothingYet` (before the columns are there, nothing is copied)
`NeverCopiedTwice`, `DoneIsComplete` and `Typing` follow.

`PagingProofs`, for lists, pages and moves of any number. In the lists whose order is complete (`Ordered`), an order that is
strict and total gives every webm a rank of its own (`RankIsUnique`), and the ranks leave no gap (`RanksAreBijection`), so
that what lies below a rank is the rest of the list (`BelowIsTheRest`). `Lost` are the unseen webms that are gone or above
where the reader has got to. A new webm and one that comes back lose none (`NoneIsLost`), one that moves up loses itself
(`MoverIsLost`), and one that goes loses itself or the one that takes the rank at the end of the page (`OneIsLost`).
`CountIsStale` has what came between the two queries of a Flask view; `LastBoardPage` and `LastViewPage` what the last page
of a round leaves below it. `ReadersMissWhatMoved` and `Typing` follow.

For the C list by popularity, `ReadersMissWhatTied`: a webm that ties with none is on the page its rank says in every
arrangement of the others (`UntiedIsRanked`), and no two webms change places without a tie in between; so of the webms that
have not tied and were not seen all are still ahead of the reader (`StillAhead`), until the links lead back (`FullPage`: the
page behind which one of them is was a full one, and has a link to the next).

Every assumption named above (`NoNamesakes`, `ListedOnce`, `AllWebmsPlay`, `ErrorBody = {}`) holds in the instance of the
run that checks the property; where it does not, section 3 says what the code does instead.

`NamesProofs`, for names, buffers and counters of any size with `MaxName < Modulus` (255 and 2^8 in the code). The loops are
actions, so that no recursion has to be reasoned about; `LeastNumber` (a set of numbers has a least one, from the
well-foundedness of `<`) takes the place of induction:

* `Typing`, `CounterSuffices`: a key is at most `MaxName` long (`KeyBounded`), so that the counter stops short of the modulus.
* `KeysIdentifyPaths`: a path of the scraper ends before the buffer does, so a key that is equal to its key is not cut.
* `PlainNamesAreFound`: `FateInv`. Where the link fits the buffer no round reads past it. What the browser has written is a
  sequence of escapes whose beginnings are known (`Begins`); what the server has decoded either agrees with the link up to
  the unit it reads next (`OnTrack`) or differs from it for good at some place, which only a name that does not come through
  can do (`Strays`, `StrayedForGood`).

Every invariant and every action property that a passing run checks is proved, and so is the refinement. Only model-checked
is liveness: `EventuallyStored`, `CalmlyServed`, `EventuallyKept`, `ComesRound`, `EventuallyDone`, `Answered` and
`EventuallyNamed` hold under fairness, which TLAPS cannot reason about without ENABLED.

## 5. Not modelled

Left out are vendored `parson.c`, its header and `blue_midnight_wish.c` (a hash is taken to be the content); serializers
and templates but for what they link to; the older imports from OlegDB in `scripts/`; `receive_chunked_http`, which
nothing calls; timers, benchmarks and unit tests; static files, the index and the thumbnails of the Flask
views, which are plain reads of one query each; 38-moths, which is a submodule (of it, only that handlers run in
threads).

Within what is modelled: what lies in memory behind the server's buffers (any outcome is taken for possible), requests
without a URL, `endswith` and the search for the extension, and the wording of pages are left out.

