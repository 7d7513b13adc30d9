# A formal model of the movie pipeline

This directory is a TLA+ development of the NestJS movie service in this
repository: modules that model its components, TLC configurations that check
them on small instances, and proofs, checked by TLAPS, that hold for every
instance. Paths below are relative to the root of the repository.

Run TLC as `tlc -config MCMovieLikes_day.cfg MCMovieLikes.tla`, and TLAPS as
`tlapm MovieLikesProofs.tla`. `PROJECT.json` lists the runs, the lines of code
each definition stands for, the hazards, the theorems, and for every checked
property a mutated definition under which TLC finds it violated.

## 1. Inventory

The program is a Node.js process (`src/main.ts`) in front of PostgreSQL
(through Prisma), Redis (the cache, BullMQ's queue) and a local directory
`public/`; started with `TYPE=worker` the same application is a second process
that also works off the queue (`src/app.module.ts:115`). Node runs one piece of JavaScript at a time, so the hard behaviour
lies between two `await`s: handlers of several requests, cron jobs, queue jobs
and socket events interleave there, each with its own database transaction.

| component | state | operations | interacts with | what makes it correct |
|---|---|---|---|---|
| likes (`MovieService.toggleMovieLie`) | `movie_user_like` rows, `movie.likeCount`, `movie.dislikeCount` | toggle; `TasksService.calculateMovieLikeCount` at midnight | `MovieService.remove`, `UserService.remove` and their cascades | the counters are the rows; the client is told what is stored; no toggle hangs; drift is repaired |
| files (`MovieService.create`) | `movie_file` rows; files in `public/temp` and `public/movie/<id>` | upload, create, remove; `deleteExpiredTempFiles` at midnight | the disk, which takes part in no transaction | every row has its file; a failed request leaves nothing behind; uploads are reclaimed |
| catalogue (`MovieService.create`, `update`, `remove`) | movies, details, genres and directors of movies | the three, and `GenreService.remove`, `DirectorService.remove` | unique indexes and foreign keys | no reference dangles; an update does all or nothing |
| movie list (`MovieService.findAll`, `CommonService`) | the cursor, which the client keeps | `parseCursorPagination`, `generateNextCursor` | whatever changes movies between two pages | nothing twice, nothing skipped |
| recent movies (`findMovieRecent`) | `MOVIE_RECENT` in the cache | read, fill | | stale answers end |
| chat (`ChatGateway`, `ChatService`) | `connectedClients`, socket.io rooms, `chat_room`, `chat` | connect, disconnect, `sendMessage` | `AuthService.parseBearerToken` | members get messages, others do not; a customer has one room |
| tokens (`AuthService`, `BearerTokenMiddleware`, `AuthGuard`) | `auth:block:` entries of the cache; tokens, which clients keep | login, renew, block, verify | the clock, accounts | a blocked token stays out; live ones are served, as who they were issued to |
| accounts (`UserService`), genres (`GenreService`), directors (`DirectorService`) | their rows, each with a unique key | create, update, remove | likes, catalogue, tokens | keys stay unique; a refusal has a reason; an answer is one's own row; no update is lost |
| thumbnails (`CommonController.createVideo`, `ThumbnailGenerationProcessor`) | uploads in `public/temp`; BullMQ jobs in Redis | upload adds a job; the worker runs ffmpeg for each of its files, up to three times | files, which create moves and the clean-up deletes | a client that waits gets its thumbnails; every job ends |
| session, rate limits, S3, filters, interceptors | in libraries, or none | | | |

Hard behaviours, each listed at its line under `hazards` in `PROJECT.json`:
statements of READ COMMITTED transactions that act on what an earlier one read;
row locks taken in different orders; a disk and a database that change together
but commit apart; concurrent promises of which one fails; crashes between a
rename and a COMMIT; a job that is delayed, retried and handed out again while
its file moves; a look-up and a write that are not one transaction; socket
handlers that overlap at their awaits; a TTL in milliseconds against an `exp`
in seconds.

## 2. Modules

| module | stands for | checked by | proved in |
|---|---|---|---|
| `LikeLedger` | abstract: a vote and its count change in one step | | |
| `MovieStore` | abstract: create, update and remove of a movie in one step each | | |
| `MovieLikes` | toggles, removals and the recount, statement by statement | `MCMovieLikes` | `MovieLikesProofs` |
| `MovieFiles` | an upload from `public/temp` to the folder of a movie | `MCMovieFiles` | `MovieFilesProofs` |
| `MovieCatalog` | create and update against each other and against removals | `MCMovieCatalog` | `MovieCatalogProofs` |
| `CursorPagination` | a walk through the pages of `GET /movie` | `MCCursorPagination` | `CursorPaginationProofs` |
| `Chat` | sockets, rooms and messages | `MCChat` | `ChatProofs` |
| `Tokens` | JSON web tokens from log-in to log-out, with the clock | `MCTokens` | `TokensProofs` |
| `Thumbnails` | uploads and the thumbnail queue; extends `MovieFiles` | `MCThumbnails` | `ThumbnailsProofs` |
| `Registry` | rows with a unique key: users, genres, directors | `MCRegistry` | `RegistryProofs` |

Every handler is a program counter per request (`pc`, `phase`, `step`,
`stage`), one action per stretch of code between two awaits. The variables
carry the names the code gives its data where it has one.

### How transactions are modelled

PostgreSQL runs at READ COMMITTED, which the code never changes. A statement
sees what is committed when it starts. `MovieLikes` and `MovieCatalog` apply
the writes of a transaction at its COMMIT: until then nobody else can see them,
and what the transaction holds (`HoldsRecord`, `HoldsKeys`, `HoldsMovie`,
`Holders`, `Rivals`, `TitleFree`), derived from how far it has come, makes
others wait where row locks, the `FOR KEY SHARE` locks of foreign keys and
unique indexes do. A statement that had to wait acts on the row as it has
become. Deadlocks, Prisma's timeout of interactive transactions and lost
connections roll a transaction back (`DeadlockVictim`, `Timeout`, `Abort`,
`CommitFails`). A cascade belongs to the DELETE that causes it. The look-up
that makes the answer is a statement of its own where it matters: before the
COMMIT in `MovieCatalog` (`Seen`, two SELECTs) and `MovieFiles` (`Reread`), after the
write in `Registry` (`Read`). In a toggle it is one step with the COMMIT, for the
row it reads is one the toggle itself has locked.

### The like feature

`Toggle` is the request; `FindMovie`, `FindUser`, `FindRecord` its reads;
`ChangeRecord` and `CreateRecord` the write of the like row; `UpdateCounters`
the UPDATE with `increment`; `Commit` the answer. `Delta` and `After` are what
the branches on `likeRecord` do to counters and row. `RemoveMovie`,
`LockMovie`, `DeleteMovie` are `MovieService.remove`; `RemoveUser`, `LockUser`,
`DeleteUser` are `UserService.remove`; `StartRecount`, `RecountRow`,
`FinishRecount` are the one UPDATE of `calculateMovieLikeCount`, whose
subqueries keep the snapshot with which the statement began (`Recounted`).
`DaySpec` is what happens between two midnights while no account is deleted;
`Spec` has everything. An answer may become a 500 after the commit, as the
response-time interceptor does after a second: then the client was told
nothing (`unknown`).

### Files

`Request`, `Check`, `Stat`, `Statted`, `Rename`, `Listed`, `Insert` are the
steps of `create` for each file it names, run as concurrent promises; `Catch`,
`RenameBack`, `Throw` its catch block, which knows the renames in `renamed` and
swallows the failure of a rename back; `Reread` is the look-up for the answer,
behind the try block, and `Commit` follows it. The name of an upload holds its
time, so `Expire` is a property of the name. `StartCleanup` lists and `Unlink`
deletes. A `Crash` ends every request and the clean-up at any step; the database
rolls back, the disk does not.

A reference (`Refs`) is a folder and a file: a plain name is one in `public/temp`,
and what has a slash in it, absolute or not, is the path it says
(`resolveSrcAbs`, `src/src/movie/movie.service.ts:193`). So a request may name
what was uploaded or may be later, twice the same file, and the file of any
movie in `Folders`, its own included. Paths to anything but `public/temp` and
the folders of movies, and paths of directories, are not modelled.

A request ends `failed` when the handler ended it with an exception and `lost`
when its COMMIT or the server failed. `lapse` is a history variable: why the
handler has left a file where it had moved it to.

### Thumbnails

`Thumbnails` composes the queue with `MovieFiles`: it extends that module, a
step of the one leaves the variables of the other alone but for `StoreFile`,
which is `Upload`, and `ServerCrash`, which is `Crash`. An upload request
stores and renames each of its files (`Receive`, `StoreFile`, `RefuseUpload`)
and adds a single job for all of them (`Enqueue`) before it is answered; a
client learns the names, which hold a uuid, from that answer only. The worker
takes one job at a time, starts ffmpeg for all its files (`Process`), and fails
the attempt with the first promise that is rejected (`AttemptFails`), the
others running on. `Screenshot` is the moment at which ffmpeg opens its input,
after which a rename or a deletion no longer matters to it. Jobs are in Redis
and survive the death of either process; a job whose worker died is handed out
once more, as the queue's `maxStalledCount` has it (external, like the queue
itself). The delay before the first attempt is no guard: time passes between
any two steps. Both processes run the application's cron jobs; there is one
clean-up at a time in the model, and as a second one could only find fewer
files, `Unlink` of a file that is gone is the same as none.

### Accounts, genres and directors

The three services do the same in create, update and remove, so there is one
module for them: `table` says which of them the requests are about, `Fields` which
fields make its key (`email`; `name`; `name` and `dob`). `Begin` is the request,
`Find` the look-up of its row, `Look` that of another row with its key, `Write`
the statement on which the unique index decides, `Read` the look-up for the
answer: each is a transaction of its own, for the code opens none. What an
exception of Prisma (P2002, P2025, P2003) makes of a request is `crashed`: no
filter translates it. The 409 of a genre that some movie has is `used`; which
genres those are is left open here, and part of `MovieCatalog`. `disturbed` remembers which requests others have written
under. Passwords and nationality are left out. The table may start with any
rows that keep the index.

### Catalogue

A request is its DTO: what is given of title, director and genres. `genreIds`
is a set, {} stands for its absence (an empty list is refused, and a list with
duplicates fails the count of `FindGenres`). `draft` is what the transaction
has written and `view` what its closing look-up has read so far: `Seen` is a
statement for the row and one for the genres, between which, and before the
COMMIT, others may commit. `FindDoomedGenre` and `RemoveGenre` are the two statements of
`GenreService.remove`. The creator and the detail text, which nothing else
refers to, are left out; so are files, which have their own module. The history
variable `raced` has the movies that two requests were about at once.

`MovieStore` is what a client may think of the catalogue: a request that has been
asked is carried out in one step, or refused. `StoreSpec` maps the statements to
it: the call is `Ask`, the COMMIT is `Create`, `Update` or `Miss`, a failure
`Refuse`, a removal `Remove`, and everything in between stutters. What is left
open there is what two requests that meet on one movie do to each other: which
of the genres remain (`GenresAfter`), and what they are answered (`Shown`), which
is read before the COMMIT and need not be a row the movie ever had; only the
title and the director a request has itself given, on which it holds the row
lock, are sure to be in its answer.

### Pages

Columns are integers that are not null (`id`, `likeCount`, and the times,
which Prisma writes in the milliseconds a cursor keeps); directions are valid
and `take` is positive. `Precedes` is what ORDER BY means; `CursorWhere` is the
clause the code builds; `FindMany` may answer any of the rows that tie. The
title filter is membership in `live`: `Enter` and `Leave` are also movies
renamed into and out of the selection. Every page may have its own `take` and
its own `order`, of which the cursor's wins.

### Chat

`Connect`, `Register`, `FindRooms`, `Join` and `Disconnect` are the gateway's
handlers split at their awaits; `Send`, `FindNamedRoom`, `FindOwnRoom`,
`CreateRoom`, `Store`, `Fails`, `Announce` those of `createMessage`.
Authentication is abstracted to the account its token names, which for an access
token that was renewed is none (`NoUser`; see `tokens_renewed` below): such a
socket is accepted and registered under `undefined`, its query finds every room
that has a member (`JoinedBy`), and what it sends fails. `Exists` and
`JoinedBy` are what the queries find; `Enters` and `Audience` are the sockets
that join a room and that are sent its message. A user in `Patient` sends one
message at a time; the properties that need it say so, and so do those about
users with one socket (`Sole`). Sockets in `Lasting` stay open, a bound.

### Tokens

A token is its payload: the code signs nothing else, so two tokens for one
payload in one second are one string. `now` counts a fraction `Unit` of a
second; `iat` is rounded down and `exp` compared in seconds as `jsonwebtoken`
does. `CheckBlock`, `Verify`, `Guard` are the middleware and `AuthGuard`;
`SignRefresh`, `SignAccess` a log-in; `Rotate` the renewal; `ReadTime`,
`SetBlock` the two sides of the await in `tokenBlock`. Time may pass between any
two steps. Redis loses no entry early and counts time as the process does. The
block list is read by the middleware, so this is about HTTP requests. All
accounts the code creates are admins; roles and `RBACGuard` are left out.

## 3. What is checked

| run | instance | shows |
|---|---|---|
| `likes_day` | 2 users with a tab each, 2 movies, 2 toggles per tab | `CountersExact`, `ReadStillValid`, `ToldIsStored`, and that the transactions implement `LikeLedger` |
| `likes_live` | 2 tabs of 1 user, 1 movie, recount, removals, fairness | `Referential`, `CountersHaveRow`, `EveryToggleEnds`, `EventuallyExact`; deadlock is checked too |
| `likes_double` | 2 tabs of 1 user | violation of `CountersExact`, see below |
| `files_rows` | 2 requests, 2 files, 2 references each, to `public/temp` or to the folder of either movie, clean-up, crashes | `RowsPointAtFiles`, `StrandedForCause` |
| `files_two` | 1 request with 2 files | violation of `NoStrandedFile` |
| `thumbnails` | an upload of 1 or 2 files of which 1 is no video, 3 attempts, a create request with 1 reference, clean-up, deaths of both processes, fairness | `GivenUpForCause`, `TempIsReclaimed`, `EveryCreateEnds`, `JobsEnd` |
| `chat_any` | an admin and 2 customers, of whom 1 is patient, a socket each, of which one lasts, and a socket whose token names nobody, 2 messages, 2 rooms | `OnlyMembersSee`, `StoredInOwnRoom`, `ReadyIsJoined`, `ReachesMembers`, `OneRoomPerCustomer` |
| `catalog_any` | 2 requests, 2 movies, 2 titles, 1 director, 2 genres | `Consistent`, `NeverWithoutGenres`, `AnswerIsRequest`, and that the transactions implement `MovieStore` (`StoreSpec`) |
| `pages_any` | 3 movies, 2 columns, 4 orders, pages of 1 or 2 | `WhereIsOrder`, `NothingTwice`, `NothingSkipped`, `PagesInOrder` |
| `tokens_any` | 1 user, 4 requests, 5 half seconds | `BlockedStaysOut`, `RefusalHasCause` |
| `registry` | 3 requests, 2 rows, 2 values per field, each of the 3 tables | `CrashHasRival`, `RefusedForAnother`, `AnswerIsOwn`, `NoLostUpdate` |
| `tokens_renewed` | 1 user, 3 requests | violation of `ServedAsSelf` |

Each module has its type invariant in one of its runs too; that of `MovieFiles`
is a part of `ThumbTypeOK` in `thumbnails`.

Why the bounds are enough: every hazard is a race of two transactions,
requests or sockets, so each run has two of them, plus what competes (a removal
per movie and account, one recount or clean-up at a time, a clock). Two toggles
per tab give each of create, switch and take back a predecessor; with fairness
one toggle each of two tabs is enough for every lock to be waited for. Three
movies and pages of one or two give a last page, a full page and a tie. Four
requests are a log-in, a block, a request and one more of any kind; the clock
passes the end of both lifetimes, of which the access token's is the longer as
in the code (1080h and 24h). Three requests on two rows of a table are needed
for one of them to be disturbed by two others, and for a key to be freed and
taken again between the look-up and the write of the third. One upload is
enough for its job to be overtaken by create and by the clean-up at each
attempt; a second job would only wait, the worker taking one at a time. In the
chat a user with several sockets appears in the proofs and not in the run:
`OnlyMembersSee` and `StoredInOwnRoom` are proved for any `UserOf`, and the other
properties say `Sole`. One socket that lasts keeps the run within minutes; the
others close at any step.

### Fairness

`MovieLikes!Fairness`: strong fairness of the steps of toggles, removals and
the recount, because PostgreSQL queues those who wait for a row lock, so that a
lock that is freed again and again is given to each in turn; no fairness of
requests, removals, timeouts or failures. The recount starts every midnight
(`@Cron`). `MovieFiles!Fairness`: weak fairness of what Node has started, of
time (`Expire`) and of the cron; none of uploads, requests or crashes.
`ThumbFairSpec` adds weak fairness of `Work`: a worker is started again and takes
what waits, and a promise that was started settles; none of its deaths, which
`maxStalledCount` bounds. The liveness properties exempt a recount that fails, and a server that crashes,
again and again.

### Where the code disagrees with what is said of it

- `likes_double`: two toggles of one user in flight (a double click, two tabs)
  both read the like row before either writes it; both deltas are applied.
  `docs/api.md:24` says the count follows at once. The midnight recount repairs
  it (`EventuallyExact`).
- `files_two`: when one of two concurrent renames fails, the catch block takes
  back what is in `renamed`; a rename still in flight is not, and its file stays
  in the folder of a movie that was rolled back. `README.md:93` calls this
  atomic. `NoStrandedFile` reads that narrowly, as a promise for the case that
  renames back and the closing look-up succeed, and is violated even so;
  `StrandedForCause` lists all the ways in which a file is left.
- `tokens_renewed`: `rotateAccessToken` hands the payload of the refresh token
  to `issueToken`, which reads `user.id`; the payload has `sub`. The renewed
  token names nobody, and `@UserId()` is undefined.

Others were seen while the properties were being found, and are conditions
of the properties now: two updates of one movie with genres {g1, g2}, to {g1}
and to {g2}, leave it without a genre (`raced` in `NeverWithoutGenres`); of two updates of
one movie, one of the director and one of the genres, each may be answered a row
the movie never was, because each reads its answer before its COMMIT (`Shown`); a
create request that names a file of another movie by its path renames it away
from the row of that movie (`NamedIn` in `RowsPointAtFiles`); a socket with a
renewed token is told what is written in the rooms there were when it connected
(`NoUser` in `OnlyMembersSee`); a
customer who writes twice before the first message is handled gets two rooms
(`Patient`), and with two sockets the older one gets no messages (`Sole`); an
order without the id skips movies that tie with the last of a page (`HasId` in
`NothingSkipped`); a PATCH of a user without an e-mail looks for the e-mail
undefined, which Prisma refuses, so that it always ends with a 500 (`NoEmail` in
`CrashHasRival`); a create request that comes while the thumbnail job of its
file waits makes the job fail three times (`GivenUpForCause`); a vote that is
committed after the midnight recount has begun and before it comes to the movie
is not counted until the next one (`Drifts`), one tab or two. No run says so,
because no document of the repository promises otherwise.

## 4. What is proved

Proofs are in modules of their own, each from one inductive invariant, for
every value of the constants.

| theorem | argument |
|---|---|
| `MovieLikesProofs!LikesReferential`, `TogglesFindCounters` | a toggle holds key share locks on its movie and user from its write on, for which removals wait |
| `MovieLikesProofs!ReadsStayValid`, `CountersStayExact`, `TogglesImplementLedger` | for any number of tabs, as long as `CommitsUnread`: no toggle commits between the read and the write of another one of the same row. Row locks keep two from having written it (`LockInv`), so only a removal changes it in between; a commit then changes the tally by its `Delta`, by the cardinality lemmas of the module; counters are those of `DaySpec` |
| `MovieLikesProofs!OneTabIsEnough`, `AnswersHold` | with `OneTabPerUser` there is no other toggle of the same row, so that `CommitsUnread` holds by itself |
| `MovieLikesProofs!DriftsHaveCause` | the steps that write rows, one by one (`RowSteps`, `CommitKeepsExact`, ...): no assumption on the schedule, so this is the whole list of what can make the counters of a movie wrong |
| `MovieLikesProofs!RecountRepairs` | an UPDATE has updated every movie that is still there, none of which can be deleted under it, and movies that are gone have neither votes nor counts (`RecountInv`) |
| `MovieLikesProofs!NobodyWaitsInACircle` | each transaction in flight waits only for locks of transactions further on (`Level`: a toggle at its COMMIT, a removal that has its movie, the recount, a toggle at its counters, an account's removal, all others), so the least of those that wait goes on |
| `MovieFilesProofs!RowsKeepTheirFiles` | a file in a movie's folder is one that the movie's request has moved and still answers for, by a row to come, by `undo` or by a `lapse`, or one that a request had named there (`PlaceInv`); what a request that goes on has moved stays until its COMMIT, unless it is named there (`KeptInv`) |
| `MovieFilesProofs!FilesAreStrandedForCause` | from the same invariant: of a request that has ended, what `PlaceInv` leaves is a row or a `lapse` |
| `MovieFilesProofs!OneFileIsNotStranded` | with `MaxRefs = 1` the file whose promise is broken is the only one, so that no rename is in flight when the catch block runs (`NoneInFlightNext`); the other two causes are in the property |
| `MovieFilesProofs!HandlersNeverHang`, `CreatesWearOut` | once renames are started every file has a promise (`StartedInv`), of which one is pending, or all are fulfilled, or one is rejected; phase, promises and what is left to undo go one way |
| `MovieCatalogProofs!CatalogStaysConsistent` | a draft's references are held by key share locks, and its title by the unique index, until COMMIT |
| `MovieCatalogProofs!MoviesKeepGenres` | the draft of a request that has its movie to itself is a function of its DTO, of the committed row and of how far it has come (`Solo`); what a removal changes under it makes its next write fail |
| `MovieCatalogProofs!AnswersAreRequests` | what the closing look-up has read shows the title and the director the request gave, whoever interferes, and is all of what the COMMIT makes if the request has the movie to itself (`ViewInv`) |
| `MovieCatalogProofs!RequestsImplementStore` | until COMMIT the draft is what the DTO makes of the row it was read from: a create is alone with its id, an update writes title and director as given and removes none of the genres it was given (`DraftInv`), and its answer shows that title and director (`ViewInv`); what the COMMIT shows is one step of `MovieStore` |
| `TokensProofs!NobodyIsServedAsAnother` | a bearer that is on its way is in its user's wallet, and a token there names its owner, or nobody once the owner has renewed one (`Owned`) |
| `TokensProofs!BlockedTokensStayOut` | no entry's TTL ends before `exp`, so a token whose block was answered is in the cache or expired; a later request is refused by the one or the other, also when time passes between the two checks |
| `TokensProofs!RefusalsHaveCause` | the cache has only tokens somebody asked to block, and neither such a wish nor an expiry is taken back (`Founded`) |
| `ChatProofs!OnlyMembersAreTold`, `MessagesStayInOwnRooms` | a customer's sockets are only ever in rooms of the customer, a nameless one in those its query has found, for it is a member of no room that is announced, and what a query has found stays true, because rooms gain members at their creation only (`SeenInv`) |
| `ChatProofs!PatientHaveOneRoom` | whoever is about to create a room for a patient customer is the only one, so that the room it has not found is still not there (`RoomInv`) |
| `ChatProofs!ReadyHaveJoined`, `MembersAreReached` | a room a socket's query has missed is yet to be announced, and by then the socket is registered (`JoinInv`) |
| `ThumbnailsProofs!ThumbnailsImplementFiles` | every step of `ThumbSpec` is a step of `MovieFiles` or leaves its variables alone; the theorems of `MovieFilesProofs` carry over |
| `ThumbnailsProofs!JobsFailForCause` | a file leaves `public/temp` for a folder or as expired only (`LeaveInv`), and an attempt's broken picture is of a file that had left or is no video (`JobInv`) |
| `ThumbnailsProofs!WorkerNeverStops`, `JobsWearOut` | one job is active at a time, so that the death of its worker takes no other job's promises along (`OneActive`), and the active job has a promise for each of its files (`Promised`); failed attempts, deaths, stages and pictures still to take go one way |
| `RegistryProofs!CrashesHaveRivals`, `RefusalsNameAnother`, `AnswersAreOwn`, `UpdatesAreNotLost` | what a request has seen is what is there until another writes under it (`StepInv`, `AloneInv`); the index keeps keys apart (`KeysInv`) |
| `CursorPaginationProofs!WhereFollowsOrder` | an OR over the columns, each with those before it equal, is the lexicographic order: the first column that differs is the least of the columns that differ (`LeastIndex`, by well-foundedness of the naturals) |
| `CursorPaginationProofs!NoMovieTwice`, `NoMovieSkipped`, `PagesFollowOrder` | the cursor is that of a row behind which is all that was answered (`Behind`) and ahead of which is all that is to be answered (`Ahead`), but for what has moved; a page keeps both because the order is transitive and, with the id, total |
| `CursorPaginationProofs!OnlyTiesAreSkipped` | two rows of which neither precedes the other tie in all columns (`PrecedesOrTie`), so that what a page leaves out and the cursor's WHERE does not select ties with the cursor |
| `TypeCorrect` of each | |

The assumptions are those the modules name (`MoviesAssumption`, ...): finite
sets of movies and users, `None` and `Nobody` distinct from the rest, positive
lifetimes. Type correctness alone is not inductive in `Tokens`: a bearer that
is looked at must be there, which is `Shape`. Nor is `NothingSkipped`: it speaks
of walks that are over only, and `Walk` carries it until then.

Only model-checked: liveness (`EveryToggleEnds`, `EventuallyExact`,
`TempIsReclaimed`, `EveryCreateEnds`, `JobsEnd`), because fairness speaks of ENABLED,
which is out of the provers' reach, as is induction over the lengths of ways.
What can be said of these without either is proved: that somebody can always
take a step (`NobodyWaitsInACircle`, `HandlersNeverHang`, `WorkerNeverStops`), that
steps do not go round (`CreatesWearOut`, `JobsWearOut`), that the recount writes what
is right (`RecountRepairs`). `ToggleGoes`, `HandlerGoes`, `Goes` and their like are the
guards of the steps, written out because ENABLED cannot be.

Every other property of the passing runs is a theorem. `CountersExact`,
`ReadStillValid` and `LedgerSpec` need the condition that no toggle commits
between another one's read and write, and `likes_double` shows why;
`NoStrandedFile`, which no passing run has, is a theorem for requests with a single
file, and `files_two` shows why.

## 5. Variants

Definitions named `X_Y` are not used by any specification. They are what `X`
would be after a plausible slip (a guard dropped, an order swapped, a unit
forgotten), kept beside it to show that the properties notice.

## 6. Not modelled, and what is left

Left for later, in this order:

1. roles: `RBACGuard` and the accounts' `role`, once an operation of the code
   makes an account that is not an admin;
2. the cache of recent movies (`MOVIE_RECENT`) and the session's `movieCount`:
   each is read and written in two calls, but nothing invalidates the one and
   nothing reads the other, so there is no property an interleaving could
   break;
3. the count and the like status `findAll` adds to a page, and the page
   parameters' helpers in `CommonService` that no caller is left for.

Not modelled: S3 (signs a URL, keeps nothing), the throttler and
`express-session` (state in libraries), response formatting, the TypeORM
entities and migrations that Prisma has replaced, deployment scripts.
