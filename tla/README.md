# Formal models of mcp-lostfilm

TLA+ models of this MCP server: the parts where concurrency, failure or ordering
decide whether it is correct, their composition into the running process, and
the sequential parts that read untrusted bytes, pages and the environment. TLC
checks them on small instances; TLAPS proves their safety for every value of the
constants.

## Inventory of the system

| Component | State | Operations | Module |
| --- | --- | --- | --- |
| lostfilm client (`internal/lostfilm`: `client.go`, `auth.go`, `http.go`, `torrents.go`) | index of the active mirror (atomic), cookie jar, `authed` under `mu`, session file | `runOnMirror`, `runAuthed`, `advanceMirror`, `ensureAuth`, `reauth`, `login`, `logout`, `saveCookies`, `loadCookies` | `Scraper` |
| artifact store (`internal/artifact`) | token → artifact, the clock | `Put`, `Take`, `StartGC` | `ArtifactStore`, `Capability` |
| start-up (`internal/config`, `lostfilm.New`, `run`) | the configuration | `Load`, `ProxyTransport`, `New`, base URLs | `Startup` |
| process (`cmd/mcp-lostfilm/main.go`) | root and group context, group error, HTTP server | `serve`, `runHTTPServer`, signals, exit | `Lifecycle` |
| artifact HTTP handler (`artifactHandler`) | none of its own | `Take`, a transfer or a 404, the file names | `Server`, `Lifecycle`, `Pages` (the names) |
| download tool (`internal/tools/download.go`, `internal/lostfilm/download.go`) | one call's locals | validate, resolve, pick, download, deliver | `DownloadTool` |
| torrent metadata (`internal/torrentmeta`) | position, depth, span of `info` | `Parse` | `TorrentMeta`, `Bencode` |
| page parsers (`feed.go`, `series.go`, `torrents.go`) | none | page to record | `Pages` |
| other tools (`internal/tools`) | none | validate, one client call, copy the answer | left out |

Interaction. Every MCP tool call runs in a goroutine of its own and all share one
`Scraper` and one `Store`. The download tool calls `Scraper.Torrents` (a session is
needed), `Scraper.Download` (a signed link on another host, no session and no
failover) and, in artifact mode, `Store.Put`; an HTTP client later calls `Store.Take`
through `artifactHandler`. `serve` decides how long all of this lives, and `run` with
which configuration it starts. `Server` composes the process, the store and the
handler; `DownloadTool` ends where it calls `Put`, which is where `Server` begins.

What is hard, and what makes each part correct:

- **Client.** The active mirror is read without the lock many times within one
  operation, while other callers move it. The flag `authed` belongs to a mirror
  but is not stored with it. The login spans up to two network exchanges under
  the lock, each of which may be lost after the site acted on it. Correct means: a
  healthy mirror is found, the lock is never lost, one login serves all, the
  session survives failovers, expiry and restarts, and a call always returns.
- **Store.** `Put` reads the clock before it waits for the lock. Correct means: a
  URL works once and until its deadline, capacity is never exceeded and refusal
  happens only at capacity.
- **Process.** Two transports, a janitor, a signal watcher and a shutdown
  goroutine that is outside of the group. Correct means: failures reach the exit
  status, one transport does not take the other away, and stopping is certain.
- **Download tool.** Default modes, ties, labels with and without `p`, a size cap.
- **Server.** A URL may outlive the transport it was requested on. Correct means: it
  works for as long as nobody asked the process to stop, no artifact is sent twice,
  and a full store empties itself whichever transports are left.
- **Torrent metadata.** The bytes come from the network. Correct means: exactly the
  well-formed torrents within the depth limit are accepted, nothing panics or
  loops, and the hash is that of the dictionary the metadata is read from.
- **Page parsers.** Two encodings of an episode in a row, several spellings of a link,
  titles with parentheses and stops of their own, two numeric formats. Correct
  means: what the site put in comes out.
- **Start-up.** Values are checked in one place and used in others. Correct means:
  what a started server was given is what its parts take for granted.

## Modules

### `Scraper`

One `Caller` is one goroutine; `pc` says where in the call tree it is. `op` is
`public` (feed, search, series: `runOnMirror`, one request) or `protected` (torrents:
`runAuthed`, two requests: `v_search.php`, then the page it refers to). Every
goroutine step that touches shared state is an action:

| Code | Actions |
| --- | --- |
| `for range bases { active := ... }` | `Load`, `GiveUp` |
| `advanceMirror`: compare-and-swap, then lock, clear, unlock | `Advance`, `Clear` |
| `ensureAuth`, `reauth` up to the login | `EnsureAuth`, `Reauth` |
| `login`, `logout` | `Login`, `SendLogout`, `LogoutReply`, `Submit`, `SignIn*`, `Verify` |
| `saveCookies` | `SaveCookies` (truncate), `WriteFile`, `SkipSave` |
| `torrents`, `followRedirect`, `feed`, `search`, `seriesInfo` | `Fetch`, `Follow` and their replies |

A request is two steps. The first fixes the mirror (`resolve`) and the cookie (the
jar is read inside `http.Client.Do`); the second is the reply, which may be an
answer, a mirror error, an unreadable body or an unexpected page. Environment
(external in the map): `live` is the set of sessions the site accepts, `issued` the
logins it granted; `Expire` ends a session; `Cancel` is the end of a caller's
context; `Restart` kills the process at any point and starts it with the file that
was left. The answers of `ajaxik.php` are assumed from how the code and its
comments treat them: it refuses a form sent with a dead cookie, and asks for
a captcha after `Quota` logins.

Session values are numbers, so that "the newest session" can be said: `Old` came
from the file or the raw cookie, the k-th login is `Old + k`. The other cookies of
a header are left out, because the code decides on `lf_session` only.

### `ArtifactStore` and `Capability`

`PutPrepare` is the part of `Put` before the lock, `PutCommit` its critical section;
`Take`, `Sweep` (a tick of the janitor) and `Tick` (the clock) are one step each. The
payload is left out: an artifact is its token and its deadline. `Capability` is the
promise to the holder of a URL, without store, sweeping or capacity: a fetch
succeeds exactly when the token was granted, is unspent and has not expired.
`ArtifactStore` implements it with `deadline <- expiresAt`.

### `Lifecycle` and `Server`

`GroupDone` is "`groupCtx` is done". Whether HTTP is enabled is chosen in `Init`.
`Exit` is `group.Wait` returning; transfers that are being written at that moment
are cut. `broke` is history: a transport failed before anyone had asked to stop.
A request is accepted, and then either starts a transfer or is answered with 404.

`Server` extends `Lifecycle` with an instance of `ArtifactStore`. `Process` are the steps of
`serve` and `runHTTPServer` that do not touch the store; `BeginPut` and `EndPut` the two
halves of `Put` in a download (artifact mode needs HTTP, so `BeginPut` does);
`Fetch` is `Take` together with the branch of `artifactHandler` it decides, in one
step because nothing is shared between them; `Collect` is a tick of the janitor,
which `serve` must have kept alive. `serving` remembers which token a request has
burnt. The store's own runs leave the janitor running for ever; here it stops
with the group.

### `DownloadTool`

One call, step by step, with the loops of `pickVariant` as steps over an index so
that the bounds of the slice are visible. The client and the store answer in any
way they may. A label is a name and whether it is spelled with the `p`; the mode
`unset` is the empty string.

### `TorrentMeta`

The Go call stack is the variable `stack`: a frame for each call of `decodeList` or
`decodeDict` that is under way, so `d.depth` is its length. `mode` says whether `decode`
is about to be called or a loop is at its head. Each branch of `decode` is an action.
An error of the decoder ends `Parse` (every caller returns it at once); a slice
expression out of range ends the process (`panic`). A byte is a string of length
one; the keys `info`, `name`, `files`, `path`, `length` are one byte each. Integers are
bounded by `MaxInt`, past which the sum of positions and the sum of sizes wrap as in
Go. `Parse` makes its checks in one step. The hash is represented by the span that
is hashed. `Bencode` has the reference: `denoted`, a recursive function from spans of the
input to the values they denote under the grammar of bencoding, with no position
and no stack.

### `Pages`

Each parser is an action from a page to an answer, and a page carries what the site
put into it (`about`), so that a property can compare. A text is a sequence of
tokens, a token being a word, a number, or a character that the parsers look for; the
functions of package `strings` work on tokens as they do on bytes. What goquery and
`encoding/xml` select is the input. What the site puts into its pages is stated once, for
texts of any length (`RowPage`, `LinkPage`, `TitlePage`, `VariantsPage`, `FilenamePage`), and the
pages of a run are subsets of these (`PagesAssumption`): every spelling of a canonical link,
every title that leaves no parenthesis open and has no marker but its own, lists of
items of any length, and so on. A size on the page is a number with up to two decimals, behind a
point or a comma, and a unit; a letter of a unit is its sound, its alphabet and its
case, which is what `unitMultiplier` tells apart. Beside it the item carries the size that is
meant (`StatedSize`: whole part, decimals, power of 1024), from which `SizeInBytes`
computes the bytes without the parser's tables: the power is the place of the unit in
`K M G T`, and a unit that is none of these counts bytes. An item may also have no size field, or an
`Illegible` number, without a digit or with two separators; `SizeBytes` is then 0.
`parseSize` multiplies exactly and truncates. The code multiplies in floating point; both agree as long
as the size is below 2^45 bytes, since a product with two decimals is an integer only
if its decimals are 00, 25, 50 or 75, which a float64 holds exactly, and is
else at least 1/100 from one. Past an int64 (8388608 TB) they part.

| Code | Definition |
| --- | --- |
| `episodeIDs`, `splitPlayToken` | the same names, `Cut` for the three slices |
| `normalizeSeriesLink` | the same name |
| `parseFeedTitle` | `Working` and `Numbers` (the marker), `Originals` (`showOrigRe`) |
| `parseTorrentVariants`, `qualityFromDesc`, `parseSize`, `unitMultiplier` | the same names; `PointFor`, `ParseFloat`, `ToUpper` for the calls they make |
| `safeFilename`, `rfc5987Value` | the same names; `PathUnescape` is the reader's side |

### `Startup`

`Load`, `ProxyTransport` and `NewClient` are the steps of `run` up to `serve`; each ends in
a named failure or in the next step. An unset variable is the empty sequence and a
set one holds its value; a text that does not parse is represented by a value of the
range it is refused with. A URL is its scheme and its host.

### The other modules

`MCClients` puts several clients into one run: the one whose constants the `.cfg` gives
(it extends `Scraper`), and the instances `Shared`, `Sequential` and `OneMirror` with a configuration
and environment of their own (in `Sequential` only `c1` makes calls); a behaviour stays
with one of them, and the instances keep the results of their calls in
`instanceResult`, so that a property of `Scraper` about results is about the configured client. `MCInputs` does the same for the sequential parts: a behaviour is a
start of the process (`Startup`), a page (`Pages`) or a call (`DownloadTool`). `MCScraper`,
`MCArtifactStore`, `MCServer`, `MCTorrentMeta` and `MCPages` give the other modules their
values for TLC (`MCScraper` and `MCClients`
hold symmetry sets); the `*Proofs` modules hold the theorems. The operators
that follow the word "Mutant" are wrong versions of the definition below them; they are
there to show that each property can fail.

## Runs

| Run | Properties | What it shows |
| --- | --- | --- |
| `scraper_failover` | `AuthedHasCookie`, `HealthyMirrorFound`, `ThreeCallersShareLogin` | two clients. `configured`: 2 callers, 3 mirrors, the last healthy: the compare-and-swap makes concurrent failovers converge. `shared`: 3 callers without a session, quota 2: one login is used |
| `scraper_sessions` | `CookieOnlyStaysAuthed`, `OneCallRecovers`, `OneMirrorPersists` | three clients. `configured`: a cookie without password through failovers, crashes and cancellations. `sequential`: one caller with a password recovers on every mirror from expiry, lost answers, cancellations and a torn file. `oneMirror`: 2 callers and nowhere to fail over to: the file has the newest session |
| `scraper_one_mirror` | `TypeOK`, `MutexHeldInLogin`, `CallsReturn` | 2 callers, one of which may be cancelled, one mirror that may fail for ever, expiry, crashes, a failing disk, broken bodies, every refusal of a login: no error path keeps or loses the lock, each call returns |
| `store` | `TypeOK`, `StoreBounded`, `NeverEvicted`, `CapabilityKept`, `RefusedAtCapacity` | two Puts with old moments against two slots: refinement of `Capability`, and when `ErrStoreFull` is due |
| `server` | `TypeOK`, `FailureReported`, `HttpOutlivesStdio`, `JanitorCoversServing`, `OneTransferPerToken`, `UrlWorksUntilAskedToStop`, `StopsWhenAsked`, `FullStoreDrains` | every order of signals, failures and ends of the transports, with a download, two requests and the janitor: errors reach the exit status, URLs keep working after stdio has ended, a cut transfer has burnt its token for good, the process exits once asked, a full store empties itself |
| `torrent_meta` | `TypeOK`, `NeverPanics`, `SpanIsFound`, `DecodesTheGrammar`, `HashCoversMeta`, `ParseReturns` | 13 torrents and all their truncations, one-byte substitutions, deletions and insertions: the decoder accepts what the grammar does and returns what it means |
| `inputs` | `StartsSound`, `ProxyIsUsed`, `UrlLeadsToListener`, `EpisodeIdsAgree`, `LinkSpellings`, `TitleSplits`, `SizesAreTheStated`, `FilenameIsUsable`, `TypeOK`, `PicksTheRightVariant`, `NeverTruncated`, `StoredOnlyToBeFetched` | every environment of a small set; every parser on right, absent, damaged and contradictory pages; every request to the download tool against every list of up to 3 variants |

Five runs end in a counterexample. Each checks a sentence of the source that the
code does not keep:

| Run | Sentence | What the code does |
| --- | --- | --- |
| `scraper_leaves_mirror` | `client.go:22` the client fails over on a network or 5xx error | a caller's own cancellation counts as one and moves everybody off a healthy mirror |
| `scraper_session_not_persisted` | `README.md:31` persists the resulting cookie | a failover before `saveCookies` writes the old cookie of another mirror |
| `scraper_reauth_clash` | `auth.go:79` only a client without password cannot recover | two concurrent re-logins: the second logs out the session of the first |
| `lifecycle_shutdown` | `main.go:325` graceful shutdown | the group does not wait for `Shutdown`; a transfer may be cut |
| `pages_quality` | `torrents.go:128` inferred from the video description | the size field is searched too: an SD variant of 720 MB is taken for 720p |

`LastLoginPersisted` is checked twice: it holds with one mirror (`OneMirrorPersists`) and fails
with two.

Read from the code while modelling, without a run of its own:

- `auth.go:123` has the same cause as `scraper_session_not_persisted`: a failover
  between the answer and the session check makes an accepted login
  `ErrLoginFailed`, which `errors.go:14` reserves for rejected credentials.
- `artifact.go:30` speaks of live (unexpired) artifacts; the sweep of `Put` uses the
  moment before its wait for the lock, so one of them may have expired.
  `RefusedAtCapacity` states what does hold.
- `main.go:261` says the janitor stops when any transport exits; after a clean end of
  stdio it goes on with HTTP, as `JanitorCoversServing` wants.
- `config.go:184` says that a double slash never occurs; one slash is stripped from an
  explicit base, so `http://h//` still gives one, and the base `/` becomes empty.
- `main.go:149` says that the header never degenerates to `filename="."`; this is so for
  `filename`, while `filename*` of such a name is still `.` (`FilenameIsUsable` has both).
- `series.go:164` ensures a leading slash; the links `/` and `/seasons` become empty, and
  `/x/seasons//` keeps its suffix. `LinkSpellings` covers the spellings of real links.
- `parseFeedTitle` does not split a title whose original name contains parentheses
  (`(Shameless (US))`), takes the numbers of another episode that a name mentions as a
  marker, and drops the stops a name ends in (`Wait...`). `TitleSplits` has titles
  without these.
- A size with two separators (`1,024.5`) is 0 bytes to `pickVariant`, and a unit that is not in the
  table, or mixes the alphabets, counts bytes. `SizesAreTheStated` has both.
- Whole seasons are listed with the season of their row; a season of 0 is listed and then
  refused by `validateEpisode`.
- A body that breaks after its headers is not failed over (`http.go:99`), although it
  is a network error.

### Bounds

- *Callers 2 or 3, mirrors 1 to 3.* The races are between a caller that failed and
  one that moved the mirror meanwhile; a third mirror is needed for a skipped
  one to be the healthy one. The safety results on failover, lock and flag are
  proved for any number of both.
- *`Quota` 0 to 2* bounds the logins; past it the site wants a captcha, which is an
  answer the code handles. The `shared` client of `MCClients` has a quota above the number it
  claims.
- *`Fault` and `Cancellable` per run.* What a run leaves out is what its property is not
  about or what makes it false for a reason that is stated with it: a login whose
  body cannot be read is in the jar and not in the file (`LastLoginPersisted`), and a
  caller that gives up early does not reach the healthy mirror (`HealthyMirrorFound`).
- *Store:* `TTL` 2 ticks, `MaxItems` 2 in place of 256, 3 tokens (one more than fit);
  `LastPut` is later than the first deadline, so that a Put meets expired artifacts that no
  sweep has removed, and `Horizon` ends the clock once everything stored has expired.
- *`Server`:* TTL 1, one slot, two tokens, one Put at a time and two requests: a second
  URL exists only after the first is spent or expired, and the two requests compete for it.
- *`TorrentMeta`:* `MaxInt` 99, so that a length of two digits reaches it and the end of a
  string wraps; `MaxDepth` 5 with torrents nested 4, 5 and 6 deep; inputs of up to 52 bytes,
  so that the multi-file form and a nested `info` fit.
- *`Pages`:* tokens of 0 to 13 digits and `MaxInt` 999, so that an overlong id is refused by
  `Atoi`; titles with every combination of the optional parts; two variants, `Kilo` 10
  in place of 1024, five amounts in every spelling of every unit and of three that are not
  known, and six sizes that cannot be read; names of up to 3 characters of every class. What these bounds leave
  out is proved.
- *`Startup`:* ports 0 to `maxPort + 1` with `maxPort` 2, and for each other variable unset, valid
  and every way it is refused.
- *`DownloadTool`:* cap 2, bodies of 0 to 4: both sides of the cap and of the one byte
  past it. Three variants allow two of a tie and one before or after it.

Deadlock is checked in the `Scraper` and `ArtifactStore` runs. In the others it is not: a
process exits, and a call or a parse ends.

### Fairness

- `Scraper`: weak fairness of every step of a goroutine, because the runtime schedules
  it and a request ends within the 30 s timeout of the `http.Client`; strong fairness of
  taking `mu`, because `sync.Mutex` hands the lock to a waiter after 1 ms. New calls,
  cancellations, expiries and crashes are not fair.
- `Lifecycle`: goroutines whose context is done go on (`server.Run` returns when its
  context is cancelled). Signals, standard input and HTTP clients are not fair, and
  neither are the transfers or `Shutdown`: nothing in the exit waits for them. `Server`
  adds the clock and the ticker of `StartGC` for as long as the janitor runs; nobody is
  assumed to fetch.
- `TorrentMeta`: the decoder is a loop of one goroutine that waits for nothing.

## Proofs

All theorems hold for every value of the constants that satisfies the named
assumption of the module, and are checked by TLAPS. A further hypothesis is stated in
the theorem (`ASSUME Calm PROVE ...`, `Spec /\ Grammar => ...`) and is needed where it stands:
each paragraph says why.

- `ScraperProofs`, for any configuration. `TypeOK` is not inductive: it needs that a caller
  inside an attempt has one left (`AttemptLeft`). `SessionInv` adds to the mutex and the flag
  that a login starts with `authed` false, since the flag is only set at its end. For
  `HealthyMirrorIsFound` fix a healthy mirror `h` and let `Distance(h, m)` be the failovers
  from `m` to `h`. Each caller's `seen` and the active mirror are never farther from `h`
  than the caller has attempts left, and `h` itself is left by nobody: the
  compare-and-swap moves the index only from a mirror that failed. `CookieIsKept`
  adds that without a password nobody is inside login.
- `ScraperProofs`, in an environment that the code cannot do without:
  - `OneLoginIsShared` under `Calm`: nobody gives up, no mirror fails, no session expires, the
    process does not restart. Each of these makes a second login legitimate. The active
    mirror stays the first one, so that the jar the login fills is the one everybody looks into
    after taking the mutex.
  - `LoginIsPersisted` under `NowhereToFailOver`: one mirror, a disk that works and bodies that
    can be read. `scraper_session_not_persisted` shows it false for two mirrors. The
    invariant says that from the answer of a login to the write the snapshot is that of the
    jar, and that outside of this stretch the file has what the jar has.
  - `OneCallAtATimeRecovers` for behaviours in which no two calls overlap, under `Recoverable`:
    a password, a site that answers its login form as it should and expires only the session
    of an earlier run. The invariant says where in a call the session is one that the site
    granted to this very process and still accepts. Its corollary `OneCallAtATimeStaysIn` is the
    sentence of `auth.go` that `scraper_reauth_clash` shows false: what falsifies it is that calls
    overlap.
  - `OnlyCancelledCallsLeaveMirror` is the sentence of `client.go` that `scraper_leaves_mirror` shows
    false, for callers that do not give up (and a process that is not restarted, which begins
    at the first mirror again): what falsifies it is the cancellation. It follows from the
    invariant of `HealthyMirrorIsFound` for each healthy mirror, since only a
    caller that a mirror has failed reaches the compare-and-swap, and there it has seen
    that mirror.
- `ClientsProofs` applies the three to the clients of `MCClients`: each satisfies the
  hypotheses, and a behaviour that starts with a client is one of its instance. So what
  the runs `scraper_failover` and `scraper_sessions` check is what is proved. `MCClients` takes
  its clients as instances of `ScraperProofs` for this.
- `ArtifactStoreProofs`. `NeverEvicted` needs that a token in flight is new
  (`TokensFresh`) and that what is stored is owed (`ItemsOwed`). Sweeping with a moment
  of the past removes nothing that is unexpired now. From this, `StoreKeepsPromise` maps
  `PutCommit` to `Grant` or a stutter, `Take` to `Fetch`, `Tick` to `Tick`.
- `DownloadToolProofs`. The loop invariant of `pickVariant`; then, that a body that
  passed the cap check is the whole body.
- `ServerProofs`, for the process alone. `CausesInv`: what may have ended the group's context,
  and that the HTTP side does not stop before it.
- `ServerProofs`, for the composition. Every step of the server is a step of `Lifecycle` and
  a step of `ArtifactStore` or leaves it alone (`ServerRunsProcess`, `ServerRunsStore`), so
  all that is proved of the two holds in the composition, the refinement of `Capability`
  included (`ServerKeepsPromise`). `ServerInv` relates them: nothing is granted without HTTP, and a
  request carries a token exactly when its transfer has started, each token once, all of
  them spent. With `CausesInv` and `NeverEvicted` this gives `UrlWorksUntilAskedToStop`.
- `TorrentMetaProofs`, safety. `DecoderInv` says of every dictionary that is open where its
  pending value starts, and of the outermost one that a finished `info` has left a non-empty
  span: then the root has one (`SpanIsAlwaysFound`), and the lengths that pass the check are
  below the end of the input, so nothing wraps (`DecoderNeverPanics`).
- `TorrentMetaProofs`, meaning. `denoted` is a recursive function, and that it satisfies its own
  definition is proved first: two partial solutions agree where both are defined, each can
  be extended to longer spans, and their union is the function (`DenotedReads`; the
  induction is on the length of spans, by the least natural number at which it would fail).
  From there the proofs use rules only.
  - `MeaningFollowsTheRules`: the meaning is closed under the rules of bencoding (`Grammar`), and
    whatever a span denotes is there by one of these rules (`Unfolded`, which reads lists and
    dictionaries from the front, while the definition reads them from the back).
  - Soundness. `MeaningInv` gives each open frame the position it was opened at, and says that
    the bytes from there denote what the frame has collected. `DecoderIsSound` and
    `HashIsOfTheInfo` follow: what is accepted is one value from the first byte to the
    last, and the hashed span denotes the very dictionary that is read.
  - Completeness. For a value that the whole input denotes, `OnTrack` gives each open frame
    the place where it will end and the datum it will be, and says that the bytes up to there
    denote what it still lacks. So no step can be a refusal, and what is returned is
    that value (`DecoderIsComplete`).
  - `DecoderIsExact` is both, and is `DecodesTheGrammar` with no hypothesis.
- `TorrentMetaProofs`, the total. The metadata is read from a value of the grammar, so its
  integers are int64, at any depth (`DataParts`, by the shortest list or dictionary that would
  hold something else), and so are the sizes of the files (`FilesFit`). One addition of two
  int64 wraps at most once; the total is therefore the exact sum up to a multiple of 2^64, and
  equal to it whenever that sum is an int64 (`TotalIsOfTheFiles`). No run checks this one.
- `PagesProofs`. `Answered` says that an answer is what the parser computes from its page, so that
  each property becomes a statement about a parser and every page that `PagesAssumption`
  admits. Loops are recursive functions in the model; `RecursionExists` shows that such a
  function satisfies its definition, `StrongInduction` goes through it.
  - Rows: the numeral of an id reads back as the id whatever its length (`NumeralIs`), and
    the slices from the end of a packed token are the three that were joined (`PackedIsCut`).
  - Links: what is left of a spelling after the spaces and the first slash is the link
    followed by one of four ends, and each of the three suffixes is dropped or is not
    there (`LinkIsNormalized`).
  - Titles: no parenthesis before that of the original name closes ahead of a full stop, so
    that the first that the expression finds is that one (`OriginalIs`), and the last occurrence of the marker is the
    one the site appended, even where the name quotes it (`WorkingIs`).
  - Sizes: after `k` items the answer has as many variants as there are links among them, each
    at its place (`VariantsAre`). The digits of a number with one separator, of either kind, are
    those of its whole part and its decimals (`WholeIsParsed`, `DecimalsAreParsed`), a number with none
    or two is refused (`IllegibleIsRefused`), a unit in capital letters is the name that the code compares
    it with exactly if it spells it (`NamesAreSpelled`, `MultiplierIs`), and so `bytes` is the
    stated size (`SizeIsStated`).
  - File names: the loop over the bytes of the encoded text undoes one character at a time
    (`UnescapeReads`, `WrittenIsRead`).
- `StartupProofs`. `StartInv`: after `Load` the configuration is the one that its checks accepted.
  `UrlsLeadToListener` needs `PlainEnv`: an explicit base URL of `/`, or one that ends in two
  slashes, is handed out with what is left (see the list under Runs); and a host that is set to
  the empty text is no host.

The composition is proved for any numbers of requests, Puts and tokens; what links a
module to its instance is that the assumption of `Server` is that of `ArtifactStore`.

Only model-checked: liveness (`CallsReturn`, `StopsWhenAsked`, `FullStoreDrains`, `ParseReturns`),
which is out of this prover's reach. Every other property of a passing run is the subject of a
theorem.

## Not modelled

- HTML, JSON and XML selection (goquery, `encoding/json`, `encoding/xml`), publication dates,
  posters, episode titles and the search reply: they are copied field by field.
- The other MCP tools: a check of the parameters, one call of the client, a copy of the
  answer. The calls are the operations of `Scraper`.
- Logging, tool schemas, the MCP SDK and `net/http` (redirects included), request headers,
  cookie syntax, the entropy of tokens (`Fresh` takes them to be unlike each other), SHA-1 and
  SHA-256.
- Host and mirror of the URLs in an answer: `resolve` builds them against the mirror that is
  active while the page is parsed, which may be another one than the page came
  from. All mirrors serve the same paths, so nothing depends on it.

## Where this can go further

1. An abstract session specification (one session, one active mirror) that `Scraper`
   implements for one caller, and where it stops doing so for two.
2. Several `DownloadTool` calls in `Server`, with the client's failures between them.
3. Feed titles with the forms that the list under Runs names (an original name with
   parentheses, another episode's marker in a name), if the code comes to support them.
