# A verification project for the Kite auth SDK

TLA+ models of `kite_auto`, the asyncio SDK that logs in to Kite Connect through a
headless browser, keeps the session on disk, and calls the REST and WebSocket APIs with
it.  The scanner kept beside it, which downloads bars with the SDK and computes tables from
them, is modelled too.  The models are checked with TLC on small instances; the properties
that matter most are proved with TLAPS for every value of the constants.  `PROJECT.json` maps each
definition to the source lines it stands for, and lists the runs, mutants, findings,
hazards and theorems.

## The system

| component | state it keeps | operations | what is hard about it |
|---|---|---|---|
| Playwright login, `auth/playwright_auth.py` | `_inflight`, `_totp_breaker`, the running task | `login` | callers share one task and any of them may be cancelled; retries, a breaker and TOTP windows interact |
| clock check, `utils/clock.py` | none | `assert_clock_sync` | degrades to a warning |
| circuit breaker and retry, `utils/retry.py` | `_state`, `_failure_count`, `_opened_at` | `call`, `execute` | calls overlap; only some errors count |
| session store, `auth/session_store.py` | the session file and its `.tmp` | `save`, `load`, `clear` | worker threads, crashes, a shared temporary name |
| token manager, `auth/token_manager.py` | none of its own | `get_access_token`, `refresh_access_token`, `clear_session`, the exchange with retries | no single flight; a request token is good for one exchange |
| REST transport, `client/rest_client.py` | the HTTP client | `request`, `get_text` | limiter, breaker, retry and one forced refresh nest |
| rate limiter, order guard, `utils/rate_limit.py` | bucket; reservations | `acquire`; `reserve`, `release` | waiters sleep outside the lock; the window starts before the POST |
| WebSocket client, `client/websocket_client.py` | `_websocket`, `_closed`, subscriptions | `connect`, `close`, `subscribe`, `unsubscribe`, `set_mode`, `listen` | every method awaits between reading and using `_websocket` |
| facade, `client/kite_client.py` | lazily built parts | `place_order`, `stream`, ... | composes the above |
| scanner, `scanner/*.py`, `run_scanner.py` | a file per symbol, the features file | `fetch`, `build`, `analyze` | a resumable download; rules and windows that must not look ahead |

Interaction: `KiteClient` gives `TokenManager.get_access_token` to the REST and WebSocket
clients as their token provider.  The token manager loads the stored session, or runs
`login`, exchanges the request token over HTTP and saves the session.  A 401 or 403 makes
the REST client ask for a forced refresh; so does every WebSocket reconnection.  All of it
runs on one event loop, so steps interleave at awaits only, except for the store, whose
operations run on worker threads.

What makes each part correct: *login*: one browser at a time, codes with the headroom asked
for, a cap on rejected codes, every call returns if the browser driver does.  *Store*: readers see whole sessions, writes
are atomic.  *Token manager*: what was replaced or cleared never comes back, a forced
refresh yields a new token, every call returns.  *REST*: bounded sends per request, a
refresh for each attempt after a refusal and for no other, no order sent again blindly, an open breaker holding back what is not past it, and closed early only by what was.  *Limiter*: never
more than capacity + rate x time admitted.  *Guard*: an order placed repeatedly inside the
window is submitted once.  *WebSocket*: after `close` only a connect that was already under way
opens a connection, the server sends what is subscribed, `listen` makes progress.  *Scanner*: a file holds every bar of its
days however often the download was interrupted, what is analysed agrees with the files, no
feature looks ahead, deciles are even.

## Modules

| module | models | checked by |
|---|---|---|
| `Breaker` | the transitions of `CircuitBreaker`, as operators on a record | runs of the modules that use it |
| `PlaywrightAuth` | `PlaywrightAuthStrategy` and `assert_clock_sync` | `MCPlaywrightAuth*` |
| `SharedLogin` | what a shared login promises its callers | as a property of `PlaywrightAuth` |
| `PlaywrightAuthProofs` | theorems about it | tlapm |
| `SharedStore` | what the store promises to saves that may overlap | as a property of `SessionStore` |
| `SessionStore` | `JsonSessionStore` | `MCSessionStore*` |
| `SessionStoreProofs` | theorems about it | tlapm |
| `TokenManager` | `TokenManager` and `TokenExchangeClient`, over the login and the store | `MCTokenManager` |
| `TokenManagerProofs` | theorems about it | tlapm |
| `RestClient` | `RestClient` with `AsyncRetryPolicy` and `Breaker` | `MCRestClient*` |
| `RestClientProofs` | theorems about it | tlapm |
| `WebSocketClient` | `WebSocketClient` with its listening task, its users and the server | `MCWebSocketClient*` |
| `WebSocketClientProofs` | theorems about it | tlapm |
| `Orders` | `place_order` with `DuplicateOrderGuard` and `RateLimiter` | `MCOrders*` |
| `OrdersProofs` | theorems about it | tlapm |
| `Features` | `clean.py`, `features.py`, `metrics.py` and the cut of `analyze.py`, as operators on sets of bars | as part of `Scanner` |
| `Scanner` | `fetch.py` and the commands of `run_scanner.py` | `MCScanner*` |
| `FeaturesProofs` | theorems about the decile cut | tlapm |
| `ScannerProofs` | theorems about both | tlapm |

### PlaywrightAuth

A *flight* is the task that runs `_run_login`; its `pc` is the await it is suspended at, so
an action is the code between two awaits.  `StartLogin` and `JoinLogin` are the two paths
of `login`; `Return` is its `return await inflight`; `ClearInflight` is the done callback.
`CancelCaller` is the cancellation of a caller: `login` awaits the task unshielded, so it
cancels the flight all callers share, and `Abort` delivers it where the task is
suspended (with a browser open, the `finally` closes it first).  `CancelLate` is a
cancellation that comes when the flight is done and the caller has not resumed: it is that
caller's alone (`withdrawn`).  `Attempt` enters the
breaker, `PageReady` is `_generate_fresh_totp`'s look at the window, `WakeForTotp` its
sleep, `SubmitTotp` the moment the server sees the code, `AwaitRedirect` and
`CloseBrowser` the end of `_login_once`, and `LeaveAttempt` what the breaker and tenacity
make of its outcome.  Exceptions are outcomes: `auth_error` counts and is retried,
`structure_error` and `crash` (any other Playwright error) do neither.

Time is in whole seconds.  The code compares differences only, so the state keeps the
phase in the TOTP window and ages that saturate, and no bound on time is needed.
Nothing bounds how late a sleeper wakes or how long a code takes to type and submit:
`min_validity_seconds` may be 0, and Enter is pressed only once a whole `timeout_ms` has
been spent on the button.  So both take any time in the model, `lag` counts how much, and
`SubmittedInWindow` says what the margin is good for: a delay shorter than it never takes a
code out of its window.  A code submitted later than that may be out of its window, although
`_generate_fresh_totp` promises that it "stays valid through the (slow) browser submit".

`used`, `rejects`, `rejectAge` and `unrecorded` are history: the server's side of what was
submitted.

`SharedLogin` has none of this: callers who wait, a login that ends for all of them with one
outcome, callers who come between its end and its being forgotten and are told that
outcome too, and callers cancelled after its end, who hear of nothing else (`Withdraw`).  A
caller waits while the flight it awaits has not ended (`Waiting`), and has yet to return with
that flight's outcome, or its own cancellation, once it has (`Told`).

### SessionStore

Inodes with contents and the two names the code uses.  Each system call of `_save_sync`
and `_load_sync` is an action; a write may leave part of a document (`Torn`) when it fails
or overlaps another; `FailSave` and `FailWrite` end a save with an error, `FailLoad` a load, at any system call;
`Crash` ends all threads and keeps the files.  `load` has one exception for all its errors;
the model tells apart a file that a clear took after `exists()` (`missing`), an I/O error
(`failed`) and a document that is not a session (`invalid`).  `seen` records what was stored during a load, `overlapped` that two
saves have been under way at once, and `beside` the sessions of the saves that failed beside
one, which it may find in the sibling they share.

### TokenManager

A *call* is a caller's `get_access_token`, `refresh_access_token` (a forced get) or
`clear_session`; its `pc` is the await it is suspended at.  `Load` and `Resume` are
`get_access_token` up to its decision, `LoginEnds` the end of the login that all callers
at it share, `Issue`, `ExchangeFails` and `Retry` the exchange, `Receive` the rest of
`refresh_access_token` up to its save.  A save or clear is a *job*, done by a worker thread:
`Commit` or `Unwritable` ends it, in any order with other jobs and whether or not the call
still waits; `Return` is the call that does.  `Cancel` and `Restart` end calls without
their jobs and with them.

The login is what `PlaywrightAuth` shows of it, `SharedLogin`: one login for all who join,
ended for all of them at once and in one way, also when one is cancelled.  The store is what
`SessionStore` shows of it, `SharedStore`: overlapping saves share a `.tmp` file, so `Commit` stores the
session of any save under way or of one that failed beside it (`near`), a save whose `.tmp`
file another has renamed (`linked`) may still write into it (`WriteLate`), and `Load` may
always fail.  A save that raises after its rename is a `Commit` whose call is then ended as
by `Cancel`.  What is stored is a *version*, a number per access token issued and per
clear; `fresh` is the set of versions that `is_expired` would not reject, and `Expire`
takes one out at any time, so no clock is needed.  `floor`, `past`, `ended` and `obsolete`
are history.

### RestClient

A request goes `limit`, `enter`, `token`, `sent` and, between attempts, `sleep`; `Acquire`
is the limiter's answer, `EnterBreaker` what `CircuitBreaker.call` does before it awaits,
`Send` and `TokenFails` the two ends of the token provider, `Answer` the code from the
response to the next await: the breaker's record of the outcome, the retry policy's
decision, and `request`'s second round after a 401 or 403.  The retry policy is outside the
breaker, so each retry enters it again.  Durations are left open, except the cooldown.

Some consequences to know of: whatever answers a method that is not retried counts as a
success of the breaker, a 503 too, since only transient errors count as failures and only
retryable methods raise them; an `httpx.HTTPError` raised by
the token provider is taken for the request's own and retried; one limiter token admits a
whole round; the round after a 401 keeps `force_refresh`, so each of its retries logs in
again (finding 6); a success of a request sent before the failures closes an open breaker.

### WebSocketClient

One task listens; users connect, close and change subscriptions.  A task's `pc` is again
the await it is suspended at.  `Connect`, `Opened` and `Replay` are `connect` and
`_replay_subscriptions`: `Opened` ends with the first send, each `Replay` sends the next
mode or returns, and the modes are read anew each time, as the code does.  `Subscribe` and
`SendMode` are the two halves of `subscribe`; `Unsubscribe`, `SetMode` and `Close` change the
client's state before their only await.  `Loop` is the head of `listen`'s loop, `Fails` its
`except` clause, which forgets the connection; `StreamEnds` and `StreamFails` are the two
ways `_consume_messages` ends with its connection, closed or lost, and `MessageFails` the one
without.  `Cancel` ends any task where it is suspended.

`_subscriptions` and `_mode_by_token` always have the same tokens and are one function,
`wanted`.  `feed` is the server's side of it for each connection: messages take effect in
the order they are sent or are lost with the connection (`Drop`).  `torn` is history: tokens
whose message a cancelled call or a failed `set_mode` never sends, and tokens whose
`subscribe` sent its mode message after another call had moved the mode: two overlapping
calls for one token do diverge, until its next message or connection.

Also to know: `connect` looks at nothing after its awaits, so a `close` that overtakes it,
a user's or one of `listen`, leaves the closed client with an open connection of its own,
over which `listen` goes on, although `close` is to "stop reconnect loops"
(`websocket_client.py:145`).  `OnlyPendingOpen` says that nothing else opens one: no connect
begins after `close` but a user's, and each that was under way opens at most one.
`ListenEnds` is about a `close` that no connect was under way at.  A connection may also be
open that is not the client's, after two connects or after a message that fails; `listen`
returns when it consumes such a connection only once that one ends, which `ListenEnds`
excepts.

### Orders

A *call* is a `place_order` that a client with a limiter has under way.  `Place` is what runs
before its first wait: the guard's purge and reservation, and the first turn of `acquire`,
whose lock is never held across an await.  `Acquires` is one turn of `acquire`'s loop, `Wake`
the next one, `Refused` the second round of `RestClient.request`, `Arrive` the exchange
accepting the order, and `Ends` every way a call is over.  `seen` is the guard's `_seen` as
ages: an entry that has reached `Ttl` is purged by the next `reserve` before it is looked up,
so an expired one and none are the same.  `burst`, `held` and `reserved` are
history.

Also to know: the window runs from the reservation, not from the POST, which a login or the
limiter may delay, so two identical orders placed a window apart can reach the exchange
together; a caller that gives up leaves its reservation, so an order that was lost cannot
be placed again before the window ends; a single waiter may starve while new calls
take its token, though some call always gets through.
A rate below one without a capacity makes a bucket that holds no whole token, and every
`acquire` raises; the constants leave that out.

### Features and Scanner

`Features` is the pure part.  A frame is a set of bars of one symbol; the code holds all
symbols in one frame and groups by symbol at each step.  A bar has a day and a time of day,
as every rule reads one of the two.  `Judged`, `Unsplit` and `Clean` are the frame after two,
three and four cleaning rules, `Feature` and `Outcome` a row of `build_features` and of
`_session_outcomes`, `Buildable` what the two builders raise on.  Ratios and means are kept
as the numbers they are computed from, so that nothing is rounded: a gap is the pair of its
prices, a trailing mean the function of the sessions it is over.

`Scanner` runs the commands, one at a time.  A *run* is a `fetch`; its `pc` is where it can be
interrupted: at the head of the loop over symbols, at the await of a chunk, inside the
write.  `Visit` skips a symbol with a file or begins it, `Answer` is a chunk and, after the
last one, the opening of the file, `Written` the end of the write.  `Stops` is any error,
which `fetch_universe` lets out, or the end of the process; `Interrupted` the same inside the
write, which leaves a torn file.  `Build` is the whole of `run_build`; it changes nothing if
anything raises.  `NextDay` lets the next run have another range, and `StartFetch` another
universe.  The exchange gives the whole of past days and of the current one what there is
when it answers (`Clock`).  `analyze` only prints; what it reads is `table`.

Also to know: a file that a killed write left torn is never repaired, every later run skips
it and every build raises on it; the files of symbols that have left the universe stay in
the table; files of different ranges are built from together; the features file itself may
be torn, which `table` has as not whole.

## Runs

| run | instance | shows |
|---|---|---|
| `login` | 2 callers, 2 flight slots, 2 attempts, threshold 2, cooldown 2 s, window 3 s, fair | `SingleFlight`, `SubmittedInWindow`, `LockoutBudget`, refinement of `SharedLogin`, `LoginReturns`, `TypeOK` |
| `login_replay` | 1 flight slot, cooldown 3 s, window 4 s | `NoReplay` fails: finding 1 |
| `login_cap` | as `login_replay`, 3 calls, 1 attempt | `LockoutCap` fails: finding 2 |
| `session_store` | 2 savers, 1 loader, 2 sessions, 4 inodes | `LoadSound`, refinement of `SharedStore`, `TypeOK` |
| `session_store_two` | 2 savers | `StoredWhole` fails: finding 3 |
| `token_manager` | 2 callers, 2 attempts, 2 versions after the first, fair | `StoredIsCurrent`, `ForcedIsFresh`, `CallsReturn`, `TypeOK` |
| `rest_client` | 2 requests of either kind, 2 attempts, threshold 2, cooldown 2 s, fair | `SendBudget`, `RefreshPerAttempt` (finding 6), `NoBlindResend`, `OpenHoldsBack`, `RequestEnds`, `TypeOK` |
| `websocket` | 2 users, 1 token, 3 modes, 2 connections, 1 reconnection, fair | `FeedIsWanted`, `OnlyPendingOpen`, `ListenEnds`, `TypeOK` |
| `websocket_clean` | no user, 1 token, 1 connection | `ListenReconnects` fails: finding 4 |
| `orders` | 3 calls, 2 orders, window of 2 ticks, capacity of 3 units, token of 2, fair | `AdmissionBound`, `OnePerWindow`, `WaitersProgress`, `TypeOK` |
| `scanner` | 2 symbols, 50 histories, runs on 2 days, ranges of 5 days in chunks of 2, columns of up to 5 rows in 3 deciles, fair | `FilesCover`, `TableFromFiles`, `NoLookahead`, `OutcomeSettled`, `GapsJudged`, `DecilesEven`, `FetchEnds`, `TypeOK` |
| `scanner_split` | the histories with a split | `NoSplitMoves` fails: finding 5 |

Bounds.  Two callers with a call each make every join, cancellation and second login; the second flight slot is
there so that a second browser could exist.  Two attempts and threshold 2 let the cap be
reached inside one login and across two, and a cooldown is longer than the first
backoff and shorter than a window, so a retry falls on either side of it.  A window of
3 s with a margin of 2 has phases that wait and phases that do not, and delays that are
shorter than the margin, as long, and longer than the window.  `MaxCalls` is the one
bound the code does not have.  Four inodes are the session file, one that the load holds
open, one that another save does and a fresh one, so a save that finds no sibling always
finds one.  Two versions are what it takes for one to
replace the other, in either order, with a token or a clear as either; `MaxVersions` is a
bound of the model, and the theorems hold for any.  Two requests open the breaker for one
another; a threshold of 2 needs both or a retry.
Two connections are the client's and one it has lost sight of; two users change the same
token's mode within each other's calls; three modes, the second the server's default, let a
mode be moved behind a replay and ahead of it; and a reconnection allowed and one refused
come from a limit of one.  Tokens do not affect each other, so one shows what a run can; the
theorems are for any number.  Three calls are two of one order and one that takes their
token; a bucket of a token and a half is full, overfull and short of one at different
ticks.  Times and amounts are whole numbers where the code has floats.
In `scanner` one symbol has every history of at most one split and two irregular sessions
(too short, without an opening bar, with a bar before the session, or none at all), the
other two plain ones; five days are what a warmup session, a split, its quarantine and a row
on either side take; a range of five days makes two chunks and a shorter one.  `FirstDay` and
`LastDay` bound the days on which commands are run, and are the only bounds the code does not
have.  A session of four bars has one before 09:20, two that are evaluated and one after.
Lookbacks of 1 and 2 tell the two windows apart.

Fairness (`FairSpec`): the event loop, which runs ready callbacks in turn, wakes what has
slept long enough and delivers cancellations, and the clock.  Nothing is assumed about
callers calling or cancelling, nor about the browser driver: locators and `goto` carry
`timeout_ms`, but `browser.close`, `page.evaluate`, `new_context` and `new_page`,
`keyboard.press` and the driver's own start and exit have no timeout from this code.  That no
flight stays for ever with the driver, or with the time source, is a premise of `LoginReturns`
itself; a login that does hang there holds up every later call, which joins it.  In
`TokenManager` the login ends (`LoginReturns`, under that premise), the exchange has a timeout and its backoffs
are finite, and each worker thread ends.  In `RestClient` the HTTP client has a timeout, the
provider returns (`CallsReturn`), and the limiter's waits end; a capacity of at least one
token is assumed, `acquire` raising otherwise.  In `WebSocketClient` opening and sending have
timeouts (the factory's and the library's keepalive) and the waits are finite; a stream that
has ended is noticed.  In `Orders` time passes and a sleeper whose time is over runs.
In `Scanner` requests are answered or fail (`RequestEnds`) and writes end; nothing is assumed of
when commands are run.

## Findings

1. `NoReplay`: an attempt that fails and is retried in the window of its code submits the
   same code (`playwright_auth.py:299-300` says it never does).
2. `LockoutCap`: a rejection that ends as a cancellation or a browser error is not counted,
   so the cap of `playwright_auth.py:211-213` can be passed.  `LockoutBudget` is what does
   hold: the cap over the rejections that are counted.
3. `StoredWhole` with overlapping saves: they share `<name>.tmp`
   (`session_store.py:100` says writes are atomic).
4. `ListenReconnects`: after a clean close by the server `_websocket` stays set, so `listen`
   goes round its loop over the closed connection and never reconnects
   (`websocket_client.py:198` says it reconnects until `close`).
5. `NoSplitMoves`: the sessions at a split are removed, but the first one kept after them takes
   its previous close from before the split, so that it reports the split as its gap and its
   return at 09:20 (`clean.py:67-68` says why split days must not be left in).  `GapsJudged` is
   what does hold: a gap between neighbouring sessions has passed the rule.

6. `RefreshPerAttempt`, of a run that passes: a request that a 401 or 403 sends round again
   forces a refresh, a browser login, in every attempt of that round, up to `max_attempts`
   of them.  `README.md:156-157` says that "the transport refreshes once and retries the
   request", `docs/SDK_GUIDE.md:19` "refresh-once-on-401".  The property is what the code does,
   exactly; a code that refreshed in the first attempt only is its mutant, and fails it.

Two more, described with their modules, have no run of their own: a code submitted after
its window, and a connection opened after `close`.

## Proofs

`PlaywrightAuthProofs` proves the five safety properties of the run `login` for any numbers
of callers and flights and any constants that satisfy `PlaywrightAssumption` and
`BreakerAssumption`.  `SingleFlight` needs that a finished flight is still `_inflight` or no
longer awaited before its slot is used again.  `SubmittedInWindow` needs, for a flight
asleep, that timer and phase meet at the end of the window until it is late, for one that is
late, that lateness is how far the new window has come, and for one that types, that
lateness and what is left of the window add up to at least `MinValidity`, as long as the
lateness is less than a window.  `LockoutBudget` needs an invariant that ties the server's count of
rejections to the breaker's: while every rejection was recorded, the breaker's failures are
at least the rejections that are not still on their way to it, the breaker that reached
its threshold is open or probing, its age is at most the last rejection's, and the flight
that holds a code is the only one between `Attempt` and `LeaveAttempt`, which
`SingleFlight` gives.  `LoginIsShared`, the refinement of `SharedLogin`, needs besides
`SingleFlight` that a flight that runs has a caller, that one that is awaited has started,
and that one that closes its browser already has an outcome (`SharedInv`).

`SessionStoreProofs` proves the three properties of the run `session_store` for any savers,
loaders, sessions and inodes.  `StoreIsShared`, the refinement of `SharedStore`, holds
however many saves overlap.  Its invariant: what a save that has opened the sibling finds
in it is empty, torn, or the document of a save under way or of one that failed beside it
(`TmpOK`); a save that nothing overlapped finds its own (`LoneOK`), since the sibling is
never the session file (`FilesOK`).  Until saves overlap, and finding 3 shows that they
must not, the stored session is whole (`StoredWholeHolds`), readers see it change in one
step (`LoneWritesAreAtomic`), and what a load has open is whole and stays so (`LoaderOK`).

`TokenManagerProofs` proves the three safety properties of the run `token_manager` for any
callers, attempts and number of versions.  The invariant: no version is held by two calls;
a version that a call or a job still holds has not ended, nor has one whose save failed
beside a job, since no call waits for it any more (`HeldOK`); what a job is to replace had
ended; so what a job stores, its own version or another's, is never among what is
replaced.  A forced call reads nothing, so the version it holds was issued to it after it
began, and is newer.

`RestClientProofs` proves the five safety properties of the run `rest_client` for any requests,
methods, attempts and thresholds.  `SendBudget` and `RefreshPerAttempt` need, for each place a
request can be at, the most sends and the number of refreshes that lead to it (`Counted`), with the order
in which rounds and attempts follow each other (`Ordered`).  `OpenHoldsBack` needs that
whoever waits for a token or an answer behind an open breaker was past it when it opened
(`StaleOK`); so what ends a cooldown early is the success of such a request, and nothing else.

`WebSocketClientProofs` proves the three safety properties of the run `websocket` for any
tokens, modes, connections and attempts.  `FeedIsWanted` needs to say where a difference is
on its way to being mended: on an open connection a token is subscribed at the server
exactly if it is wanted, and if its mode differs it is `torn`, or among the tokens of a
`subscribe` whose mode message is next and has the mode that is wanted *now*, or of a replay
that has not passed that mode (`Pending`).  A replay takes the modes in their order, so what another call
moves behind it has been sent by that call.  `OnlyPendingOpen` takes, for each action, which
tasks it leaves opening a connection: only `Opened` sets one, and takes its task out.

`OrdersProofs` proves the three safety properties of the run `orders` for any calls, payloads,
window and bucket.  `AdmissionBound` needs that `burst` and what the bucket would hold if it
were refilled now never exceed the capacity together.  `OnePerWindow` needs that the guard's
reservation is the youngest of its order, among those of calls under way and of the last
that arrived, and that of two such all but one have reached `Ttl` (`WindowOK`).

`ScannerProofs` proves the safety properties of the run `scanner`, for any symbols, histories, universes and sizes of chunks, windows and thresholds.  `FilesCover`
needs what a run holds between chunks: all bars of the days before `chunk_start`, and no
others in session.  `TableFromFiles` needs that a symbol being fetched has no whole file.
The other three say something of any frame.  For `NoLookahead` two frames *agree* for day d
if the same is known of both at 09:20 of d and the same bars are there; agreement passes
through each cleaning rule, as far as the sessions up to d go, and what is computed for d
from frames that agree is the same.  The gap rule is the one that takes thought: on a
session without an opening bar it reads a later price, and frames that agree may differ in
whether d is a split, but then neither has a row for d.  `DecilesEven` rests on
`FeaturesProofs`, about a column of any length: a row's rank is the number of rows up to it,
ranks differ and so are a bijection onto the column's places, and the rows of a decile are as
many as the places between two quotients.

Liveness (`LoginReturns`, `CallsReturn`, `RequestEnds`, `ListenEnds`, `WaitersProgress`,
`FetchEnds`) is model-checked only, fairness being out of the prover's reach.  What safety
there is behind it is proved, for any number of attempts, callers, modes and symbols, as action
properties that bound the work:

- `LoginSteps`, `CallSteps`, `RequestSteps` and `FetchSteps`: from a stated maximum, every step
  a login, a call, a request or a fetch takes leaves it fewer steps to take, and no step of
  another task, of the clock or of the shared breaker gives it more.
- `FetchCompletes`: a fetch that returns leaves a file for every symbol.
- `ReconnectSteps`: the same for `listen` until a connect of its own returns.  When it does
  the count starts over, and a user that closes the client in the middle of a replay
  makes it start over from a failed attempt; so the bound is on one reconnection, not on
  `listen`, which may reconnect for ever.
- `SleepsSuffice`: a call that sleeps in `acquire` sleeps long enough, until another call is
  admitted.  Nothing bounds how often one call is overtaken, which is why `WaitersProgress`
  says only that some are admitted.

So nothing retries for ever, and what is left to TLC on small instances is that the step that is
next can happen and, under the fairness stated, does.

## What could follow

1. Runs of their own for the two disagreements that have none: a code submitted after its
   window, a connection opened after `close`.
2. A composition of `TokenManager` and `RestClient`: many requests refused at once.  Now each
   stands on what the other is proved or checked to show.

## Not modelled

Parsing of responses into dataclasses, settings, logging, the exception classes, scripts
and examples: they keep no state and nothing interleaves.  The tick parser decodes fields at
fixed offsets of a packet whose length was checked; a model of it would be its table of
offsets again, and its one outcome that other code depends on, an error, is in
`WebSocketClient`.  The other methods of the facade forward one REST call each.  Selectors,
diagnostics and the browser are abstracted to the errors they raise.  The scanner's drop
counts and printed tables, and the universe's cache file, which nothing reads, are left out.
Hazards that no property covers carry a note in `PROJECT.json`.
