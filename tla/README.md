# Swing: a TLA+ model of the discussion engine

Swing is a Go server (`src/core/backend`) with a Next.js client (`src/core/frontend`). Users open *arguments*, comment, and react with *fire*. A comment that reaches 40% engagement settles a *consensus*: its author gains points and the other participants lose some. Postgres holds the data, Redis holds cached responses and the one-login lock, and a WebSocket hub pushes changes to browsers.

Contents: [components](#1-components), [modules](#2-modules-and-how-they-correspond-to-the-code), [runs](#3-runs), [bounds and fairness](#4-bounds-and-fairness), [proofs](#5-proofs), [disagreements](#6-where-the-code-disagrees-with-what-it-says), [what is not modelled](#7-what-is-not-modelled-and-the-plan).

Run a model with `tlc -config Cache.cfg MCCache.tla`; check the proofs with `tlapm CacheProofs.tla`.

## 1. Components

`B/` stands for `src/core/backend/internal/`.

| component | state | operations | hard behaviour | what makes it correct |
|---|---|---|---|---|
| Fire reactions and scoring (`B/comments`, `B/arguments/scoring.go`) | users' scores, `score_events`, `comment_reactions`, `comments.is_fire_triggered`; a transaction per request | toggle a fire, count, settle, commit | statement interleavings at READ COMMITTED, row locks, deadlocks, failures | balances reconcile, a settlement is atomic, happens once and when due |
| Comments (`B/comments`) | `comments`, `notif` | create, list | a sequence of autocommits with sends in between, each able to fail | a saved comment reaches the browsers |
| Hub (`B/websocket`) | client set, a channel per client, three goroutines per connection | register, unregister, fan out, notify | channel close against send, slow clients, blocking on unbuffered channels | no panic, no gaps, nobody blocks |
| WebSocket tickets (`B/websocket`) | map of tickets | issue, redeem | expiry, never swept | redeemed once, names its user |
| Response cache (Redis; every GET view) | response per view and user, 60 s TTL | fill on a miss, delete after a change | fill against delete, failing deletes | staleness is explained and ends |
| Account lock (`B/auth`, `cmd/server/system.go`) | `session_active:<id>`, 45 s TTL | login, heartbeat, logout, refresh | test-then-set, TTL against heartbeat | one browser per account; nobody locked out |
| Arguments, watchlist (`B/arguments`) | `arguments`, `watchlist` | create, page through, toggle | check-then-insert, nested queries on a bounded pool, stale score | toggles match clicks, requests end |
| Notifications (`B/notification`) | `notif` | list, mark read | through the cache and the hub | as those |
| Limiters (`cmd/server/routers.go`) | Redis counter; token buckets | login, API calls | INCR without EXPIRE | a window ends |
| Database pool (`B/database`) | 25 connections | every query | a request that holds one while it waits for a second | no starvation |
| API client (`frontend/lib/api.ts`) | access token, refresh flag, queue of requests | send, refresh, resend | 401s around a refresh, logout during it | one refresh at a time, every request answered |
| Dashboard (`frontend/app/dashboard`) | `argumentsList`, page buttons, `pendingArguments`, socket, the URL's tab and page | load a page, toggle a star, apply a message, reconnect, show new arguments | answers out of order, closures older than the state, messages lost or twice | the list is the one the URL names, nothing twice, nothing lost unexplained |
| Review dialog and comments (`components/reviewModal.tsx`, `comments.tsx`) | `detailedArgument`, the comment being written | fetch the thread, post, reply | a second copy of the thread beside the list's, fetches that overlap posts | both copies follow the table; rendering never throws |
| Sign-in page, argument form (`app/page.tsx`, `components/createModal.tsx`) | the form | log in, sign up, look on, post an argument | token and cookie of another account | as API client and dashboard |
| Statistics, profile, pages, middleware, migrations | none of their own | read-only or stateless | none | |

They interact in four ways. Handlers share the database, through transactions and autocommitted statements. They share Redis, with no transaction around it. They send on the hub's unbuffered `Broadcast` channel and, for notifications, straight into a client's own channel. Browsers react to responses and messages and drive everything else; in a browser, state lives in React, and a handler goes on with the values of the render it was made in.

The hazards this leads to are listed at their lines in `PROJECT.json`, with the properties that cover them or the reason none does yet.

## 2. Modules and how they correspond to the code

| module | models | granularity |
|---|---|---|
| `Scoring` | arithmetic of `scoring.go` | operators |
| `FireReaction` | `HandleFireReaction`, `ApplyConsensusDeflationTx`, the insert of `HandleCreateComment` | one SQL statement per step |
| `Settlement` | abstract specification: what a reaction promises | one request per step |
| `FireReactionProofs` | theorems about `FireReaction` | |
| `Hub` | `Hub.Run` and the reader and writer goroutines of `WebSocketHandler` | one channel operation per step |
| `Realtime`, `RealtimeProofs` | `Hub` composed with the handlers that send to it: `HandleCreateComment` and `HandleFireReaction` | one database call or send per step; the transaction of a fire is its EXISTS and its commit |
| `Cache`, `CacheProofs` | the cached views and the handlers that invalidate them | one Redis or database call per step |
| `Session`, `SessionProofs` | `session_active` through login, heartbeat, logout, refresh, and the dashboard driving them | one Redis command per step |
| `RefreshQueue`, `RefreshQueueProofs` | one tab's access token: the interceptors of `lib/api.ts`, login, logout, page loads | one response or interceptor run per step |
| `DbPool`, `DbPoolProofs` | the connection pool under the handlers | one query per step |
| `Replica` | abstract specification: what a browser's copy of a thread promises | one comment or replacement per step |
| `Thread`, `ThreadProofs` | one thread in one tab: the dashboard's copy, the review dialog's copy, the socket, posting | one message, response or render with its effects per step |
| `Feed`, `FeedProofs` | the dashboard's list in one tab, with the handlers that serve it | one query or Redis command of the server, or one callback of the browser, per step |
| `MC*` | constants for TLC | |

### FireReaction

The database variables are the committed rows: `score`, `ledger` (the sum of a user's `score_events`), `posted`, `triggered`, `reactions`. Each handler `t` has a program counter `pc[t]` naming its next statement, and `txn[t]`, what its transaction has read, locked and written. `Sees(t, u)` is the READ COMMITTED rule for one row: the transaction's own write, else the committed row. Since a row cannot change while it is locked, a waiter reads the committed row when it gets the lock. `Commit` installs all writes together; `Abort`, a failed insert and a deadlock victim all go through `Rollback`.

Locks follow Postgres's conflict table, cut down to the modes used: `SELECT ... FOR UPDATE` (conflicts with everything), `UPDATE` of a non-key column (exclusive, but compatible with key share), and the key share lock that a foreign-key check takes. The lock on a reaction row stands for the unique index on `(comment_id, user_id, reaction_type)`. The deadlock detector aborts a member of a minimal cycle of waiters.

`math.Round(float64(score) * rate)` is modelled by integer division. For scores from 0 to 3,000,000, and for random values up to 2^31, both penalties equal `(percent * score + 50) \div 100`, and `fires/total >= 0.40` in float64 equals `5 * fires >= 2 * total`.

What the UPDATE of `arguments.logic_score` stores is left out; its row lock, which serialises the ends of transactions in one argument, is kept.

`wins` and `paid` are bookkeeping: committed payouts per comment and rewards per user. The +50 writes no `score_events` row, so without `paid` a balance could not be compared with the ledger.

### Settlement

The abstract specification has the same observable state and one step per request. A fire in `LooseFire` may settle, or not, and hits competitors it has seen; this is what overlapping requests guarantee. `StrictFire` settles exactly when an untriggered comment reaches the threshold, and hits every competitor; this is what one request at a time guarantees. `FireReaction` implements the first for any interleaving (`SettlesAtomically`) and the second with one handler (`FollowsTheRule`). The mapping is the identity on the shared variables: every step before `Commit` is a stutter.

### Hub and Realtime

A send on an unbuffered channel and the hub's receive are one step, possible while the hub is in its `select`. The fan-out is taken one client at a time, because `HandleCreateComment` fills the same channels without the mutex. `left` is what the fan-out has still to visit, and `message # NoMsg` also means that the hub holds `Mu`. A send on a closed channel by a handler is a panic that ends the request (net/http recovers it); a double close by the hub would end the process (`hubDown`). `log`, `joined` and `got` are history variables for the properties.

`HandleFireReaction` is a toggle: it reads whether its user's fire is there (`ReadExists`), and its transaction deletes or inserts it and commits (`CommitFire`), or is rolled back (`FireFails`; the unique index refuses a second insert). `reacted` is the committed fires on the one comment the requests are about, which other requests of the same user may have changed since the EXISTS. Both kinds of toggle then re-count outside the transaction and broadcast. The error of that re-count is ignored (`handlers_comments.go:209`), so a failed one broadcasts 0 (`RecountFails`). `stale` and `blind` record the handlers that another's commit overtook between their re-count and their broadcast, and those whose re-count failed.

`HandleCreateComment` starts at its insert; its checks before that change nothing.

### Cache

A key is `<<view, user>>`. A response has parts, each from a query of its own: the `total` of a list, its `rows`, and its `comments`; the comments of an argument and the notifications of a user are one part each. A change `<<q, p>>` is what request `q` did to part `p` of the views, and a response is abstracted to the changes it shows (`shows`), so "stale" can be said per request and part: `Lacks(k, q, p)`.

| Cache | code |
|---|---|
| `Commit`, `SaveScore`, `Notify`, `NoOwner`, `NotifyFails` | the database steps of the five handlers; a comment's insert, the score of its argument and the notification commit one by one, and when the last fails, or its sending panics, no key is deleted at all |
| `FireDeletes`, `CommentDeletes`, `ArgumentDeletes`, `WatchDeletes`, `MarkReadDeletes` | the keys each handler deletes; `Changes` are the keys whose queries read the rows it writes |
| `Delete`, `DeleteFails` | one DEL, in the order of the code; its error is dropped, and a client that leaves cancels the context of all that follow |
| `Miss`, `Query`, `Fill`, `FillFails` | a GET handler: a miss (or a GET of Redis that fails, so the key may be cached), one query per part, the SET; or an error instead of a response |
| `PartFails` | the count of a list fails (`handlers_arguments.go:239`, `:462`, `:788`), or the query of comments in it (`:288`, `:513`, `:950`): the handler goes on with 0, or without comments, and caches that |

`gaps` are the parts of a cached response whose query failed. `missed` and `overtaken` (in a handler, `raced`) are history variables.

Abstracted: page and limit, which are part of some keys, since all pages of a view are deleted together; all requests are about one argument, which every list holds; the comments of a page, one query per argument in two of the lists, are one part. A row that is skipped because it does not scan (`handlers_arguments.go:269`, `:307`) is not modelled.

### Session

One account. `lock` is the time `session_active` has left, in heartbeat intervals. `HandleLogin` is two steps, EXISTS and SET. A heartbeat is sent and processed in two steps, so one sent before a logout can be processed after it. `raced`, `returned` and `lapsed` record why a browser may not be the only one.

### RefreshQueue

JavaScript runs one callback at a time, so a step is a response that arrives and all the synchronous code it starts: `Refresh` is lines 71-75 of `api.ts`, up to the `await`, `Refreshed` and `RefreshFails` what follows it. A queued request is resent in the same step, with the new token; it has no `_retry`, so a second 401 sends it through the queue again. `carried` is the cookie the browser attached to a refresh when it was sent; the server keeps no list of refresh tokens, so that cookie stays good after a logout. `Reload` is a page load: the module's variables are new, pending requests are gone, the cookie stays. `Open` is the dashboard loading and finding the cookie, `OpenFails` any load that does not; nothing else is under way then, so the refresh is one step.

`user` is whose session the page is in, not what it displays. `overtaken`, `crossing` and `strayed` record which requests were under way over a change of account.

Left out: the viewer branch of the interceptor (`api.ts:47` reads `sessionRole`, which nothing sets: the pages use `user_role`); going back to the login form with the browser's history; the second profile request of a page load, whose repeated 401 drops the token the next request would fetch again. The cookie's own expiry after seven days is a refresh that fails.

### DbPool

`held` says who has each connection, and whether for a query or for the rows of an argument list. `HandleGetArguments` and `HandleTopArguments` run one query per argument inside `rows.Next()`, and so hold one connection and want a second. `HandleGetWatchlist` reads its rows to the end before it asks for comments, which gives the connection back, and no other handler queries inside a loop or beside its transaction: these are `Singles`. Queries without the request's context wait for a connection for ever; the two with it end when the client goes, and the handler then carries on.

### Replica and Thread

An argument's comments are in two places of a tab: in `argumentsList` (`list`) and in the review dialog's `detailedArgument` (`detail`). The dialog shows the first if the list has the argument, else the second (`activeArg`, here `Shown`). A copy is a set of comments; the tree they are kept in follows from `Parent`. So two identical copies of a comment cannot be told from one: `ListOnce` sees a second insertion when one copy came from the post's response and the other did not. A comment is `full` unless it was made from the response to a post, which has no `content`.

| Thread | code |
|---|---|
| `saved`, `stage`: `Save`, `Broadcast`, `Abandon` | the insert of `HandleCreateComment`, its send to the hub, its end by an error or a panic in between (both in detail in `Realtime`) |
| `socket`, `wire`: `Disconnect`, `Reconnect`, `GiveUp`, `Message` | `connectWebSocket`, `onclose` and the `NEW_COMMENT` branch of `onmessage`; a failed profile or ticket request ends the attempts |
| `chosen`, `open`, `linked`: `OpenListed`, `Navigate`, `Close`, `Expand` | `selectedArgument`, `isReviewModalOpen`, `argument_id` in the URL |
| `loads`: `ListLoaded`, `ListFails` | `loadArguments` (in detail in `Feed`); an answer may come from a page cached before the comment, or not have the argument |
| `asked`: `Answered` | `fetchStats` called by the dialog's effects; `Render` runs them when the argument, the URL or the number of comments changes |
| `post`: `Submit`, `Posted`, `PostFails`, `Fetched`, `Inserted` | the two submit handlers, `handleAddReply`, the `fetchStats` they await and `handleLocalAddReply` |
| `broken` | `content.length` in `CommentFunc` has thrown while rendering; there is no error boundary |

`excused` is a history variable: the comments whose message missed the tab or could not be placed, and those an answer of the list left out. `Replica` has the server's table and one copy. Its copy changes by `Take` (one saved comment, below a parent it has) and `Replace` (by a state the table was in, or a copy the page has kept). `Thread` implements it twice: the list's copy, which keeps nothing (`ListIsReplica`), and the dialog's, which a failed fetch sets back to the list's copy of an earlier render (`DetailIsReplica`).

Left out: the fetch after a click on fire, the counts in `SWING_SCORE_UPDATE`, drafts. The two fetches a click on a notification can start count as one.

### Feed

The browser's part: `url` (tab and page), `loads` (requests of `loadArguments`, numbered by `n`), `list`, `hasMore`, `maxPage`, `busy` (`isLoading`), the clicks on stars (`click`), `pendingArguments` now (`pending`) and in the closure of the button (`rendered`). The server's part: `posted`, `watched`, and the user's cached pages, because what a page shows depends on when its count, its rows and its cache entry were made.

| Feed | code |
|---|---|
| `ClickTab`, `Prev`, `Numbered`, `NextChunk` | the tab and page buttons, with their `disabled` conditions; each pushes a URL, and the effect on it calls `loadArguments` |
| `Hit`, `Count`, `Read`, `Store` | `HandleGetArguments`, `HandleTopArguments`, `HandleGetWatchlist`: the cache, `COUNT(*)` (its error is ignored), the page, the SET |
| `Apply`, `LoadFails` | what follows the `await` in `loadArguments`: whatever answer comes is applied |
| `ClickStar`, `Exists`, `Toggle`, `Clear`, `Toggled`, `ToggleFails` | `handleToggleWatch` and `HandleCreateWatchlist`: EXISTS, then INSERT or DELETE in autocommit, then the cache deletes |
| `Post`, `Cleared`, `Created`, `Announced`, `Render`, `ShowNew` | `HandleCreateArgument`, `handleCreateSubmit`, the `NEW_ARGUMENT` message, and `handleShowNewArguments`, which has the arguments pending at the last render |

`source`, `late`, `basis`, `shrunk`, `struck` and `doubt` are history variables. The order of the top list is arbitrary, since scores change at any time. The list is kept as a set, too. `Go` does nothing when the URL's tab and page stay; the code's effect (`page.tsx:527-551`) also runs, and loads again, when the URL's hash or `argument_id` changes, and those further loads are left out. Left out as well: two pushes before the first navigation (counted as one), other tabs and browsers of the same user, and requests the browser gives up on while the server still works on them.

## 3. Runs

| run | question | result |
|---|---|---|
| `fire` | With concurrent requests, do balances reconcile, is a settlement all or nothing, is each request answered, and does every commit look like one atomic reaction? | yes, 445,955 states |
| `fire_serial` | Does one request at a time follow the whole rule? | yes, 93,884 states |
| `fire_twice` | Is a comment settled once? | no: counterexample |
| `realtime` | Does the hub survive, do clients get a gapless stream, whatever clients do, and is the last fire count they are told right? | yes; yes; only as stated; 368,722 states |
| `comment_lost` | Is every saved comment broadcast? | no: counterexample |
| `cache` | Are stale responses explained, and do they go away? | yes, 408,190 states |
| `session` | Do heartbeats keep others out, why may an account be shared, and is it freed? | yes, 1,012,264 states |
| `refresh` | Is there one refresh at a time, does every request settle, can tokens of two accounts mix? | yes, yes, only as stated; 444,697 states |
| `pool` | Are connections always returned, and when does the pool starve? | yes; exactly when as many list requests as it has connections are in their loops; 85,098 states |
| `thread` | Do both copies of a thread follow the table, without duplicates or unexplained gaps? | yes, 3,129,913 states |
| `thread_breaks` | Does the page survive posting? | no: counterexample |
| `feed` | Does the list end up as the URL, the stars and the page buttons say, or why not? | yes, only as stated; 7,197,154 states |

Every property of a passing run has a mutant in its module (`Mutant...`): a plausible bug, and TLC finds that property violated with it.

The properties:

- `LedgerReconciles`: score = initial + ledger + 50 × rewards, for every user. A lost update would break it.
- `AllOrNothing`: a comment is flagged exactly if its author was paid.
- `PayoutsBounded`: payouts plus the handlers that may still pay never exceed the number of handlers. This is the guarantee left without a lock on the flag.
- `Answered`: every request ends; lock waits and deadlocks are always resolved.
- `SettlesAtomically`, `FollowsTheRule`: refinement, see above.
- `ConsensusOnce`, `NoMissedConsensus`: hold in `fire_serial`, fail with two handlers (`fire_twice`; two fires that reach 40% together each count only their own, `handlers_comments.go:138`).
- `HubNeverPanics`: a channel is closed once and the hub sends to no closed one.
- `Gapless`: what a client got and has queued is exactly the broadcasts since it registered, in the hub's order; a client still in the hub has all of them.
- `LastCountRight`: with no fire between its commit and its broadcast, the count broadcast last, which is the one pages show, is the number of fires, unless its handler was overtaken by another's commit after its re-count, or its re-count failed. The code has both cases.
- `HandlersEnd`: no client can hold up a handler that has saved something.
- `StaleOnlyIf`, `Converges`: a part of a cached response is out of date only because the DEL is still to come, was missed, came while the response was put together, is never made (lists after a comment), or because the query of that part had failed; and after the last change, and the last failing query of a part, the cache becomes right for good.
- `BeatingKeepsOthersOut`, `SharedOnlyIf`, `AccountFreed`: while a browser's login or heartbeat is younger than the key's lifetime, a login gets another one in only if the key was set between that login's EXISTS and SET (a return by the refresh cookie does not look at the key at all, and is not a login); two browsers share an account only by a raced login, a refresh or lapsed heartbeats; with everyone gone the account becomes free.
- `QueueHasRefresher`, `Settles`: the flag is up exactly while one request awaits a refresh, whoever is queued has one to wake it, and every request settles.
- `TokenOfUser`, `ActsForIssuer`: the token in memory is the logged-in account's, and a request acts for who made it, unless a refresh or the request itself was under way when the account changed, or a failed logout left the cookie.
- `ConnectionsReturned`, `StarvedIff`, `AnsweredOrStarved`: no path keeps a connection; the pool is starved (somebody waits, no connection is free, and no query runs that would free one) exactly when as many list requests are in their loops as it has connections; otherwise everyone is answered.
- `ListOnce`: the socket, the response to a post and the list's answers bring the same comment in any order, and it is in the list once.
- `MissingOnlyIf`: a broadcast comment missing from the list is on the wire, or was lost with a connection, came before its parent, or was left out by a later answer.
- `ListIsReplica`, `DetailIsReplica`: refinement, see above.
- `ShowsUrl`: the page buttons never stay disabled, and with nothing under way the list is the URL's unless the newest request failed or was overtaken.
- `StrandedOnlyIf`: the buttons lead past the last page, to an empty list without buttons, only with an unknown page count, from a page past the end, by a staler answer, after the watchlist shrank, or when a star clicked on the watchlist is answered after the tab has changed: it takes its argument out of whatever list is shown (`page.tsx:159-163`).
- `StarOnlyIf`: a star is what the server has, unless clicks overlapped, one failed, the list shown was read during a click or survived it in the cache, or the argument came without an answer.
- `AnnouncedShown`: "n new arguments" discards no announced argument it did not show, except those since the last render. That exemption is the hazard itself (`page.tsx:665`): the property bounds what the code loses, it does not deny the loss.

`MissingOnlyIf`, `ShowsUrl`, `StrandedOnlyIf`, `StarOnlyIf`, `SharedOnlyIf`, `BeatingKeepsOthersOut`, `TokenOfUser`, `StaleOnlyIf` and `LastCountRight` list exceptions. Each disjunct is reachable within the bounds: without it TLC finds a counterexample. So two browsers can share an account, and a page left by logout can keep a token (section 6).

`StarvedIff` is not an all-clear: `load-tests/load-test.js:13` ramps `GET /api/arguments/top` to 50 clients, twice the 25 connections.

## 4. Bounds and fairness

| run | bounds | why they are enough |
|---|---|---|
| `fire` | 3 users, 1 argument, 3 comments (2 at the start), 2 handlers, 4 requests (`MaxRequests`), initial score 30 | two handlers give every pairwise interleaving and lock cycle; u1 opened the argument and comments in it, so the double hit occurs; at 30 the two penalties of a double hit depend on their order |
| `fire_serial` | 1 handler, 7 requests, initial score 1, 1 comment at the start | un-firing, re-firing and posting around the threshold; accounts reach zero and rise again |
| `fire_twice` | 2 handlers | the counterexample needs no more |
| `realtime` | 2 connections, buffers of 1 (`Cap`), 2 comments and 1 inserted fire; or 3 toggles of 2 users, any fires at the start, without connections (`Bounded`) | three broadcasts and one notification overflow a buffer of 1 (`comment_lost` needs one comment); a connection can be dropped by the fan-out, by its reader, or both. Three toggles give fire and un-fire, one overtaken between its EXISTS and its commit, and re-counts and broadcasts in any order; what is broadcast does not depend on connections |
| `cache` | 3 keys; two requests at a time that touch the same views: a fire and a comment, a comment and a mark-as-read, a watch and a new argument; 1 GET handler, or 2 on a list with a watch (`Bounded`); TTL of 1 tick | keys are independent of each other except through a handler's delete order, and the keys chosen differ in which handlers delete them (`Covered`, section 5, is about all of them); two GETs under one key overtake one another; a tick can fall anywhere, so a longer lifetime only postpones an expiry |
| `session` | 3 browsers, TTL of 3 intervals | the code's ratio 45 s to 15 s; two browsers share, a third logs in |
| `refresh` | 3 requests of which one is a logout, 2 accounts, 2 sign-ins (`MaxSignIns`) | one request refreshes, one queues, one ends the session; a second sign-in changes the account |
| `pool` | 3 connections, 3 list requests, 1 other, 2 rows or queries (`MaxRows`) | the pool can starve, and also come within one connection of it and recover |
| `thread`, `thread_breaks` | 2 comments, the second a reply to the first, both posted from this tab; 2 fetches by effects under way (`MaxAsked`), 1 change of the URL (`MaxNavs`) | a reply can come before, after or without its parent, by message, response, fetch or list; two fetches can be answered in either order around a post; a post whose response never comes stands for another user's comment (with `Own` = {}, {c1} or {c2} the properties hold too) |
| `feed` | 2 arguments, pages of 1 (`Limit`), buttons for 2 pages (`ChunkSize`); each behaviour takes one of 9 bounds on tabs, URL changes (up to 3), clicks at once (2), posts (2) and new arguments (2); the constraint `Calm` narrows three of them | pairs of hazards meet: two requests answered in either order, a page past the end, two clicks on one star, a click against a load, a list read before a post and shown after it. `Calm` allows at most two requests at once where a click meets a change of tab and back, and keeps to undisturbed requests where the watchlist fills two pages, which takes 35 steps, or where a star clicked on the watchlist is answered on the second page of another tab |

`Bounded`, the constraint of two runs, cuts off requests, GETs, connections and failures that would come on top; no step that is fair leaves it without another that stays, so the liveness properties are checked on whole behaviours.

`CHECK_DEADLOCK FALSE` is set where a behaviour ends by itself: requests, comments and changes are finite in number there. Posted comments of `fire` are bounded by the set of comments, the log of `realtime` by its posts and fires. The clocks count down from a TTL.

Fairness is weak everywhere, on what the runtime runs by itself:

- `FireReaction`: a handler's next statement, once it can run, and Postgres's deadlock detection (it aborts a waiter after `deadlock_timeout`). Requests need not come, and failures need not happen.
- `Realtime`: the hub's steps for each client, and the steps of handlers that have begun. Go's `select` picks at random among ready channels; with finitely many messages weak fairness is enough. Browsers owe nothing: readers and writers are not fair.
- `Cache`: handlers that have begun, and Redis's clock.
- `Session`: Redis's clock, and requests that have reached the server. Heartbeats need not be sent or succeed.
- `RefreshQueue`: a request that has been sent is answered or fails, and the interceptor runs. Users and clocks owe nothing.
- `DbPool`: Postgres ends every query, and a free connection goes to some request that waits. Nobody needs to give up.

`Thread` and `Feed` assume no fairness: connections, answers and users may stop, and their properties are about safety.

## 5. Proofs

All theorems hold for every value of the constants that satisfies the module's named assumption (finite non-empty users and comments, functions with the right domains, TTLs, page sizes and bounds on fetches of at least one). The three `OneHandler...` theorems of FireReaction have one hypothesis more, `OneHandler`: no two handlers run at once. The run `fire_serial` satisfies it; with overlapping handlers their conclusions fail (`fire_twice`, and two fires that do not count each other).

Each proof below has the same form: an invariant that is inductive, one lemma per part of it with a step per action, and a last step by temporal logic.

**FireReactionProofs** proves `TypeCorrect`, `LedgerAlwaysReconciles`, `ConsensusAllOrNothing`, `ScoresNeverNegative`, `PayoutsAreBounded`, the refinement `TransactionsAreAtomic`, and for one handler `OneHandlerFollowsTheRule`, `OneHandlerPaysOnce` and `OneHandlerMissesNothing`. `LedgerReconciles` is not inductive: `Commit` writes `new[u]` to a score, and nothing in the property says what `new[u]` is. The inductive invariant adds

- `Exclusive`: no two transactions have the same user row locked;
- `Holds`: for a row that `t` has locked, `new` is the *committed* score plus `t`'s own deductions and reward; for other rows `t` has logged nothing. That it is still the committed score at commit time is what the lock, and hence `Exclusive`, gives;
- `FlagAndReward`: what a transaction has flagged and whom it has rewarded go by its place in the code;
- `NonNegative`: scores, committed or pending, are natural numbers.

One lemma treats all steps that touch no user row (`QuietStep`), one the two penalties (`PenaltyStep`), one the commit (`CommitStep`). `PayoutsBounded` needs `Eligible`: whoever settles, or has settled, read the comment's flag as unset. A commit that pays is one payout more and one contender less; once a comment is flagged, no handler that reads it becomes one.

`TransactionsAreAtomic` says that any interleaving of statements implements `Settlement`. The transaction writes users' rows one by one, so the invariant (`SettleInv`) keeps its account: for each row it has locked, `new` is what the whole settlement, as far as it has come, makes of the *committed* balance (`Account`, with `Hit` the competitors done so far), and the competitors it has yet to visit are distinct and among those who comment. `Tale` adds what it has done to `comment_reactions`, `OneInserts` that the unique index lets one transaction insert a fire. Every statement is a stutter of `Settlement`; a commit is one `LooseFire` or `Unfire`. The double hit of a creator who also comments comes out right because both penalties are taken in the order of the code.

With one handler, what a transaction has read still holds when it commits. `SerialInv` says so: it goes into the settlement exactly if its comment, with its own fire, is at the threshold (`Judged`), and its competitors are all there are. So a commit is a `StrictFire`. `OneHandlerMissesNothing` adds that no commit, no fire taken back and no comment posted leaves a comment at the threshold untriggered (`NoneMissed`): more comments and fewer fires only lower the ratio.

**CacheProofs** proves `StalenessExplained` (and `CacheTypeCorrect`). `StaleOnlyIf` speaks of cached responses; the invariant says the same of those being put together, for the parts queried so far (`Filling`). `Writing` says that until its last write a handler has every key still to delete, so that a later statement of it cannot change a view after that view's delete; `Querying`, that a handler queries only parts its view has, so that the parts it skips hold no change to miss. The lemmas about the code's tables are `Covered` (a handler deletes each key it changes, except the three views that a comment leaves to expire) and `ChangesHasPart` (a change is to a part the view has).

**SessionProofs** proves `SharingExplained` and `BeatingKeepsTheLock` (and `SessionTypeCorrect`). Two facts make the first inductive: without a key, everyone inside came back by a refresh or let it expire (`Absent`), and that is still so between the EXISTS and the SET of a login nobody has raced (`Unraced`). Two others give the second, for all who have a page open (`Inside`): the key lasts at least as long as the youngest heartbeat allows (`Remains`), and a login between its EXISTS and SET that nobody has raced saw no key, so every such heartbeat is older than the key's lifetime (`Expired`).

**RefreshQueueProofs** proves `QueueAlwaysWoken`, `TokenIsOfUser` and `AccountsKeptApart` (and `RefreshTypeCorrect`). `QueueHasRefresher` is inductive with the type invariant. The other two need three facts: the cookie is the logged-in account's (`CookieOfUser`), a refresh not overtaken by a change of account carries that cookie (`Carries`), and requests not overtaken were made by whoever is logged in (`IssuedByUser`).

**DbPoolProofs** proves `NothingLeaks` and `StarvingExplained` (and `PoolTypeCorrect`, which needs that a loop ends with its last row, `RowsLeft`). For the second, `RowsHeld` adds that a request in its loop holds a connection for its rows. With `ConnectionsReturned` each loop then has one connection of its own; the map from loops to connections is an injection, so as many loops as connections leave none free and none for a query, and fewer leave one that is free or runs a query. The counting is the library's (`FS_Injection`).

**RealtimeProofs** proves, for any number of connections, comments and fires and any buffer, `HubIsSafe`, `LastCountsAreRight`, `StreamsHaveNoGap` and `TypeCorrect`. `HubInv` adds to the first that outside a fan-out nobody is left to be visited, so an Unregister closes no channel the fan-out has still to send on. `CountInv` adds to the second that whoever has yet to broadcast its count has the right one, or is one of the two exceptions; so when the last of them has broadcast, the last count in the log is right, and the next commit reopens the question. For `Gapless`, a connection's stream (`Sent`: what it got and what it has queued) follows the log from the place where it joined; a client that the fan-out has yet to visit lacks exactly the message in hand, every other client nothing. A writer only moves a message within the stream, and a notification, which the handlers put into the same channel past the hub, takes no place in the log.

**ThreadProofs** proves, for every set of comments, every reply structure and any bound on fetches and navigations, `NoCommentTwice`, `MissingExplained`, and the two refinements `ListImplementsReplica` and `DetailImplementsReplica`, and `ThreadTypeCorrect`. The inductive invariant is the types with `AllSaved`: every comment that is on the wire, past its insert, or about to be put into the dialog is in the table. Two lemmas, `ListStep` and `DetailStep`, say what each action can do to a copy; from them every step is a step of `Replica` or a stutter.

**FeedProofs** proves, for every set of arguments, any page size, any number of clicks at once and all bounds, `ShowsTheUrl`, `AnnouncedIsShown`, `FeedTypeCorrect`, `StarsAreRight` and `StrandedIsExplained`.

- `LoadInv` (for `ShowsUrl`) says of the newest request: it is under way, or it was applied last, or the list is `late`; and requests carry the tab and page their number stands for.
- `Types` strengthens `TypeOK` so that it is inductive: no argument is twice in the watchlist, in an answer or in the list, no page is cached twice, requests have their own numbers, and a known number of pages comes with the answer it came from.
- `StarInv` says where a wrong star may be. Requests know of every click under way (`LoadStars`); an unmarked cached page may be wrong about an argument only between the change of the watchlist and the clearing of the cache (`CacheStars`); the only click on an argument knows what the watchlist has of it (`ClickStars`).
- `EmptyInv` follows the number of rows from its count to the page buttons: it still bounds what the read finds unless the watchlist got shorter (`LoadFull`, `CacheFull`), a button that knows it asks for a page that starts before its end (`Buttons`), and the list shown is then empty only if clicks on stars emptied it (`ListFull`).

The lemmas on operators (`PagesOf`, `PageHas`, `OrderOf`, `RemoveFirstHas`, `DistinctCounts`) say what pages, orders and the toggle of the watchlist return; `Serving`, `Choosing` and `Toggling` say once what the server's steps, the buttons and a toggle do, and `StepOf` splits `Next` by what a step can change.

The proof of `StrandedIsExplained` corrected the property. An earlier form, which TLC had confirmed within smaller bounds, missed one way to an empty list: a star clicked on the watchlist and answered after a change of tab. The bound `LeftWatchlist` of `feed` now reaches it, and `struck` records it.

Only model-checked: the liveness properties `Answered`, `HandlersEnd`, `Converges`, `AccountFreed`, `Settles` and `AnsweredOrStarved`, which need fairness and ENABLED. Every other property of a passing run is a theorem.

Limits of what is checked: `NoMissedConsensus` is checked and proved with one handler only, so it does not cover two overlapping fires that do not count each other (`handlers_comments.go:138`), where it fails.

## 6. Where the code disagrees with what it says

1. `fire_twice`: README.md:77 speaks of "atomic consensus ... locking state". The flag is read without a lock at `handlers_comments.go:89`; two overlapping fires settle a comment twice.
2. `comment_lost`: README.md:1 promises "live comment thread updates". A send on a channel the hub has closed in the meantime (`handlers_comments.go:346`) panics after the comment is saved and before it is broadcast.
3. `thread_breaks`: `comments.tsx:14` and `dashboard/page.tsx:591` declare that a saved comment has a `content`. The response to the post has none (`handlers_comments.go:400-407`), and rendering the comment reads `content.length` (`comments.tsx:106`).

Also met while modelling, without a run of their own:

- `authentication.go:305` says "Account is already logged in somewhere.", but EXISTS and SET (lines 295 and 309) are two commands; `SharedOnlyIf` names the cases in which two browsers are in.
- `dashboard/page.tsx:223` says "Session cleared. User is now a guest.", also when the logout request failed; a late 401 or a refresh in flight sets the token again (`lib/api.ts:82`); `TokenOfUser` names the cases.
- Unwatching the last argument of a later page of the watchlist leaves "No Watchlist added yet" and no page buttons. Prev does not look at the number of pages.
- A GET whose count or comment query fails is cached like any other response and served for up to 60 seconds (`handlers_arguments.go:288`, `:407`).
- A failed re-count broadcasts a fire count of 0 (`handlers_comments.go:209`), and of two handlers the one that re-counted first may broadcast last.
- A star clicked on the watchlist and answered after a change of tab takes its argument out of the list shown then (`dashboard/page.tsx:159-163`), and can leave a page of it empty and without buttons; `StrandedOnlyIf` names the case.
- A failed profile or ticket request on reconnecting ends all further attempts (`GiveUp`).
- A submit button stays enabled while its request is under way, so a comment can be posted twice (the model posts each comment once).
- The socket's handler closes over the `user` of the first render, which is null, so a fire from another tab of one's own never sets `user_has_fired`.

## 7. What is not modelled, and the plan

Done: `FireReaction` with its abstraction and proofs, `Realtime`; `Cache`, `Session`, `RefreshQueue`, `DbPool`, `Thread` and `Feed`, all with proofs.

Planned, in this order:

1. `ArgumentScore`: the value of `arguments.logic_score`, computed by sub-selects that may be older than the row they overwrite. It composes with `FireReaction`'s transactions.
2. `WsTicket` and `LoginLimiter`: expiry and counters.
3. In the browser: the counts of `SWING_SCORE_UPDATE`, the notification bell, the dialog's chart and its zoom.
4. The hazards in `PROJECT.json` that no property covers yet belong to these modules.

Proofs planned: the safety half of the liveness properties (in every state that is not done, some step of the right process has its guard true), as far as it can be said without ENABLED; the theorems of the modules above.

Left out for good: password hashing, encryption and JWT signing (library calls without state), rendering, statistics (read-only queries), routing and configuration, the load test.
