# Verification of generic-go-mcp

TLA+ models of `generic-go-mcp`, a Go library for Model Context Protocol servers: a
stateless JSON-RPC server (`src/mcp`) behind a stdio, UNIX-socket or HTTP transport
(`src/transport`), with an OAuth layer for HTTP (`src/auth`). TLC checks the modules on
small instances; TLAPS proves every safety property that these runs hold up, and both
refinements, for every value of the constants.

    tlc -config StreamSafety.cfg MCStream       # runs: see the table below
    tlapm StreamProofs.tla                      # proofs
    tlapm CatalogProofs.tla                     # and HeaderValuesProofs, HttpExchangeProofs, OAuthProofs,
                                                # ServerProofs, UnixListenerProofs

## The system and its parts

| Part | State | Operations | Talks to |
|---|---|---|---|
| Stream transport, `transport/stream.go` | table `inflight` (id -> CancelFunc), `writeMu`, `wg`, one goroutine per message | `serve`, `handleCancelled`, `writeLine` | client over a byte stream; `HandleMessage` |
| stdio binding, `transport/stdio.go` | one stream, one context | `Start`, `Stop` | stream transport |
| UNIX listener, `transport/unix.go` | `conn`, `cancelConn`, `stopCh`, `wg` | `Start`, `acceptLoop`, `Stop` | one stream transport per connection |
| HTTP transport, `transport/http.go` | one response writer per POST, keep-alive goroutine | `handlePost`, `WriteNotification`, `WriteMessage` | `HandleMessage`, auth middleware |
| Server dispatch, `mcp/server.go`, `meta.go`, `discover.go` | none between requests | `HandleMessage`, `ParseRequestMeta` | registries, broker |
| Tool registry, `mcp/tools.go` | tools, functions | `Register`, `Unregister`, `tools/list`, `tools/call` | broker, MRTR |
| Resource registry, `mcp/resources.go` | slice and map under `mu` | `Register`, `Unregister`, `NotifyUpdated`, `resources/list`, `resources/read` | broker |
| Broker, `mcp/subscriptions.go` | set of subscriptions, a channel of 16 each | `subscribe`, `unsubscribe`, `broadcast`, `subscriptions/listen` | registries, transports |
| Pagination, `mcp/pagination.go` | none (offset in the cursor) | `paginate` | list handlers |
| Multi round-trip requests, `mcp/mrtr.go` | none (signed `requestState`) | sign, verify | `tools/call` |
| Header codec, `transport/headers.go`, `mcp/xmcpheader.go` | none | encode, decode, match | HTTP, `tools/call` |
| OAuth, `auth/` | login states, codes, tokens, users in a store | authorize, callback, token, refresh, middleware, admin | GitHub, HTTP |
| Config, logging, examples | none of interest | | |

How they interact: a transport calls `HandleMessage` once per message, from a goroutine of
its own on streams. Mutators (any goroutine of the embedding program) change a registry
under its lock and, after releasing it, call the broker, which puts a notification into the
channel of every subscription that wants it, or drops it when the channel is full. A
`subscriptions/listen` handler empties its channel into the transport until its context is
cancelled. Contexts are what ties the parts together: a stream cancels one request's context
on `notifications/cancelled`, the UNIX listener cancels a connection's on replacement and on
`Stop`, stdio on `Stop`.

What is hard, and what makes each part correct:

* **Stream**: goroutines, the read loop, a client that hangs up or stops reading, and Stop
  run in any order. Lines must stay whole; a cancellation must reach the request it names and
  no other; the loop must never be held up by handlers; `serve` must leave nothing behind; the
  connection must end when it is stopped or its input ends.
* **UNIX listener**: accept, replacement, hang-up and Stop race over `conn`. One connection
  is live at a time, replaced ones end, Stop ends everything.
* **Registry, broker, listen, pages**: changes, notifications and page requests interleave,
  and notifications are dropped. Slice and map agree; a client that follows list_changed
  never keeps a stale copy with nothing on its way; no mutator waits for a client; no
  subscription leaks.
* **HTTP exchange**: the upgrade to an event stream happens once, before anything else is
  sent; keep-alive comments stay between events and within the exchange.
* **tools/call, MRTR**: the tool may change between lookup and call; a `requestState` is
  accepted for the same tool, arguments and principal only, until it expires.
* **OAuth**: codes and login states are used once, refresh tokens rotate, with store
  operations that are separate transactions and may fail in between.

## Modules

| Module | Models |
|---|---|
| `Stream` | one connection of the stream transport, with the client at its other end |
| `MCStream` | the ids and constants of its runs |
| `Session` | what the client of one connection may read, as the comments promise it; implemented by `Stream` |
| `StreamProofs` | theorems about `Stream`, its refinement of `Session` among them |
| `Broker` | resource registry, broker, listen handlers |
| `Catalog` | `Broker` with `resources/list`, `paginate` and clients that keep a copy of the list |
| `MCCatalog` | the filters of its runs |
| `CatalogProofs` | theorems about `Broker` and `Catalog` |
| `UnixListener` | accept loop, connections and Stop of the UNIX transport |
| `UnixListenerProofs` | theorems about `UnixListener` |
| `Response` | what the client of one POST may be sent, as `ResponseWriter` promises it |
| `HttpExchange` | one POST, from `handlePost` to the end of its response; implements `Response` |
| `MCHttpExchange` | the kinds of request of its runs |
| `HttpExchangeProofs` | theorems about `HttpExchange`, its refinement of `Response` among them |
| `HeaderValues` | header codec and comparison of `x-mcp-header` values, as operators |
| `HeaderValuesProofs` | theorems about the codec |
| `Server` | a request from its HTTP headers to its reply: checks, dispatch, `tools/call`, `resources/read`, round trips |
| `MCServer` | a catalog and some sixty requests |
| `ServerProofs` | theorems about `Server` |
| `OAuth` | the authorization server: registration, login, code and refresh grants, middleware |
| `MCOAuth` | the handlers of its run, and their symmetry |
| `OAuthProofs` | theorems about `OAuth` |

`Catalog` composes: it EXTENDS `Broker`, whose actions it takes over, and adds the list
handler and the client. `UnixListener` keeps of a connection what `Stream` says of its end.
`Server` EXTENDS `HeaderValues`, through which its requests and its checks speak of headers.
`HttpExchange` begins where `Server` ends, with a handler that writes, and is shown to
implement `Response` (`Promised == INSTANCE Response WITH stage <- Stage`). `Stream` likewise
implements `Session` (`Promised == INSTANCE Session WITH garbled <- bad > 0`).

Beside some definitions stands a variant of it under another name (`UnlockedBody`,
`UnfiledAll`, `ShortPage`, ...): the faulty form, as a slip in the code would make it. Nothing
uses these; they are put in the place of the definition below them, one at a time, to see
that the properties notice.

### Stream

| Model | Code |
|---|---|
| `pc`, `line`, `target` | the read loop of `serve`, its current line, the CancelFunc found by `handleCancelled` |
| `h[r]` | the goroutine of message `r`: about to write, between a line and its newline, in the listen `select`, back from the handler, done |
| `inflight` | the table; an entry is the request whose CancelFunc is filed |
| `cancelled`, `stop` | a request's own context, the connection's |
| `writeMu`, `out`, `last`, `got` | the writer's lock; chunks on their way; what the client has read |
| `input`, `sent`, `cancels`, `bad`, `client` | the client's side |

Each of these steps of the code is an action because something may happen between it and the
next: taking a line, looking up a cancellation, calling the CancelFunc, filing and starting a
request, writing a line, writing its newline, taking an event, the deferred cleanup, `wg.Wait`.
A write waits while the pipe is full and fails once the connection is closed or the client is
gone. `HandleMessage` is reduced to what a connection sees: a call writes one response, a
listen acknowledges and relays, a notification writes nothing. Empty lines, `inflight` keys as
text and malformed `notifications/cancelled` (both ignored by the code) are left out. The
cleanup's `cancel()` and its delete are one action: nothing looks at the first between them
that does not at the second, since the handler has returned.

`Session` has no goroutines, no table and no pipes: its steps are the client's. It sends, and
reads a message that it may read by then (a response to a call not answered yet, the
acknowledgement of a listen or, after that, an event, a parse error if it has sent garbage), or
the newline after it. `sent`, `last` and `got` are those of `Stream`; everything the server does
until the client reads is a stuttering step. `MessageHandler` asks for one `WriteMessage` per
request; `subscriptions/listen` writes none, by the "Simplification" in its own comment
(`subscriptions.go:125`), and `Session` follows that comment.

### Broker and Catalog

`list` and `functions` are the registry, `todo[m]` what mutator `m` has still to do after
unlocking, `subs`, `ch` and `lh` the broker, the channels and the listen handlers, `wire` the
stream to a client. A version stands for metadata and content. `ContentChanges` is the
embedding program changing what a resource function returns, after which it calls
`NotifyUpdated`. A page request and its computation on a snapshot of the list are one step,
`ListPage`; its answer travels in `reply` and may be overtaken by notifications. `paginate` is
modelled over offsets; `next = 0` stands for the absent cursor, which no later page can have.
The client is the one the comments of `Register` and `Unregister` have in mind: it starts
paging when the listen is acknowledged, again on every list_changed, and when its cursor is
refused.

### UnixListener

`st`, `parked`, `gone`, `closed` and `done` are the connections: where each stands, whether a
listen is open on it, whether the client has hung up, whether the server has closed it,
whether its context is cancelled. `loop` and `new` are the accept loop, `stop` is Stop. What
`Start` does before the loop exists is the initial state. A connection waiting in the
listener's backlog is reset when the listener is closed.

### Response and HttpExchange

| Model | Code |
|---|---|
| `h` | `handlePost` and the handler it calls, and then net/http: the write it is at, `return`, `finish` (ServeHTTP has returned), `over` |
| `mu`, `started`, `done` | the fields of `httpResponseWriter` |
| `ka`, `tick` | the goroutine of `keepAlive`: its select, waiting for `mu`, its write; its ticker's channel |
| `ctx`, `stop` | the request's context; whether `Stop` has called `server.Close` |
| `out`, `last`, `seen`, `client` | parts of the response on their way; what the client has read; whether it reads |

A part is what a comment could be inserted between: an event is its data and its blank line.
A write waits while `OutCap` parts are on their way and loses its part once the connection is
broken; `upgradeToSSELocked`, `writeSSEEventLocked`, `WriteMessage`, `closeDone` and the three
steps of `keepAlive` are actions. `Response` knows nothing of goroutines: it says in which
order parts may come. The refinement maps its `stage` to what the client has read (`Stage`);
the parts that are still on their way are stuttering steps. The deferred `closeDone` of
`WriteMessage` and its `Unlock` are one action: `keepAlive` sees `done` at the earliest then.

### HeaderValues and Server

A header's text is a sequence of characters, each a class that the code tells apart: the
pieces of the sentinel `=?base64?` `?=`, blanks, visible and other characters, the texts of
booleans and numbers. Base64 maps character `c` to `c + 20`, so that a plain string may be the
encoding of another, and contain the sentinel. Go's decoder is not strict: it ignores the bits
that the padding of a text leaves unused, so that "QR==" is "A" as "QQ==" is. `Stray` are the
characters with such bits; `DecodeString` takes one at the end of a text, and `TextsOf(s)` are all
texts that decode to `s`. `Trimmed` is net/http's.

| Model | Code |
|---|---|
| `reg` | both registries: the version registered under a name or URI |
| `Def[v]` | a tool's definition: does it annotate an argument, under a canonical header name, of which type; does the function ask the user |
| `r.name`, `r.uri`, `r.nameHdr` | `params.name` and `params.uri`, of which a body may have both, and Mcp-Name |
| `r.arg`, `r.paramHdr` | the annotated argument, and the lines of its header, of which `collectHeaders` keeps the first |
| `req`, `pc`, `def`, `ran`, `reply` | one request: where it stands, what `Get` returned, whose function was called, the error or result |
| `key`, `now`, `issued` | `RequestStateKey`, the clock in half-seconds, the `requestState` that the client keeps |
| `history`, `steady` | (ghosts) what was registered during the call |

`HttpRefusal` and `ParseRefusal` are every early return of `handleMCP`, `handlePost`,
`validateHeaders` and `HandleMessage`, in their order. Mcp-Name is compared with the name in
`params`, or with the URI if there is none (`bodyName`), whatever the method; what is looked up
is the URI for a read and the name for a call (`LooksUp`). A call looks its entry up, and calls or
reads it, in two steps, as the code takes the registry's lock twice; between them the registry
changes. `verifyRequestState` sees whole seconds (`Unix`), the instants are half-seconds: the
truncation is part of the model. The HMAC is the key it was made with. A restart ends what is
in flight and keeps the key if it was configured.

### OAuth

| Model | Code |
|---|---|
| `clients`, `store`, `users`, `index` | the BoltDB buckets; `store` holds requests, codes, access and refresh tokens |
| `app`, `login`, `codeUser`, `tok` | what the items say: the client and account of a flow, the user in its code, what the tokens of a grant say |
| `vouched` | the flows whose GitHub code has been exchanged |
| `h[p]` | a handler goroutine: its next store operation, and its locals |
| `delivered` | what clients have been sent |
| `expired`, `faults`, `spoilt`, `raced` | what has gone wrong, and which logins it has touched |

Each `storage.go` operation is one BoltDB transaction and one action; whatever the code
decides between two of them is part of the first. A write may fail: where the code ignores the error the
handler goes on, where it does not it ends. A response may be lost, an item may expire, and a
crash ends all handlers and keeps the buckets. `spoilt` remembers for each flow what has happened
to it: two requests that presented the same item, a deletion that failed, a `StoreUser` that
failed, anything else. A property excuses only what would make it false of this code:
`OneCredential` the flows that are `doubled` (overlapping requests, failed deletions; not crashes,
lost responses or failed writes), `DeliveredTokensWork` the `unstored` ones (`StoreUser` failed)
for access tokens and the `excused` ones (any of these) for refresh tokens,
`TokensTraceToLogin` none. What they excuse really happens (see Observations). An account is its
GitHub login, by which the code looks users up: that GitHub lets a login be renamed, and taken by
someone else, is outside the model. A browser goes through GitHub once per flow. Flows are numbered
in the order in which they begin, which loses nothing.

## Runs

| Run | Shows | Instance |
|---|---|---|
| `stream_safety` | what the client reads is what `Session` allows; table, cancellation, end of serve | a socket; a call, a listen, a notification; one bad line; one cancellation per id; pipes of 1 |
| `stream_live` | calls answered, listens cancelled, input consumed, calls end at the end of input; Stop ends the connection, also while the read loop waits to write | a socket; a call and a listen, which may be cancelled, or a call and an unparsable line; endless notifications; a client that may stop reading |
| `catalog` | registry, subscriptions, no lost change; the client's copy converges; mutators never wait | 2 URIs, 2 mutators, 2 versions, a channel of 1, pages of 1; a client that may stop reading |
| `unix` | one live connection; Stop leaves nothing; replaced connections end; Stop returns when nothing raced with it | 3 connections |
| `http` | a response is one that `Response` allows; calls are answered; listens end; `keepAlive` keeps quiet streams alive and is not left behind | every kind of request; 2 notifications; 2 parts on their way; a client that may stop reading or hang up; Stop |
| `server` | functions run only when headers and body agree; conforming requests are not refused; answers are current; a `requestState` is good for its own call, in time | 2 tools, 1 resource, 4 versions, some sixty requests, with names that are not the URI, repeated headers and slack base64; TTL 1 s; 2 s; one change per call; 2 keys |
| `oauth` | tokens descend from a login; one credential per login, over crashes and lost responses; what is delivered works; one user per account | 2 handlers, 2 flows, 2 clients, 2 accounts of which one is allowed, 2 grants, 1 fault or expiry |

Runs that end in a counterexample:

| Run | What TLC shows |
|---|---|
| `stream_reuse` | A client that has read a response may use its id again. The old goroutine has not yet run its deferred delete, and then deletes the *new* request's entry (`stream.go:102`): the new request cannot be cancelled. |
| `stream_eof_listen` | On end of input `serve` waits for handlers (`stream.go:113`) and nobody cancels a listen's context: a stdio server whose client closed stdin does not end. On a UNIX socket a client that hangs up leaves its listen, and the goroutine of its connection, until the next client connects, for the same reason (`unix.go:143-147`). |
| `unix_stop_race` | A connection accepted before Stop closes the listener may be installed after Stop looked at `t.conn` (`unix.go:126`): nobody closes it, and Stop waits for as long as its client stays. |
| `http_late_comment` | `keepAlive` looks at `done` only in its `select` (`http.go:509`). Once it has taken a tick it waits for `mu`, while the handler answers and ServeHTTP returns, and then writes through a `ResponseWriter` that is no longer its own. |
| `server_name` | `validateHeaders` compares Mcp-Name with `params.name` first (`http.go:359`), `resources/read` goes by `params.uri`: with both, Mcp-Name says one resource and another is read. |

Bounds. Two requests and a notification give every pair of goroutine kinds, and a third
writer; the table needs two ids to tell an entry from another's. Pipes of one place make every
write a possible wait. A channel of one place makes dropping as likely as can be, and pages of
one entry put a page boundary between any two entries; two versions are two entries, or one and
its replacement or re-registration. Three connections are a live one, the one it replaced and
one being accepted. Two listeners never meet (each has its own channel, handler and stream),
so one is enough. In `stream_live` a client that sends an unparsable line neither listens nor
cancels (`Mixed`); `stream_safety` has them together. The reply to such a line is written by the
loop, which waits there for a client that does not read: `InputConsumed` excepts it, and
`StopCompletes` says that Stop gets it out. A listen relays for ever: there is always another
event, so that `CancelEndsListen` is about a `select` that has both a done context and an event
before it each time. Nothing counts the events; the pipe bounds those on their way.

For `http`, two notifications are an upgrade and an event after it, two parts make a write wait
between the parts of an event, and one tick in the channel is all a ticker keeps. For `server`,
requests share only the registries, so one in flight with a changing registry sees all that many
would; half-seconds and a TTL of one second give every relation of an expiry to its truncation;
a client keeps one `requestState`, the first, so that a retry meets its own and the other call's. For
`oauth`, two handlers overlap in every pair of steps; two flows are two logins of one account or
of two; two grants are a first one and its rotation, or one for each flow; one fault at a time, at every
point. More of each is what the theorems below are for.

Why a full channel loses nothing for a client that asked for list_changed only: what is
dropped is announced by what is already in the channel, which the client reads later than the
change. `NoLostChange` says it as an invariant, and `catalog` checks it with a channel
that overflows. It takes that filter: for a client that also watches resources, 16 unread
updated notifications fill the channel and a list_changed may be dropped for good.

## Fairness

Goroutines are scheduled: weak fairness for the loop, each handler, the accept loop, Stop once
called, and a mutator that has unlocked. Strong fairness where Go gives it: a
goroutine waiting for `writeMu` is served eventually (`sync.Mutex` hands the lock to a waiter
after a millisecond), and a `select` in a loop does not pass over a ready case for ever, since
it picks at random (`ListenEnds`, `ListenReturns`). Clients
owe nothing: they may stop reading at any time (`StopReading`, `GetsStuck`), and the properties
that need a reader say so. A client that does read does not pause for ever. No client has to
send, cancel or hang up, and nobody has to call Stop.

For `http`: the handler, `keepAlive`, the ticker, net/http's flush and its cancellation of the
context of a broken connection run on; `KeepAliveLock` and `LockMessage` have strong fairness
(`sync.Mutex`), and so have `KeepAliveDone` and `ListenReturns` (`select`). A client that reads
goes on reading, but may stop or hang up at any time; nobody has to call Stop. `server` and
`oauth` check safety, and assume no fairness.

Most runs switch deadlock checking off: a connection that has ended, a registry at rest, a
stopped listener and used-up logins really stop. `http` and `server` check it; an exchange that is over
stutters explicitly (`Over`), a server always has a request to take.

## Proofs

`StreamProofs` proves, for any set of messages and ids, any pipe sizes and both kinds of
connection:

| Theorem | States |
|---|---|
| `TypeCorrect` | `[]TypeOK` |
| `TableHasNoStaleEntries` | `[]NoStaleEntries`, whatever ids are reused |
| `CancelFindsUnlessOverlapped` | `[]CancelFindsRequest`, if no two requests with one id ever run at the same time (`NoOverlap`) |
| `CancelAlwaysFinds` | the same, if no two messages share an id |
| `ServeAlwaysWaits` | `[]ServeWaits` |
| `ListenNeverDisturbed` | `[]ListenUndisturbed`, whatever ids are reused |
| `FramedAlways` | `[]Framed`: lines are whole, also those still on their way |
| `SessionKept` | `SeenInOrder`: a connection implements `Session`, whatever ids are reused |

They rest on `ConstantsOK` and `NamesDiffer`, the assumptions of `Stream`, which TLC evaluates
in its runs. `Typed` adds to `TypeOK` what the loop's locals are at each of its steps.
`NoStaleEntries` is inductive beside it. `CancelFindsRequest` is not, as it speaks of the
moment of the lookup only: `FiledWhileRunning`, every running request has its entry, is, under
`NoOverlap`. The counterexample of `stream_reuse` is a client that breaks `NoOverlap` and nothing
that JSON-RPC asks of it; the server could give it by deleting the entry before it writes the
response.
`ServeWaits` needs that writers are between lines when they are done: `MutexOK`, whoever has
written a line without its newline holds `writeMu`, which in turn needs that a message is
started once, `DispatchedOnce`, a statement about its whole way from client to goroutine.
`Framed` needs the lock to be free exactly between lines, `BetweenLines`, which holds until
the stream breaks; from then on nothing is written, `BrokenStays`. `ListenUndisturbed` speaks of
the end of a listen, long after its cause: `Recorded` follows a cancellation from the client
through the pipe and the lookup to the request that the loop is about to cancel, and `Blameless`
says of every cancelled context, not only of ended listens, that there is a reason for it.

`SessionKept` maps each step to one of `Session` or a stutter (`StepIsPromised`). Whether the
client may read what comes next depends on everything before it on the stream, which is what
`SeenBefore(c, k)` says of a chunk: read, being read, or ahead of place `k` in the pipe. The
invariant `Lawful` adds to that of `Framed` that only handlers of the right kind write (`Kinds`,
`Own`), that a response or acknowledgement is on the stream once and not before it is written
(`Once`), that every event and every relaying handler has an acknowledgement before it
(`AckFirst`), and that a parse error has a bad line behind it (`Garbled`). The steps that touch
the stream are few (`Outputs`), and so are those of a handler (`Paths`); `AppendSeen` and
`ReceiveSeen` say what writing and reading do to `SeenBefore`.

`CatalogProofs` proves, for any number of URIs, mutators and listeners, any page size and any
capacity of channels and streams:

| Theorem | States |
|---|---|
| `TypeCorrect` | `[]TypeOK` |
| `RegistryAlwaysConsistent` | `[]RegistryConsistent` |
| `SubscriptionsNeverLeak` | `[]NoLeakedSubscription` |
| `NoChangeIsLost` | `[]NoLostChange`, if every listener asks for list_changed and nothing else |

The first three are inductive together, with `HasWhatItWrites`: a handler holds a topic exactly
when it is about to write it, or else it would write "none" to a stream. What `removeLocked`
does to the slice is `CutOut`; that the rest still agrees with the map is `RemoveLockedOK`. The
fourth speaks of clients that believe they are up to date; `CaughtUp` is what leads there.
While no list_changed is on its way to a client, what it has fetched so far is a prefix of the
list as it is (`PrefixHeld`), and a page under way is the next piece of it; so a change must put
a list_changed on its way before it is seen. It does, and a broadcast that a full channel drops
takes nothing away, since a channel of such a stream holds nothing but list_changed
(`Filtered`). The lemma `LostInvariant` has the finer statement: `CaughtUp` holds of every such
listener whatever the others ask for. The hypothesis is needed: with a URI in its filter, a
client's channel may be full of updates and drop the list_changed (`subscriptions.go:70`).

`HttpExchangeProofs` proves, for any kinds of request, number of notifications and capacity,
`[]TypeOK` (`TypeCorrect`) and the refinement `RespondsInOrder` (`RespondsInOrderAlways`): an
exchange implements `Response`. `Response` looks at what the client has read, the code at what
it has written; `InForm` joins them: each part on its way may follow those before it
(`InOrder`), and after the answer comes only the end (`AnswerIsLast`). That the writers keep to
it is `WritersAgree`: where `handlePost`'s handler and `keepAlive` stand says how far the response
has come, as long as the connection is whole. `Apart` is the lock's part in it: while one of the two writes
an event the other does not, and `keepAlive` runs only after the upgrade.
`KeepAliveAlwaysReleased` is the safe half of `KeepAliveEnds`: once ServeHTTP has returned, by
whichever path, a `keepAlive` that still runs finds `done` closed.

`UnixListenerProofs` proves, for any set of clients, `[]TypeOK` (`TypeCorrect`),
`[]OneLiveConnection` (`OneLiveConnectionAlways`) and `[]StopLeavesNothing`
(`StopAlwaysLeavesNothing`). The inductive invariant joins to these what the accept loop holds
between its steps: the connection it has just accepted is not installed yet (`AcceptedIsNew`),
every accepted connection but that one and `t.conn` has been closed (`OthersCut`), and nobody
waits in the backlog of a closed listener (`NoBacklog`). `OnlyAcceptedEscapesStop` is about steps:
if the loop holds no connection when Stop looks at `t.conn`, all that are served are cut by then,
and no later step adds another. It is the premise of `StopCompletesUnraced`, and says that
`unix_stop_race` shows the only race there is.

`HeaderValuesProofs` proves about the codec, for strings of any length:

| Theorem | States |
|---|---|
| `DecodeReversesEncode` | decoding what was encoded, after net/http has trimmed it, gives the string back without an error |
| `DecodesOnlyItsForms` | a header that decodes to `s` is `s` itself or, between the sentinels, one of `TextsOf(s)`: its encoding, but for unused bits at the end |

Both come down to where a string's first and last non-blank characters are (`Trimmed`), which
exist because a set of naturals has a least and, if bounded, a greatest element (`HasLeast`,
`HasGreatest`), and to what `HasPrefix` and `TrimSuffix` see of a text that stands between the
sentinels.

`ServerProofs` proves every property of the run `server` (`TypeCorrect`,
`AlwaysRunsOnlyAgreed`, `ConformingAlwaysAccepted`, `AnswersAlwaysCurrent`, `ReplacedNeverLost`,
`FreshAlwaysAccepted`, `OnlyOwnState`) for any set of requests of the types in `RequestsOK`, any
TTL, any catalog, any number of changes and keys. `Typed` adds to `TypeOK` the shape of the
variables, `Stages` what a call has and has not yet at each `pc`. `SignedForTTL` ties the expiry in a
`requestState` to the instant of signing: rounding down both `now` and the expiry is what
makes a state live for less than TTL + 1 seconds (`StateBound`) and no less than TTL
(`FreshStateAccepted`). `Followed` says that `history` ends in what is registered now
and holds `def` once the lookup has happened, without which `AnswersCurrent` and `NeverLost`
are not inductive. `Agreed` carries the checks of the headers from `Receive` to the function, and
uses `DecodesOnlyItsForms`; `ConformingAlwaysAccepted` uses `DecodeReversesEncode`. What the two
promise stops where the code does. `RunsOnlyAgreed` speaks of Mcp-Name for bodies whose `params`
has a name exactly when the method takes one (`server_name` shows that it must), of the first line
of a parameter's header, and of the definition that was looked up; `ConformingAccepted` of
clients that put a name into `params` only where the method takes one, and of tools whose
annotation is neither on a number nor spelt in a form that is not canonical.

`OAuthProofs` proves, for any number of handlers, logins, clients and grants, and any number of
faults:

| Theorem | States |
|---|---|
| `TypeCorrect` | `[]TypeOK` |
| `TokensAlwaysTrace` | `[]TokensTraceToLogin` |
| `AlwaysOneIdentity` | `[]OneIdentity` |
| `AlwaysOneCredential` | `[]OneCredential` |
| `DeliveredTokensAlwaysWork` | `[]DeliveredTokensWork` |

They rest on `ConstantsOK`. `Descends` is the strengthening for the second: every item of the
store (`GoodItem`) and every handler at every stage (`GoodHandler`) already has behind it the
facts that the tokens it may still make will need. Facts are never taken back (`Persists`), so
that a step has to be looked at only for what it adds (`DescendsBy`). `Identified` adds, for the
third, that a handler about to store a user has the one the index has, or none is there yet, or
its account is marked as raced. `Linear` is for the fourth: a login that is not `doubled` can go on in one way only
(`OneWay`), by one item in the store or by one handler, which knows what it must not leave
behind (`Standing`); `OneCredential` alone does not say that a handler that has read a refresh
token works on it alone. Every handler step is then one use of `BusyKept`, every beginning of a
handler one of `FindsKept`. `DeliveredTokensWork` needs to know of a handler that answers that
what it sends is in the buckets, of one that has taken a refresh token that it still has it
(`Holding`), and of every code and token that its user exists or storing it has failed
(`KnownUsers`). A refresh token that was sent is then in the store, expired, being exchanged, or
replaced by one that was sent too (`Usable`), and the last one cannot have been replaced.

Only model-checked: every liveness property, which rests on fairness and ENABLED, out of the
prover's reach; and `NoLostChange` beyond the filters of `NoChangeIsLost`, which does not hold
there. Induction over data is out of reach too, so that
`HeaderValuesProofs` reasons about positions in a string instead of its construction.

## Observations

Met while modelling; where no property is named, no run shows them.

* The annotation of an argument of type `number` makes every call of the tool a HeaderMismatch
  (`mcp/xmcpheader.go:52`), as its message says; `Register` takes such a tool.
* An annotation that is not in canonical form, `TenantID` for one, is looked up as it is spelt
  (`mcp/xmcpheader.go:136`) among net/http's canonical names: every call with the argument is a
  HeaderMismatch (`Unusable`).
* A tool replaced between `Get` (`mcp/tools.go:278`), by whose definition the headers are
  checked, and the call by name (`mcp/tools.go:305`) runs with headers that were never compared by
  its own annotation. `RunsOnlyAgreed` is about the definition that was looked up.
* A `resources/read` whose Mcp-Name is its `params.uri` is refused if `params` has a name besides
  (`transport/http.go:359`), though HTTP-TRANSPORT.md says "`params.name` or `params.uri`".
* Of a header in several lines `collectHeaders` keeps the first (`transport/http.go:404`): a second
  `Mcp-Param-*` line that differs passes, and a proxy may read that one. `RunsOnlyAgreed` speaks
  of the first.
* `DecodeHeaderValue` is not strict (`transport/headers.go:40`): several texts decode to one string.
* A resource unregistered between `Get` and `Read` is an InternalError (`Gone`), while a URI
  that was never there is InvalidParams (`mcp/errors.go:10-11`).
* `inputResponses` without a `requestState` are accepted: a tool may be given answers nobody
  was asked for.
* Header and argument are compared as float64: integers beyond 2^53 may agree without being equal.
* `auth/errors.go:51` hands `http.Redirect` a nil request, which panics: net/http recovers, and
  the connection is dropped instead of the browser redirected.
* "Delete code (one-time use)" (`auth/handlers.go:239`) does not hold of two token requests with
  one code that overlap, since Get and Delete are separate transactions, nor when the Delete
  fails, since its error is ignored: the code, or the refresh token (`auth/handlers.go:326`), is good
  for more tokens (`doubled` in `OneCredential`). Two callbacks with one request overlap likewise.
* Two first logins of one account that overlap make two users (`raced` in `OneIdentity`), whose
  tokens work.
* The error of `StoreUser` is ignored: its tokens are refused by the middleware, which
  looks for the user (`unstored` in `DeliveredTokensWork`). A lost response to a rotation locks the client out.
* `/admin/clients/{id}` is registered on a path that does not match it (`auth/admin.go:13`, `21`).
* `Stop` of the HTTP transport says "gracefully" and calls `server.Close`, which waits for no
  handler.

## Not modelled

See PROJECT.json, `components`. The text of JSON and of cursors (which reject what `paginate`
did not make); CORS headers; the metadata documents of the authorization server, which are
constants; what discovery returns; logging; configuration, which is read once; the in-memory
writer of `transport/buffered.go`; the examples, but for the shape of a tool that asks its user. The
session store of `auth/` is never called. PKCE, the redirect URI and the resource indicator are one
test that may fail (`BurnCode`). GitHub is a service that vouches or does not. A handler that
panics ends the whole program on a stream and one request on HTTP; only the panics of OAuth's handlers are modelled, as their end.

## Plan

What is left, most important first:

1. An abstract specification of a replica that follows a catalogue, which `Catalog` implements.
2. More safe halves of liveness properties, as `KeepAliveAlwaysReleased` is one: that a socket
   connection which is stopped has no goroutine waiting for anything but another's next step.
3. The text of cursors, and `paginate` on what a client may send in one.
