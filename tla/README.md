# Verification of zen-proxy

zen-proxy is a single Go binary between coding agents (Claude Code, Codex, any
Chat Completions client) and the model services OpenCode Zen and OpenRouter. It
translates three protocols into one, streams the answers back, carries requests
over a Bun sidecar process where the service asks for it, and keeps the last 100
requests for a terminal dashboard. This directory holds TLA+ models of its
logic, the TLC configurations that check them, and TLAPS proofs.

`PROJECT.json` lists the components, runs, mutants, theorems, hazards and
findings, and for every definition the source lines it stands for.

    tlasany M.tla                          parse a module
    tlc -workers 2 -config X.cfg M.tla     check a configuration
    tlapm X_proofs.tla                     check the proofs about module X

## Inventory

| Component (`src/internal/proxy`) | State | Operations | What is hard | What makes it correct |
|---|---|---|---|---|
| Bun sidecar transport (`bun_transport.go`, `bun_sidecar.ts`) | process, stdin pipe, endpoint, start error, guarded by `bunMu`; the shared client and its endpoint field; each request's goroutine | start, health check, forward, invalidate, retry once, fall back to uTLS | one process shared by all requests; it crashes, fails to start, does not answer, is restarted by two requests at once; the endpoint field is overwritten under other requests | a request is delivered at most once; no process is orphaned; nothing is forwarded to an endpoint that has not listened; nobody waits for ever |
| Responses stream (`responses.go`) | current reasoning, current text, tool items, output list | `startX`/`finishX` closures per chunk part, completion, failure | the upstream sends parts in any order, interleaves tool calls, stops anywhere | no piece lost or given to another item, closed items stay closed, `response.completed` lists all, in order |
| Anthropic stream (`anthropic.go`) | thinking, text and tool blocks, stop reason | one handler per chunk part, closing helpers | as above | blocks of different kinds are never open together, all are stopped before the end, the stop reason tells whether a tool is to be run |
| Request translation (`responses.go`, `anthropic.go`) | messages so far, pending reasoning | one case per item or block | reasoning, calls and outputs of several turns must meet again in the right messages, and the items of a streamed answer come in any order | outputs follow their calls, calls carry their reasoning |
| Handlers, upstream execution, SSE reader (`completions.go`, `responses.go`, `anthropic.go`, `upstream.go`) | tool renames, the completion being put together, whether the status is written | shape tools, ask; copy, relay, translate, aggregate or decode the answer | names are changed on the way out and back; calls interleave; the upstream fails before, with or after its status; the client leaves | the client gets its own names, the whole answer, and is told of failures; a client that left holds nobody |
| Request inspector (`debug.go`) | bounded history, one subscriber's channel; one trace per request | Begin, Record*, Finish, Subscribe; captures that record when a body is closed | all requests write concurrently; a full channel drops changes; Begin has two critical sections; every way through a handler must close its body | the history is the latest, requests never wait for the dashboard, a finished trace is whole |
| Dashboard (`tui.go`) | its own list, cursor | snapshot, upsert, select | changes queued before the snapshot, dropped or late ones | rows catch up, the cursor stays on its trace |
| Screen: layout, detail panel and JSON tree (`tui.go`, `json_tree.go`, `models_view.go`) | size, selected request, panel, cursor, scroll position, two caches | keys, clicks, resizing, changes of traces | the body changes under cursor, folds, scroll and caches; `handleMouseClick` repeats the formulas of `View` for every layout | a click finds what is drawn, the cursor is on a drawn node |
| Configuration, model catalogues (`config.go`, `model_metadata.go`, `completions.go`) | list of models, metadata | two concurrent downloads, enrichment, free and other models, choice of the fallback model, the Codex catalogue | either download fails; formats and providers differ; models without a window or an id | the fallback is current and free where promised; the provider's windows win; Codex is offered every named model with a usable window |
| Update check (`update.go`) | none | compare versions | rules of semantic versions | exit code tells whether the release is newer |
| Startup and shutdown (`server.go`) | server goroutine and its error channel | `Run` | the server stops before, during or after the dashboard | exit codes; the fallback model is settled before a request is served |
| Rest | | logging, clipboard, text selection, redaction, installer | | not modelled, see below |

A request enters one of three handlers, which translate it, pass it to
`executeUpstream`, and turn the SSE body into the events of the client's
protocol. `executeUpstream` uses the shared sidecar client, the uTLS client or
plain HTTP. `withDebug` wraps every handler and records the request in the
`Debugger`, which publishes each change to the channel that the dashboard's event
loop reads. A capture around each body records it when the handler closes it.
`Run` builds all of it once, from the configuration and the two
catalogues.

## Modules

| Module | Models | State and actions |
|---|---|---|
| `Delivery` | abstract: what a transport promises | how often the upstream got each request, what the caller was told |
| `SidecarTransport` | `bun_transport.go`, `bun_sidecar.ts` | package variables by their names (`bunMu`, `bunEndpoint`, ...), operating system state (`proc`, `openPipes`, `accepted`), a program counter per request; one action per step between two points at which other goroutines can interfere, so also a step into each `Get` of the health check and one out of it |
| `MCSidecarTransport` | TLC instance | model values for requests |
| `ItemStream` | abstract: what a client of a stream may rely on | items that open, grow, close; completion, failure |
| `ResponsesStream`, `AnthropicStream` | the two streaming handlers | the handler's local variables, the events as seen by the client; one action per part of a chunk (reasoning, text, tool call, finish reason) and per end of the body |
| `Debugger`, `Dashboard` | `debug.go`, `tui.go` | `Dashboard` extends `Debugger`: a program counter per request, the history, the channel, the event loop's command and message, the rows and the cursor |
| `Layout` | `mode`, `View`'s sizes, the request list, the tab row, the lines of the model catalogue | operators: geometry of a terminal of any size |
| `JsonViewer`, `MCJsonViewer` | detail panel, JSON tree, caches, mouse | extends `Layout`: size, number of traces, selected one, their bodies, panel, cursor, scroll position, folds, cached lines; one action per handler of `Update`; every action ends with `clampScroll`, as `Update` does. A body is empty, plain, JSON, or loose: drawn as a tree because it begins with a JSON value, but not handled as JSON. `DrawnAt` says what `View` puts in a cell, `ClickedAt` what `handleMouseClick` takes it for |
| `ChatHistory` | abstract: what an upstream requires of a history | operators only |
| `ResponsesHistory`, `AnthropicHistory` | the two translations | one action per turn of the translating loop. Which item a Responses client has recorded next is restricted as little as the code does: after it has begun, an answer goes on with reasoning, text or calls in any order, as `ResponsesStream` sends them, also behind the outputs of its calls |
| `ReplayedHistory` | composes both | the protocol is chosen at the start; states the requirements once |
| `ChatExchange` | tool shaping, and the five ways an answer of status 200 takes: copied, relayed with names restored, translated, aggregated, decoded | protocol, tools offered, events received, completion or relayed events; one action per kind of event and per end of the body |
| `Exchange` | `withDebug` around a handler and `executeUpstream` | extends `ChatExchange`: where the handler is (also: waiting for a sidecar, which no context ends), whether the client is there and the server has seen its body end, the status written, the request's trace; every answer without the upstream, refusals, failures, cancellation |
| `ReleaseOrder`, `ModelCatalogue` | `update.go`; `config.go`, `model_metadata.go`, the catalogues of `completions.go` and `models_view.go` | operators: comparison of versions; lookup, enrichment, free and other models, fallback, Codex entries |
| `Startup`, `MCStartup` | `server.go` and the above | where `Run` is, the channels of the downloads, the server goroutine, the exit code |
| `SidecarTransport_proofs`, `ResponsesStream_proofs`, `AnthropicStream_proofs`, `Dashboard_proofs`, `ReplayedHistory_proofs`, `Exchange_proofs`, `JsonViewer_proofs`, `Startup_proofs` | proofs | each extends the module it is named after, and has its inductive invariant, the lemmas and the theorems |

Every definition named "Mutant" is a plausible bug in the definition that
follows it. It is used by no specification: put in its place it makes TLC find
the property violated, which shows that the run can tell.

## Runs

| Run | Instance | Shows |
|---|---|---|
| `Sidecar` | 2 requests, 4 starts, 3 crashes | at-most-once delivery, ownership of the process, endpoints, refinement of `Delivery`; no request is stuck while sidecars respond |
| `SidecarRestart` (violated) | 2 requests, 2 starts, 1 crash | a request that was refused invalidates a sidecar another request has just restarted |
| `SidecarHang` (violated) | 2 requests, 2 starts, 1 crash, with fairness | the time limit of the health check does not end it when `/healthz` is never answered |
| `ResponsesStream`, `AnthropicStream` | 2 tool indexes, 2 fragments of each source, any order | nothing lost, closing discipline, ids, order, stop reason; refinement of `ItemStream` |
| `DashboardSafety` | 4 requests, 3 at a time, history of 3, channel of 2, Begin and Finish only | history, rows and cursor |
| `DashboardLiveness` | 3 requests, 2 at a time, history of 1, channel of 1, 1 update each | requests are served, finished ones are shown |
| `ReplayedHistory` | 3 answers of at most 2 calls, in any order of their items; no text behind 4 messages | calls, outputs and reasoning stay together |
| `ChatExchange` | module `Exchange`: 3 protocols, at most 2 tools, 2 calls, 3 events, one status of refusal | names restored, an answer put together is the stream, a finished trace is whole, failures are told, a client that has left ends its request while starts end |
| `ChatRelay` (violated) | 2 events | the relay that restores names loses errors and index 0 |
| `JsonViewer` | 2 trees, one also of a loose body, 6 payloads for 2 panels, a history of 3, terminals of 40x5, 50x13 and 80x10 | caches, cursor; every click hits what is drawn |
| `Startup` | 7 models in lists of 2, 8 catalogues, 27 versions | fallback, metadata and Codex catalogue, exit code |

*Why the bounds are enough.* The safety properties are proved without the bounds
(see Proofs). The runs are there for the liveness, for the actions and the
mutants, which show that a property can fail, and because a property is
checked on an instance before it is proved. In the transport the interesting cases need two
requests and a second restart. The streams distinguish sources, one of which (tool calls) comes in
several indexes: two are enough for interleaving, two fragments for returning to
an item. The dashboard's requests overrun its history and its channel in both
runs. A history of three gives the cursor a row that is neither the oldest,
which leaves, nor the newest, which it follows; three requests at a time publish
their Begins in any order. Changes other than Begin and Finish (`Record`) are in
the smaller run. A history of messages repeats after a turn with calls and a turn
without; four messages let an answer have text before, between and behind its
calls. Two of the exchange's three tools read files: a client can have none,
one or two of them, under the name "read" or another. Three events are two
fragments of two calls, or an event on either side of a failure; the invariants
relate an event to those before it and two calls to each other, so a longer
stream adds nothing. An exchange is alone: what requests share is the transport
and the history, which have modules of their own. The viewer's bodies have a node
inside a foldable node inside the root, fit one height and not the other, and
share paths. Its terminals are one for each layout; the panel is too narrow
for two unwrapped lines, for one or for none, for the long tabs or for any in some
and wide enough in others, and the list is lower than its requests. Clicks are checked in every row
and in the columns on both sides of every edge. The startup's versions have
one for each rule of precedence.

*Fairness.* Where a run has a liveness property its specification says what is
scheduled: goroutines run (weak fairness of their steps), `sync.Mutex` is
starvation-free (strong fairness of taking `bunMu`), the 15 s of a start pass, the
10 s of a health check are seen to have passed when it comes between two `Get`s
often enough, and a connection to a process that has died ends. Nothing is assumed
of a live sidecar: `waitForSidecar` calls `Get` without a time limit, and
`cmd.Wait` follows without a `Kill`. That each `Get` ends and that a sidecar exits
when its stdin ends is `SidecarsRespond`, the premise of `NoRequestStuck`;
`SidecarHang` shows what happens without it.

Of an exchange the handler runs, meets a cancelled context and returns. The server
cancels the context of a client that has left once it has seen the end of the
request's body (`watched`): that is so for Chat Completions, whose handler reads to
the end; the other two decode one JSON value and may stop before. The wait for
`bunMu` and for a start, in `upstreamHTTPClient` and again in `RoundTrip`, has no
context; that it ends is `StartsEnd`, the premise of `GoneClientEndsRequest`, which
`NoRequestStuck` gives as long as sidecars respond. The upstream need not answer or
end, and the client need not read fast. That the dashboard's loop runs is not
assumed by the specification; it is the premise of `FinishedIsShown` alone.

Deadlock is checked for the viewer, which never ends. The other systems may
really stop: every request served, the stream ended, the program exited.

## Proofs

Every invariant of every passing run, its one action property (`CursorStaysOnTrace`)
and the three refinements (`Delivery` once, `ItemStream` twice) are theorems. They
hold for all values of the constants that satisfy the assumptions, so for any
number of requests, starts, crashes, tool indexes, fragments, events, answers,
models and versions, any tree and any size of terminal.

*What is assumed of the constants.* Bounds are natural numbers
(`BoundsAssumption`, `DebuggerAssumption`, `HistoryAssumption`). A marker for
"nobody", "nothing" or a kind of source is not one of the values it stands beside
(`BoundsAssumption`, `SourcesAssumption`, `ExchangeAssumption`). A status that
refuses is a number that is neither 200 nor "none yet" (`RejectionsAssumption`).
Models, catalogues and versions are records of the fields the code reads
(`StartupAssumption`). A JSON tree is a finite set of paths, each below a
container (`ViewerAssumption`). The tab row has as many labels in each of its
forms, none of them empty, and finitely many lines above it wrap
(`LayoutAssumption`).

None of the properties is inductive. What each module adds, and why:

**`SidecarTransport_proofs`**: `TypeCorrect`, `DeliveredAtMostOnce`,
`NoOrphanSidecar`, `NeverTooEarly`, `ImplementsDelivery`.

- `ControlInv` ties a request's program counter to the lock it holds, to its
  attempt and to its outcome. Without it a request could be told twice.
- `OwnershipInv` tells for each place of the program counter which of
  `bunStdin` and `child` holds a pipe. `OneOwnedSidecar` alone would allow a
  start to begin while a pipe is still held.
- `DeliveryInv` relates the count of deliveries to what a request waits for and
  to what sidecars have accepted: a request that may still be forwarded has
  never been accepted.
- `EndpointInv`: process numbers are handed out in order (`BirthInv`), and every
  copy of an endpoint is the port a sidecar has printed, also of those that have
  died since.

The refinement goes step by step: every action of the transport is a step
of `Delivery` or leaves its variables alone.

**`AnthropicStream_proofs`**, **`ResponsesStream_proofs`**: `TypeCorrect`,
`NothingIsLost`, `StreamsItems` (the handler implements `ItemStream`) in both;
`OneKindIsOpen`, `TerminalIsAfterStops`, `StopReasonIsTold` in the first,
`CompletedListsAll`, `OutputIsInOrder` in the second.

- `PointersInv`: the handler's positions lead to items of their own source. A
  position left on an item of another source would lose a piece.
- `OpenInv` and `PendingInv`: what is open is what the handler can still reach, so
  that closing what it reaches closes everything, once.
- `ContentInv` is `NothingLost` with its other half: an item holds pieces of its
  own source only.
- `OutputInv`, `IdInv`, `OrderInv`: the output has each finished item once, ids of
  messages are below the next one, and an ordered upstream finishes a prefix.
- `StopInv`: a tool was seen exactly if there is a tool block.

The three actions that append a piece differ in what they close and open first; a
lemma on what sending a piece does (`Sends...`) serves all three. Where one
would argue by induction over the open calls, the least counterexample is used.

**`Dashboard_proofs`**: `TypeCorrect`, `HistoryKeepsLatest`, `RowsAreCaughtUp`,
`CursorStays`, `QuietShowsHistory`.

- `HistoryInv`: the history is the end of what has begun. `LoopInv`: where the
  channel, the subscription and the loop's message may be at the same time.
  `KnownInv`: rows and changes are of requests that have entered the history.
- `NewestLast`: on its way to the dashboard the newest state of a trace is behind
  every older one. That is why a stale row catches up (`RowsCatchUp`).
- `QuietShowsHistory` needs a second invariant, `OrderInv`: as long as Begins
  are announced in the order in which they were appended and none of the first
  is dropped, the rows are the latest requests, or wrap around once for those
  announced since the snapshot. Rows and queue count up by one request a time.

**`ReplayedHistory_proofs`**: `CallsCarryTheirReasoning`, `NoForeignReasoning`,
`AnswersStandBehindCalls`, `NoCallIsLeftOpen`.

- `HistoryInv` holds in both protocols: beside the properties that a call is
  answered or still open (`CallInv`), and that between an open call and the end of
  the messages there is only what may stand before its output (`PendingInv`).
- `CarriedInv`: the reasoning of the answer that is being replayed is in a message
  already, or pending. Without it nothing is known of a call that comes late.
- `ResponsesInv` and `AnthropicInv` relate the translator's own variables to the last
  message: whether a call may join it, and whose reasoning is pending. Open calls
  of a Responses conversation are of the answer being replayed, which is why
  another message of this answer between a call and its output does no harm.

**`Exchange_proofs`**: `TypeCorrect`, `NamesAreRestored`, `CompletionIsTheStream`,
`TracesAreWhole`, `AnswersTellFailure`.

- `RequestInv`, `StreamInv`: what the upstream has sent, of which calls, under
  which offered names; nothing before it has answered.
- `RelayInv`: an answer that is passed on has one event for each event sent, and
  after these at most the one that ends it.
- `CompletionInv`: an answer put together has every piece in its place, its calls
  in the order of their first fragments.
- `TraceInv`, `OutcomeInv`: what the trace has recorded at each place of the
  handler, and which status goes with which end.

**`JsonViewer_proofs`**: `CachedLinesAreCurrent`, `CursorStaysDrawn`,
`ClicksHitWhatIsDrawn`.

- `CacheInv` and `CursorInv` hold while the model catalogue covers the panel too,
  which the properties do not ask: closing the catalogue shows the panel again.
- The order of the nodes in the document is shown to be strict and total, so that the
  line at which a node is drawn is the line at which it is found.
- A click hits what is drawn because `View` and `handleMouseClick` agree on every
  part of the layout: header, list, tabs, panel. The row of tabs is cut
  into labels by a loop on one side and joined on the other; that both give the same
  columns is shown by the least label at which they would not.

**`Startup_proofs`**: `FallbackModelIsCurrent`, `MetadataOnlyFillsGaps`,
`ExitCodeTellsRelease`. `RunInv` says that from the use of the downloads on
everything is what the list and the catalogue that were sent give, however
the two arrived. The rest is about operators: what a loop that skips elements keeps is
the kept places in order (`NthPlace`), and the comparison of versions, a walk
over identifiers in the code, is the order of sort keys (`ComparedByKeys`), by
the first place at which two keys differ.

For the proofs some definitions were given another form with the same meaning: a
`CASE` became an `IF` where one branch is the rest (`ChatExchange`, `JsonViewer`);
`InOrder` became a choice, `Nth` and `Kept` of `ModelCatalogue` and `TabPositions` of
`Layout` functions.

## Only model-checked

Liveness (`NoRequestStuck`, `RequestsFinish`, `FinishedIsShown`,
`GoneClientEndsRequest`) is outside the reach of the prover, as is that the three
violated properties fail (`HealthCheckTimesOut` under the transport's fairness), and that the viewer is never stuck. What those need of
bounds and fairness is said above.

## What the checks say about the code

Three runs show disagreements with what the code says of itself, listed under
`findings`: a restart may tear down a healthy sidecar; a health check that is never
answered is not ended by its time limit and keeps `bunMu`, so every request of the
transport waits; the renaming relay does not relay errors and the index 0.

The passing properties have premises that mark limits of the code:

- *The retry may go to an older endpoint.* A restart stores its endpoint in a
  field of the client all requests share, and `forward` reads it again; another
  request may store an older one in between. `EndpointsHaveListened` holds, but
  the second attempt can be refused and the request fails.
- *Sidecars that do not respond* (`NoRequestStuck`, `GoneClientEndsRequest`). See
  `SidecarHang`; the same holds of a sidecar that does not exit when its stdin ends,
  since a failed start waits for it without killing it.
- *Grouped outputs* (`CallsCarryReasoning`). A Responses
  client that records each output right behind its call makes the second call of
  an answer a message without reasoning.
- *Text behind a call* (`CallsCarryReasoning`, `OutputsFollowCalls`). The streaming
  handler sends reasoning, call, text, call if the upstream does. Replayed, the text is a
  message of its own, behind the first call and before its output, and the second
  call joins it: its reasoning is in the message of the first call, and it is
  left without. Of such answers only less is claimed (`textFirst`).
- *Text between a call and its result* (`OutputsFollowCalls`). The text of an
  Anthropic user message is put in front of the results it came with.
- *Bodies not read to their end* (`GoneClientEndsRequest`). The Responses and the
  Anthropic handler decode one value; a server that has not seen the body end does not
  notice that the client has left.
- *Two read-like tools* (`NamesRestored`). For the free tier the first tool that
  reads files is renamed to "read", also when another one has that name; a call
  of the latter is then given to the client under the name of the former.
- *Order of the upstream* (`ordered`). When a tool call goes on after text, its
  finished item grows again and the output of a response is not in index order.
- *Dropped, late and lost changes* (`dropped`, `announced`, `calmStart`). A change
  that meets a full channel is never sent again, two Begins may publish in the
  other order than they append, a trace may leave the history between Subscribe
  and Snapshot: each can leave a row of the dashboard out of date.
- *Replaced bodies* (`CursorIsDrawn`). A new body under the cursor leaves the
  cursor on a path it may not have until the next key.
- *Metadata of several providers.* A bare model id gets the entry of whichever
  provider a Go map comes to last, so its window may differ between two starts.
- *Cut passthrough streams* (`AnswerTellsFailure`). A Chat Completions stream that
  is copied ends as if complete when its body breaks, and one whose names are
  restored also swallows error events.
- *Unfinished answers* (`AnswerTellsFailure`). A body that ends without `[DONE]`
  counts as complete; an aggregated one without any event is an empty completion
  of status 200.
- *Tabs of a narrow panel* (`ClickHitsWhatIsDrawn`). The tab row is looked for at a
  fixed line, so it is missed where a line above it wraps.
- *A server that fails under the dashboard* is noticed only when the user quits.

Read in the code while it was translated, and outside what the properties say:
`ensureJSONCursorVisible` compares the number of a node with the scroll position,
which counts the lines above the tree too, so the cursor can be moved below the last
line shown; a body such as `404 page not found` is drawn as a tree of one number
whose keys do nothing, since it is drawn by its first value and handled by
`json.Valid`; a Chat Completions stream is never flushed; an Anthropic answer with tool calls and
the finish reason "stop" tells `end_turn` when it is not streamed and `tool_use` when
it is; empty arguments of a call become `null` in the one and `{}` in the other;
a tool choice, and the calls of a replayed history, keep the client's name of a
tool that is renamed for the free tier; any change of a trace scrolls the
open model catalogue back to its start while the newest trace is selected; the
table of models is refused also where all ids are short; captures have no limit
of size, so the traces hold whole bodies.

## Not modelled

Header order, TLS fingerprints and payload encoding (data, not control); the
schema sanitiser, reasoning effort, images and options (pure conversions of
JSON); redaction, and the headers and request bodies in a trace; what the lines of
the screen say, their styles, JSON objects that have a key twice (their nodes share
folds and cursor in the program), how many lines a long one takes beyond those
above the tabs, horizontal scrolling, text selection and the
clipboard (terminal and operating system calls); the headers of CORS and
logging; a panic in a handler; the installer and profile scripts.

## Plan

Written in this order, the most important behaviour first: the transport with
`Delivery` and its proofs; the two streams with `ItemStream`; the inspector and
dashboard; the histories; the answers; the viewer; the startup with versions
and catalogues; then the whole exchange in all protocols with its trace, the
Codex catalogue, and the layout with the mouse. What is left:

1. *Proofs.* No safety property of a passing run is left. Further results would be
   about what no run asks yet: that moving the view to the cursor (`EnsureVisible`)
   is idempotent, that the comparison of versions is transitive.
2. *More of the system.* The schema sanitiser as an operator that is idempotent;
   the translation of tools, tool choice and content parts; horizontal scrolling.
