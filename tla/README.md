# Verification of pyview_map

TLA+ models of the services in this repository and of the packages they are
built from, TLC configurations that check them on small instances, and theorems
that the TLA+ proof system checks for every value of the constants: about the
debate engine, the save files and the chat page, the item stores with the places and
flights services, the map in the browser, and the transport between them. Paths are relative to `src/`.

Contents: [the system](#the-system) - [modules](#modules) - [how the modules follow the code](#how-the-modules-follow-the-code) -
[runs](#runs-and-what-they-show) - [fairness](#fairness) - [proofs](#proofs) -
[findings](#findings) - [mutants](#mutants) - [assumptions and limits](#assumptions-and-limits) -
[not modelled](#not-modelled) - [plan](#plan).

## The system

Two applications on one set of packages. All processes are Python asyncio
programs: a handler runs without interruption up to its next `await`, and what
is scheduled with `create_task` or `schedule_info_once` is a task of its own.

*Debates.* A browser page (`services/debate_bff`) lets a user run a debate
between language-model agents. The page's server sends JSON-RPC requests to the
debate backend (`services/debate_backend`), which keeps the debates and answers
each turn as a stream of tokens followed by a result.

*Maps.* A page with lists and maps (`packages/bff_engine`) is filled by a
backend (`services/places_backend`, `services/flights_backend`). The page tells
the backend that it is there; the backend *connects back* to the page's server,
subscribes to its events, and calls its `list.*`, `markers.*`, `map.*` methods.

Both use JSON-RPC over HTTP with server-sent events
(`packages/server_pkg`, `packages/client`, `packages/jrpc_common`).

### Components

For each component: the state it keeps, its operations, what is hard about it,
and what makes it correct.

**Debate engine** (`debate_backend/debate.py`, `engine/`).
State: a `Debate` object (`status`, `history`, `current_turn`, `max_rounds`) and
a LangGraph graph `router -> agent_turn` with its checkpoint
(`current_speaker`, `targeted_speaker`, `main_flow_speaker`, `round_count`,
`next_action`, and the node to run next).
Operations: `debate.start`, `debate.next_turn`, `debate.inject` (optionally at one
agent), `debate.announce`, `debate.stop`; a turn is a `run_turn` task.
Hard: nothing keeps two `run_turn` tasks of one debate apart; whose turn it is
is recorded in two places by different code; the graph can fail between its two
nodes (`create_llm` raises outside the `try`) and then resumes in the middle.
Correct when: main turns go round the agents in order whatever side
conversations intervene; rounds are counted on main turns only; the limit
ends the debate neither early nor late; every request is answered.

**Debate commands and save files** (`debate_backend/commands.py`).
State: JSON files in the saves directory; the registry `_engines`.
Operations: `/new`, `/save`, `/save-as`, `/load`, `/end`, and read-only commands.
Hard: only the `Debate` object is saved, the graph state is made up again on the
first turn after `/load`; commands do not wait for a turn under way; a file is
truncated before it is written.
Correct when: a loaded debate goes on where the saved one stood, and the
counters in every file agree with its history.

**Chat page** (`debate_bff/views/chat/chat_view.py`, `services/rpc_client.py`).
State: `ChatContext` (status, debate id, current agent, turn count, side
conversation, ended), the jobs scheduled and their requests.
Operations: connecting and reconnecting, messages, commands, buttons; the end of
each job.
Hard: a new client replaces the old one before it has shaken hands; the page's status is the only thing that keeps a second turn from being
asked for, and several jobs write it; the debate may be closed, fail or end
while a job waits.
Correct when: the input always comes back; the page never has two turns under
way; it shows the right next speaker and turn number, and "ended" only when so.

**Event broadcaster** (`bff_engine/shared/event_broadcaster.py`).
State: subscribers' bounded queues, retained ready events.
Operations: subscribe (with replay), broadcast, clear.
Hard: full queues are dropped silently; one retained event per channel, whoever
sent it; `unsubscribe` is called by nobody.
Correct when: a subscriber sees its page's ready event and either every event
after that or, once dropped, none.

**Places service** (`places_backend/parks_service.py`, `places_bff/places_demo.py`).
State: per connection back, `populated` and the branch being executed; per page,
which components are ready.
Operations: `parks.subscribe`, the event loop of the connection back, the
page's events.
Hard: the map is filled through list events that come back around; a detached
task nobody cancels; pages closing at any moment; channels shared by all pages.
Correct when: each page gets all parks on the list and on the map and follows
only its own clicks.

**Flights service** (`flights_backend/flights_service.py`,
`flights_bff/flights_demo.py`). State: per page, how far the connection back has
come, and a flight task with its position. Operations: `flights.subscribe`, the calls of the
connection and of the flight. Hard: all flights use the same item ids; the flight
outlives its page. Correct when: it calls one at a time, arrives, and a page shows its own plane.

**Map and list drivers, item store** (`bff_engine/dynamic_map`, `dynamic_list`,
`shared/item_store.py`, `cid.py`, `topics.py`). State: items per channel; the page's
snapshot and stream, the topics it is subscribed to, messages under way. Operations:
`markers.*`, `polylines.*`, `list.*`, mount, the two subscriptions, `handle_info`. Hard: the
snapshot is taken before the page subscribes; store, pages and event subscribers learn of
an operation one after the other, with awaits between. Correct when: every page ends up
with the store's items, but for operations that overlapped or were not sent to it.

**Browser hooks** (`dynamic_map.js`, `dynamic_list.js`). State: the elements of the
page's streams, Leaflet layers, queues of elements that arrived before the map, copies of markers
per tile. Hard: hooks run in any order at the first render and may run again for an element that
is there; tiles come and go with the user's moves. Correct when: the map shows the elements on the page
and nothing else.

**MCP server** (`server_pkg/http_stream_transport`). State: sessions with their tenant
and audit; exchanges under way, each with the queues of its handlers.
Operations: POST of single messages and batches, the dispatch of requests, the
merging of the queues into one event stream. Hard: handlers of a batch run concurrently and put
items on queues while they are read; the client may leave at any moment; the
server forgets everything when it restarts. Correct when: every request is answered once, in
the order of its queue, in a session of its own tenant.

**Client SDK** (`client/.../client_sdk.py`). State: the session id, the
request counter, the client's own audit. Hard: several answers read at once; what
happens to the id when the server has forgotten it. Correct when: a ready client has a session of
its own and what it has recorded is what its program was given.

**Request audit** (`jrpc_common/jrpc_audit.py`). State: requests by id, in each session and each
client. Hard: ids are reused; answers come late or never.

**Spec parser and templates, transcript store, OpenRPC generator, navigation maths**: pure or without a protocol. `ollama_client.py`
is not used by the program. **Authentication** maps a bearer token to a tenant.

## Modules

| module | models | status |
|---|---|---|
| `TurnTaking` | what the engine promises about who speaks (abstract) | implemented by `DebateEngine`: checked, proved |
| `DebateEngine` | the debate engine | checked, proved |
| `DebateStore` | `/new`, save files, load, exit; extends `DebateEngine` | checked, proved |
| `ChatView` | the chat page and its connection; extends `DebateEngine` | checked, proved |
| `EventBroadcaster` | the broadcaster | checked and proved in `PlacesPage` |
| `PlacesPage` | pages and parks service; extends `EventBroadcaster` | checked, proved |
| `ItemSync` | stores, pages and event subscribers of one channel | checked, proved |
| `FlightsPage` | pages and flights service; extends `ItemSync` | checked, proved |
| `BrowserMap` | the map's hooks in the browser | checked, proved |
| `McpServer` | sessions, dispatch, merged event streams, the server's audit | checked and proved in `McpClient` |
| `McpClient` | clients and posts by hand; extends `McpServer` | checked, proved |
| `..._proofs` | theorems about the module of that name | |
| `MC...` | instances for TLC | |

`DebateStore` and `ChatView` compose the engine with what runs on top of it: they
use its actions, they do not restate them. `PlacesPage` does the same with the
broadcaster, `FlightsPage` with the item store, `McpClient` with the server.

## How the modules follow the code

**DebateEngine.** The variables are the fields of the same meaning.
`ckpt` is the newest checkpoint of the debate's thread: `InitialState`, `Route` and
`AfterTurn` are what the code writes there. One action per JSON-RPC handler
(`NextTurn`, `Inject`, `Announce`, `Stop`), and one per stretch of `run_turn` between two
awaits: `Begin` (get_state and the first call), `Resume` (after
aupdate_state), `Router`, `AgentTurn` (everything after the token
stream), `CreateLlmFails`, `Respond`. A task has its own copy `graph[r]` of the graph
state from `ainvoke` on; that is why two tasks can overwrite each other's
checkpoints. What is said is left out. The `side` flag of an entry is what
`agent_turn_node` computes as `is_side_convo`; the code does not store it, and no
action reads it: it is there for the properties.

`Spec` is the backend as it is: any client, any number of requests. `SerialSpec` is
the backend as the page means to use it: the next turn request after the last was answered,
announcements and stops at any time.

**TurnTaking** has only the transcript and the agent that is *due*. `DebateEngine`
implements it with `due <- Due`, where `Due` is computed from the checkpoint: the main
speaker a side conversation remembers, else the agent chosen but not yet
heard, else the one after the last speaker.

**DebateStore.** `Snapshot` and `Restore` are `to_dict` and `from_dict`: neither has the graph
state. `New` makes a debate, `Load` replaces one that may be running; tasks on the old engine
become `orphans`, which only end. `home` is the file a debate belongs to, which `Save` writes; `SaveAs` writes a copy elsewhere. `Exit` and `ExitInSave` are the end of the process,
the latter between truncating and writing the file.

**ChatView.** `SendAt`, `SendPlain`, `ClickNextTurn`, ... are the branches of `handle_event`;
`StartJob` and `FinishJob` the two halves of a job around its await; `StreamBreaks` a lost
connection, after which the backend goes on. A job's request *is* request `r` of
the engine. `_do_connect` is a job too: it puts the new client in place of the old one before
it shakes hands; a failure leaves none. The page connects once by itself and then when the user asks, and
what is typed meanwhile is answered by the simulated stream. Two slots suffice to have the overlaps the page allows, as an
announcement, an `/end` or a `/continue` question together with a turn.

**EventBroadcaster / PlacesPage.** One connection back per page, called by the
page's name. `ReadEvent` computes the calls the `match` statement will make, `MakeCall`
makes the next one: between two calls anything may happen. Queue capacity
`QueueSize` stands for the 256 of the code together with what the transport buffers.

**ItemSync.** Markers, polylines and list items live in three stores that follow one
protocol, and are the items of one store here. A handler has three steps with awaits between
them: `StoreItem`, `SendToTopic`, `Announce`. A page takes its snapshot in `Mount`, subscribes to two
topics in two `Connect` steps, and handles one message at a time (`HandleInfo`, with the render).
`mirror` is an event subscriber that replays every event it is sent.
`raced` and `behind` are ghosts: no guard reads them. They name the items
on which operations overlapped, and those whose last operation a page was not sent.

**FlightsPage.** The page, the connection back and the flight task are three processes. The two tasks share a
client, which would send several requests at once: a caller of `ItemSync` is here a request of a task on one of its
`Lane`s, and a task goes on to its next call only because `_send` waits for the answer (`Waits`). The three
steps of each call interleave with those of the other page's flight, which uses the same ids. `Answer` is the front
end going on with a call.

**BrowserMap.** An element of the page's streams is `mounted`, `updated` and `destroyed`; before the map
exists, elements wait in `pendingMarkers` and `pendingLines`. Leaflet's objects are numbers, given once, so that an
object nothing refers to any more is still on the map. `Remounting` names
the elements for which `mounted` may run twice. Tiles come and go with the user's
moves, on which the repeated-markers layer adds and removes copies.

**McpServer / McpClient.** An exchange is a POST with the queues of its handlers, read by a client or by hand. `Receive`
is admission up to the dispatch, `Dispatch` calls one handler, `Produce` is a handler
putting an item on its queue, `Respond`, `Wait`, `Yield`, `Track` and `CloseStream` are the steps of
`generate_sse` around its yields. Handlers are known by the kind of their answer: a value, a
queue that ends with a response ("stream"), or a queue that is only ever given events ("subscribe": `bff.subscribe` and the `*.subscribe`
of the backends), or an error in their place. `Broadcast` puts an event on a subscription's queue. `Restart` forgets sessions, audits and tasks. A
client's life is `start`, `initialize`, `notifications/initialized`, calls, `close`.

## Runs and what they show

Distinct states are those of the last full exploration.

| run | instance | shows | states |
|---|---|---|---|
| `engine_serial` | 3 agents, 1 round, 1 request at a time, history up to 7 | order of main turns, agreement of the two counters, exact rounds, refinement of `TurnTaking`; the limit is passed in one case only | 449 441 |
| `engine_concurrent` | 2 agents, 1 round, 2 requests at a time, history up to 3 | turn counter, no early end, every request answered, under any interleaving | 315 229 |
| `store` | 2 agents, 1 round, 2 files, 1 request slot, history up to 3 | saves, loads, new debates and exits at any moment keep order and counters of debates without side conversations | 1 841 360 |
| `store_resume` | 2 agents, no limit, 1 file | violation: a debate saved around a side conversation resumes with the wrong agent | |
| `chat` | 1 agent, 1 round, 2 inputs of all kinds, model unavailable at first, one slot whose connection may be lost | the input always comes back | 866 371 |
| `chat_quiet` | 3 agents, 2 rounds, 7 inputs, nothing fails | one turn at a time, right next speaker and labels | 2 487 391 |
| `places` | 2 pages, 1 park, queues of 2, 1 lossy page, 1 click per page | each page is complete or dropped; own clicks only; a lone page is seen and filled | 460 740 |
| `items` | 1 page, 2 callers, 1 item, 2 values, 3 calls, 3 cids | page and event subscribers follow the store, except where operations overlapped or were not sent | 704 188 |
| `flights` | 2 pages with a flight each, 1 airport, 1 step to the destination, up to 2 requests of a task at once, 1 lossy page | a page's own plane never goes back; flights end; an arrived flight is shown | 490 887 |
| `browser` | 2 markers, 2 lines, 2 values, 2 tiles, one of each mounted again, 5 objects | no copy without its marker and tile, and the map shows the streams; follow keeps up | 751 849 |
| `mcp` | 1 client, 1 outsider of another tenant, 3 sessions, 2 exchanges, 3 request ids, batches of two streams, or of a subscription and a stream | sessions apart, answers once and in order, both audits right, nobody waits for ever but for events | 423 101 |
| `mcp_404` | as `mcp` without the outsider | violation: the client keeps a session that earned it a 404 | |

Why the bounds are enough:

- *Agents.* Three is the least number for which "the agent after the target" and
  "the agent that was due" differ from each other and from the target. The
  concurrent and store runs have two, where a wrong wrap-around still shows; the
  theorems need no bound. `chat` has one agent because its property is about the page
  and not about the order of turns.
- *`MaxHistory`, `MaxInputs`.* No request is taken once the history (or the inputs of the
  page) is this long; the entry that is under way may exceed it. Seven
  entries with three agents are a full round, a side conversation and the turns
  at and after the limit. With two tasks under way three entries give a lost update
  of the checkpoint.
- *Rounds.* One or two: the limit is reached within the bound.
- *Files.* Two: a debate can be saved in one, go on, and be saved in the other, torn or loaded.
- *Queues of two.* A fresh queue must hold the two retained events, which is the least
  the broadcaster needs; with queues of two they do overflow. Were the queue
  not larger than the number of parks, a connection would always be dropped while it
  populates its page: with one park and queues of two it may or may not be.
- *`LossyPages`, `LossyRuns`* keep one page or request that cannot fail, so that liveness is
  not excused everywhere by failure.
- *`MaxClicks`*: one click on each page is enough to see another page follow it.
- *`MaxCalls`*: three calls are two that overlap and one after or between them; with one page the
  cid of another page stands for all that do not concern it. Ten calls are two whole flights.
- *`MaxObjects`*: four elements on the map and one object more, for an element that is mounted again
  or comes back after it was deleted.
- *`MaxId`, `Post`, `Session`*: `initialize` and a batch of two; the client's notification
  or a post by hand beside a stream; a session lost, one made after it, and one of the outsider.

`CHECK_DEADLOCK FALSE` is given where the system really may stop: a chat page whose debate
was closed, closed map pages with nothing left to read, flights that have arrived, closed clients. The
engine and store runs check deadlock (announcements and stops remain possible).

## Fairness

`FairSpec`, `ChatFairSpec`, `PlacesFairSpec`, `ItemsFairSpec`, `FlightsFairSpec` and `McpFairSpec` have weak
fairness for each task: the event loop
runs every task that is ready, and HTTP calls that are not lost are answered. That a model's
token stream ends is an assumption on the provider: neither the backend nor the
client SDK sets a timeout (`client_sdk.py:67`), so a stream that stays silent for ever
leaves its turn, and the page waiting for it, hanging. A stream that fails ends and is
recorded as a turn. In `McpFairSpec` a program that reads an answer goes on reading it, or stops.

A subscription's queue never ends, and that an event is ever broadcast is not assumed: `Broadcast` is outside
`Service` and has no fairness. So a program that reads a subscription may wait for ever, as the code means it to,
and it does when the broadcaster has dropped its queue (`event_broadcaster.py:57`). `CallsEnd` allows just that: whoever
reads an answer gets to its end, or gets an error, or is left with subscriptions only (`OnlySubscribed`), with the
responses to its other requests and all events read.

There is no fairness for users, operators (`Repair`), failures, or for
any particular choice a task makes. No property needs strong fairness, since a
task that can go on stays able to until it does.

## Proofs

The theorems assume the named `ASSUME`s of the modules: there is at least one agent, special
values differ from ordinary ones, a fresh queue holds the retained events (`EngineAssumption`,
`StoreAssumption`, `ItemAssumption`, `NoCallAssumption`, `BrowserAssumption`, `BroadcasterAssumption`,
`PlacesAssumption`, `ChatAssumption`, `McpServerAssumption`, `McpClientAssumption`); `FlightsAssumption` says in addition
how the demo's items instantiate those of `ItemSync`. They hold for any number of agents, rounds, requests,
pages, calls, items, elements, clients, sessions and exchanges. TLC evaluates the assumptions in the
runs. Most theorems about the chat page and one about the server's audit have
further hypotheses, on what users do and what fails; they are stated with them below.

**`DebateEngine_proofs`**, for `Spec`, requests in any number and any interleaving:

- `TypeCorrect`. `TypeOK` is not inductive: `AgentTurn` appends the speaker the graph state
  names, so `GraphOK` adds that a task at `agent_turn` has a speaker, that a task at
  `router` has a state at the router, and that once a task is past its start the checkpoint is not
  empty (so the initial state is only ever built before anybody has spoken).
- `TurnCounter`: `CurrentTurnFollowsHistory`. `HistoryStep` says what any step can do to the
  history (nothing, a remark, a turn with the counter set); lemmas about the last
  position of a set of positions do the rest. Here concurrency does no harm,
  because `record_turn` runs without an await.
- `LimitNotEarly`: `NeverEndsEarly`. Concurrent turns lose updates of the checkpoint, so the count of
  rounds may fall behind; `AheadInv` says that no graph state, in a task or in the checkpoint, is
  ever ahead of the history.

For `SerialSpec`:

- `SerialInvariance` adds `OneAtATime`: at most one task is under way, and the graph state it holds
  in memory is the checkpoint. With two tasks under way it does not hold, and neither do the
  order of the main turns, the refinement and the exact round count.
- `ImplementsTurnTaking`: every step is a step of `TurnTaking` or a stutter, under the
  mapping `due <- Due`. `SerialStep` classifies the engine's steps as a main turn
  of the agent that is due, a side turn, a remark, the end, or nothing visible; the
  central lemma, `RouteKeepsDue`, says that the router's decision does not change
  who is due unless it ends the graph.
- `MainTurnsInOrder`: `MainTurnsCycle` with `CycleInv`, which says where the rotation stands: the
  agent that is due follows the last main turn.
- `CountersInStep` follows from both records being the successor of the same entry.
- `RoundsExact`: `RoundsCountMainTurns` with `RoundInv`, main turns = rounds * N + due.
- `LimitPassedOnlySo`: with `LimitInv`, a main speaker remembered at the router, or a main
  turn chosen although the limit is reached, means the last turn was a side turn.

**`DebateStore_proofs`**, for `StoreSpec`. `StoreInv` is `DebateInv` for the debate in memory and
`FilesInv` for every readable file. `GraphOK` is too strong after `/load`: the history is there and the
checkpoint is empty, until the next turn builds the initial state from the history. `Sound` therefore speaks of
the history and the counter alone: the counter is the successor of the last entry of an
agent, and without side conversations the main turns are in order. `InPlace` says that a debate
without side conversations stands where the state built from its history would.
`InitialStateResumes` is the step on which everything rests: that state makes the agent after
the last speaker due, and counts the rounds right. The steps of turns reuse
the engine's lemmas. `StoreTypes`, `StoreCounters`, `StoreKeepsOrder` and `StoreResumes` follow.

**`ItemSync_proofs`**. `ItemsInv` adds to the types: two calls under way on one item leave it in `raced`
(`CallsApart`), closed pages hold nothing, and for each page and item that is neither raced nor
behind, the last message about it, or else what is shown, is what the store holds, provided no call is still
to send it (`Holds`). From it `PagesFollowStoreTheorem` and `EventsFollowStoreTheorem`.

**`FlightsPage_proofs`**, for any number of requests that a task could have under way. `FlightsInv` is the item store's
`ItemsInv`, the places of connection and flight (`Progress`), and for each page: `InTurn`, at most one of its requests
is under way, the connection's before the flight starts and the flight's after, although nothing but the order of awaits keeps them apart;
`Reached`, every item the service has called about (`Told`) is in the call under way or has got to the page
with its last value; `Ordered` and `Ahead`, the positions of the plane rise from the page through its mailbox to
the call under way and the flight task. The store's invariant does not give the last two, as it excepts items on which calls
overlapped, and the calls of two flights on the one plane do. `OwnPlaneMovesOnTheorem` and
`ArrivedFlightShownTheorem` follow. `ItemsStep`, that the service's steps are those of callers of the store, is a
lemma only: it holds by the way the module is built.

**`BrowserMap_proofs`**. `BrowserInv` relates elements, queue, layers and copies: each
object on the map belongs to its element, an element whose hook has not run has none, and objects not made yet are
nowhere. `NoGhostsTheorem`, `MapShowsStreamsTheorem`, `FollowKeepsUpTheorem`.

**`PlacesPage_proofs`**. `PlacesInv` follows what a page is to show from the queue to the page.
`FillingOK`: while a page's connection is subscribed, every park is on its list or about to be
(`Listed`), and is on its map, about to be, or announced by an event still in the queue (`Mapped`). An event is
lost only with the subscription, which `BroadcastEffect` states once for every operation. `ClicksOK`: whatever will move a map, in any
queue or branch, is a click on that page; events of other pages are in the same queues. `LoneOK`: the event retained is
that of the page that is alone. From these `PlacesTypes` (with the bound of the queues),
`MapsFollowOwnClicks`, `PopulatedPagesAreComplete` and the action property `LonePagesAreSeen`.

**`McpClient_proofs`**. `McpInv` has eight parts. On the server, `QueuesOK` and `PhasesOK` say for each exchange
which queues are read, which items have been taken and, phase by phase, what is
complete. `SaidOK` is about the merged stream: what has been said of an exchange, read or on its way, is of each request
the items taken so far, in their order, whatever the order between requests, and all of them as long as the
connection holds. For the clients, `ReadersOK` and `LivesOK` say which answers are read in which
part of a client's life, `IdsOK` that its requests have ids of their own, `LogOK` that its audit shows
what it has read. `SessionsOK` says that no two clients claim a session, where a session is claimed already by an exchange
that will give it to its reader. `McpTypes`, `SessionsStayApart`, `AnswersComeInOrder` and
`LogsFollowAnswers` follow, without further hypotheses, restarts and lost connections included.

`AuditsSettle` adds `AuditInv` under two hypotheses. `OutsidersStayOut`: those who post by hand use other
tenants' tokens, and no session of their own. The audit is kept by session and request id, so a post
of the same tenant that repeats an id in the session of a client overwrites the client's entry: the claim is
false without it. `InitializeAlone`: no batch mixes `initialize` with other requests, as the client never does.
The requests of such a batch are entered in the session that exists when each is
dispatched, and settled in the one that exists when it is answered. The instance
of the run satisfies both.

**`ChatView_proofs`** extends `DebateEngine_proofs`, as the page extends the engine. Without hypotheses:
`ChatTypes`; `PageDrivesEngine`, by which every behaviour of the page is one of the engine's `Spec`; and so
`OverlappingPageIsCounted`, the turn counter and the limit. The other theorems are about pages to
which less and less happens. None of the inputs and failures they exclude can be let in: with any one of them
added to `chat_quiet`, two agents and four inputs, TLC finds the property violated within a few hundred
or thousand states.

- `StatusIsKept`: no remarks, no `/continue`, no lost connection, the cases in which the page sets its
  status back while a turn is under way (see the findings) or asks for several turns. Models may be
  unavailable, messages be empty, and debates end at any moment. `PageInv`: jobs about a turn are at most one, the status is
  "streaming" meanwhile, and a task of the engine belongs to a job that was sent. `PageAsksOneAtATime` follows, and
  `EngineIsServedSerially`: every behaviour of the page is one of the engine's `SerialSpec`. With it every theorem about
  requests one at a time holds behind such a page: the refinement of `TurnTaking` (`PageTakesTurns`), the order of
  the main turns and the counting of rounds (`PageKeepsRounds`).
- `NothingFails`: in addition all models can be built and every `@name` is an agent's; a message to a
  name nobody has is taken for a side turn. `FlowInv` describes the graph between requests: a target only while its request
  is on its way, no agent chosen that has not spoken. `ShowInv` says where the agent that is due is while a request
  is answered: on the page, in the job that will put it back after a side turn, or in
  the answer. `PageShowsAgentDue` follows, by the lemmas that the engine's refinement rests on.
- `NothingRefused`: in addition no empty messages, and no reconnection by the user: an attempt that fails after another
  succeeded takes the client away. A request that is refused uses up a number. `LabelInv`: the page's count is the number of turns recorded, plus
  one while a turn is asked for, and the label of the job is that number; after `/end` the count
  means nothing, except to the turn that is still under way. `BubblesAreNumberedRight` is the action property.

Only model-checked: liveness under fairness, which is out of the prover's reach (`EveryRequestAnswered`,
`InputComesBack`, `ReadyPageGetsPopulated`, `PagesCatchUp`, `FlightsEnd`, `CallsEnd`). Every invariant and
action property of a passing run has its theorem. The provers cannot instantiate the library's induction theorems, which
take a predicate as an operator. Where a proof needs a least element (the enumeration of a set of numbers in its order,
`InOrder`, in `McpClient_proofs`) it uses `WFMin`, which takes the predicate as a set. That a history with an agent's entry has
a last one follows from the counters' invariant, which names it.

## Findings

With a run that finds a violation:

1. `store_resume`: `_initial_state` takes the last agent entry, side turn or not, for the
   current speaker (`debate.py:430`), so a debate saved around a side conversation goes on with
   the wrong agent. `CycleWithoutSideTalk` and `ResumesInPlace` show that without side
   conversations nothing goes wrong.
2. `mcp_404`: `raise_for_status` (`client_sdk.py:175`) comes before the branch that clears the session id
   after a 404 (`client_sdk.py:307`), which is never reached: after a restart of the server the
   client names the lost session for ever.

Further disagreements seen while modelling, which the runs and properties leave room for:

- The router looks at the limit only when no main speaker is remembered, so a
  side conversation opened when the rounds are used up is followed by one more main turn
  (`engine/routers/round_robin.py:53`; the docstring at line 18 says otherwise).
  `LimitPassedOnlyAfterSideTalk` shows, and a theorem proves, that this is the only way.
- A turn number advanced with the placeholder is not given back when the request is refused, as an `@Agent`
  message without text is (`chat_view.py:261`); such messages (the input "bare") are not in `chat_quiet`.
- A message to an `@name` nobody has runs a main turn, but the page treats it as a side turn and keeps the
  agent it had (`chat_view.py:659-676`). The input "unknown" is not in `chat_quiet`.
- `/end` sets the page's turn count to zero, and the answer to a turn that was under way subtracts its bubble from it all the same
  (`chat_view.py:267`, `479`): the count may become negative. `ChatTypeOK` therefore has integers for labels.
- The end of a remark sets the page's status to idle although a turn may be under way
  (`chat_view.py:691`): after "plain" a second turn can be asked for. It is not in `chat_quiet`
  either.
- A ready event is retained per channel, not per page, so a second page hides the first page's event from a
  backend that is still connecting (`event_broadcaster.py:52`). `LonePageIsSeen` shows that a page that is alone is not
  affected.
- `/continue N` is described as "Run N full rounds" (`commands.py:561`) and runs 2 * N turns (`commands.py:412`), which are N rounds
  with two agents only.
- After a turn that failed because no model could be built, the next targeted request is answered by the
  agent of the failed turn (`TargetResponds` in `DebateEngine`; `debate.py:483`).

## Mutants

Operators named `...Bug` stand before the operator they are a slip of: a dropped
guard, a missing reset, a wrong index. No specification uses them. Putting one in the place of
its operator must make TLC report the property it is listed with in `PROJECT.json`: this is
how each property is known to depend on the code it is about.

## Assumptions and limits

- LangGraph (external): a checkpoint is written atomically after each node, and `get_state`,
  `aupdate_state` and `ainvoke(None)` act on the newest checkpoint of the thread. `Begin` does
  get_state and the call that follows in one step, as there is no await of ours in between.
- The pub/sub hub and LiveView (external): messages to a page arrive in the order sent and are handled one at
  a time, each followed by its render; a closed socket's subscriptions end.
- Leaflet and the hook runtime (external): hooks of one element run in order; an element that is destroyed
  still finds its map.
- Agents have distinct names, as the templates do; with equal names `find_agent_index`
  takes the first.
- `DebateStore` follows the debate made or loaded last; what orphaned tasks answer is left out.
- `ChatView` has one page that is the only client of one debate. A job's start and the arrival of its request
  are one step. The button to reconnect is there only while the page is not connected. A second `/new` and `/load`
  are not typed on the page.
- `PlacesPage`: a page sees an operation in the step that makes it; store, page and
  subscribers learn of it together. What happens between them is in `ItemSync`. All
  pages use the same channels, as the demo does. Item ids are those of the parks service.
- The order of the two retained events in a fresh queue is fixed; no reader depends on it.
- `FlightsPage`: a call that fails fails with the connection, as the service does not tell them apart.
- `McpClient`: `initialize` is sent alone; a closed `ClientRPC` is not started again; an answer's last
  yield is recorded in the audit only when the generator is resumed. A `ClientRPC` is closed only once it is ready,
  though then whatever it is reading. A request whose `"id"` is null, which `ClientRPC` never sends, fails in an assertion
  (`jrpc_service.py:376`) and is answered with a 500: it is not modelled. A 401 changes no
  state and is left out, as is the GET endpoint, which has the admission of POST and no state. What bounds and drops
  the queue of a subscription is in `EventBroadcaster`.

Some properties are claimed only where the code keeps them, and leave out a case that a hazard of `PROJECT.json`
is about; its entry there says so. A lost checkpoint (two turns at once), a file torn by an exit, a second turn
after a remark, a number used up by a request that fails, a ready event overwritten or cleared by another page, an operation between a page's
snapshot and its subscriptions (`behind`), calls that overlap on one item (`raced`), a request id that is
posted again behind a client's back, and what a second `mounted()` draws (`Remounting`) do happen: the models have these
behaviours, except that the runs `chat_quiet` and `mcp` exclude the inputs that lead to them, and no property forbids them.
The answers of orphaned tasks are in no model.

## Not modelled

- Texts, prompts, token streams, rendering: they do not influence control.
- `navigation_utils.py`: real-valued trigonometry, out of TLC's reach.
- Spec parser and templates, OpenRPC generator, inspection of handler signatures: pure functions of text and of types.
- Transcript store: finished texts by id, no protocol. `ollama_client.py`: unused.
- Commands that only show something, the parsing of their options; `send_to_backend`, which nothing schedules;
  `terminate_session`, `unsubscribe` and the audit's `cleanup`, which nothing calls.
- Renaming by `markers.update`, the position at which a list item is inserted, the icon registry; the
  list's hook in the browser, which keeps no state.

`PROJECT.json` lists every component, hazard and mapped line.

## Plan

Modelled: every component with a protocol of its own. Proved: every safety property of the passing runs. What is left, in order of
importance:

1. The chat page when a request fails: what remains true of the agent shown and of the numbers on the bubbles.
2. `/load` typed on a chat page: `DebateStore` and `ChatView` composed.
3. Pure algorithms against reference definitions over bounded inputs: `_parse_target`,
   `find_agent_index`, `spec_parser`, `_classify_payloads`.
