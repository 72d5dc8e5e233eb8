# A TLA+ model of ngrok-plus

This directory holds TLA+ modules for the parts of `src/ngrok` where ordering,
concurrency and failure decide whether the program is right, the TLC
configurations that check them on small instances, and TLAPS proofs of what
matters most for instances of any size.

ngrok is a tunnelling proxy. A client behind a firewall keeps one *control
connection* to the server and asks it for public URLs. When somebody visits
such a URL, the server takes a *proxy connection* that the client has opened
earlier out of a pool, tells the client which tunnel it is for, and joins it
with the visitor's connection.

- [Inventory](#inventory) - the parts of the system
- [Modules](#modules) - what models what
- [Runs](#runs) - what TLC checks, with which bounds
- [Proofs](#proofs) - what TLAPS proves
- [Findings](#findings) - where the code and its comments disagree
- [Not modelled](#not-modelled-and-why)
- [Plan](#plan) - the order in which the rest is to be done

## Inventory

Paths are relative to `src/ngrok`.

### Server

| part | state | operations | what is hard |
|---|---|---|---|
| control registry, `server/registry.go` 163-207, and `server/control.go` 63-126, 344-356 | id -> Control; `Control.id`, which `Replaced` blanks | `Add`, `Del`, `Get`; `NewControl` enters itself and waits for the Control it replaced; `stopper` calls `Del` | reconnects race with the shutdown of the old connection and with each other; `id` is read without a lock |
| Control, `server/control.go` | channels `in`, `out` (unbuffered) and `proxies` (bounded pool); `tunnels`; `lastPing`; four `util.Shutdown`s | goroutines `NewControl`, `writer`, `reader`, `manager`, `stopper` | everybody waits on everybody: an ordered teardown with channels closed under their senders, panics that are recovered, a heartbeat |
| proxy pool and visitors, `server/main.go` 30-51, `server/control.go` 294-342, `server/tunnel.go` 230-301 | pool per Control | `NewProxy`, `RegisterProxy`, `GetProxy`, `HandlePublicConnection` | a pool that is filled, emptied and drained by different goroutines; stale proxies and retries; timeouts |
| tunnels, `server/tunnel.go`, `server/registry.go` 20-161 | URL -> Tunnel; `Tunnel.url`; listeners; affinity cache | `NewTunnel`, `Register`, `RegisterRepeat`, `RegisterAndCache`, `Del`, `Tunnel.Shutdown` | registration and shutdown are several steps with windows between them |
| affinity cache, `cache/lru.go` | list, table, size counter, file | `Get`, `Set`, save, load | unsigned size arithmetic; eviction; a file rewritten in place |
| public HTTP listener, `server/http.go` | none of its own | looks up the tunnel of a Host header, compares the credentials | tunnel may go away after the lookup, or not have its credentials yet |
| listening, `server/main.go` 53-98, `conn/conn.go` 55-85, `msg/conn.go` | two variables `err` that goroutines share | `Listen`, `tunnelListener`, `ReadMsg` | one connection's error read by another; messages that come in pieces or not at all |
| metrics, `server/metrics.go` | counters, a channel of capacity 1000 to a reporting goroutine, its batch | `OpenTunnel`, `CloseTunnel`, `OpenConnection`, `CloseConnection` | `stopper` blocks when the channel is full; reports fail |

### Client

| part | state | operations | what is hard |
|---|---|---|---|
| model, `client/model.go` | id, tunnels by public URL, connection status, back-off | `Run` (reconnect loop), `control`, `proxy`, `heartbeat` | reconnects keep the id and the tunnel table; heartbeat shares two unsynchronised times with the control loop |
| controller, `client/controller.go` | command queue, views, wait group | `Go`, `Shutdown`, `doShutdown`, `Update` | shutting down twice, goroutines that die |
| views and broadcast, `util/broadcast.go`, `client/views` | subscribers, history ring | `Reg`, `UnReg`, `In` | a subscriber that unsubscribes while it is being sent to |
| configuration, `client/config.go`, `client/cli.go` | the configuration file, shared by all clients and the user | `ParseArgs`, `LoadConfiguration`, `SaveAuthToken` | a file that is read, truncated and written without a lock, at every connection; addresses in several notations |
| HTTP inspection, `proto/http.go`, `conn/tee.go` | pipes, transactions | `WrapConn`, `readRequests`, `readResponses` | a mirror that stops being read stops the traffic |

### Common

`util/shutdown.go` (two-phase shutdown: once-only `Begin` and `Complete`, each
waited for by closing a channel), `util/errors.go` (recovering panics),
`util/ring.go`, `util/id.go`, `conn/conn.go` (listen, join, logging),
`msg/` (length-prefixed JSON), updates. `src/bindata` is the generator that
embeds asset files in both programs: a table of contents under construction and
the paths visited; what is hard are links, prefixes and names that become one
identifier.

### How the parts interact

- A connection that says `Auth` becomes a Control (`NewControl`), one that says
  `RegProxy` a proxy connection (`NewProxy`); both go through the control
  registry. An `Auth` with a known id replaces the Control registered for it.
- `reader` -> `in` -> `manager` -> `out` -> `writer`: each arrow is an
  unbuffered channel. Handlers of public connections send on `out` too.
- `manager` puts tunnels into the tunnel registry, `stopper` takes them out.
- The HTTP listener and every TCP tunnel's listener find tunnels and run
  `HandlePublicConnection`, which uses the Control's pool.
- `stopper` waits for `shutdown.Begin`, calls `Del`, closes `in`, waits for the
  manager, closes `out`, waits for the writer, closes the connection, shuts all
  tunnels, closes and drains the pool, and only then calls
  `shutdown.Complete`, on which a replacement's `NewControl` waits.

### What makes each part correct

- Registry: whoever is found under an id is alive and is told that id; one
  incarnation follows the other, none is replaced twice, all who wait are
  served.
- Control: nobody sends on a channel that is closed unless it recovers;
  everything begun completes; nothing of a completed Control is left behind.
- Pool: one visitor per proxy connection; no proxy is forgotten.
- Tunnels: registry, tunnels and listeners agree, once a tunnel has its URL; only
  its owner removes a URL.
- Listening: a connection is judged by its own message, and gets an end.
- Public HTTP: the credentials decide, once anybody knows the URL; what ends is
  counted once; whoever reports goes on, as long as requests to Keen.io end.
- Asset embedding: every file once, under a name and a function of its own, and
  back again.
- Configuration: a save changes the token and nothing else; what a client runs
  with is what was asked for, and can be dialled.
- Cache: list, table and size agree; capacity kept; least recently used out
  first; a load finds what was saved, if the file was saved whole.

## Modules

| module | models | how |
|---|---|---|
| `ControlRegistry` | `Add`, `Del`, `Replaced`, `util.Shutdown`, the parts of `NewControl` and `stopper` that use them | the *protocol* between incarnations of a client; what a running Control does is left open. It is the abstract specification of `Control` |
| `ControlRegistryProofs` | | the proofs about it |
| `TunnelListener` | `conn.Listen`, `tunnelListener`, `ReadMsg`, `NewProxy` | extends `ControlRegistry`: its connections come in here, become Controls by its actions, or proxies of those it finds there. `readErr` and `acceptErr` are the shared variables; `crossed` is history: whose error was overwritten before it was tested |
| `TunnelListenerProofs` | | the proofs about it |
| `Control` | all of `server/control.go`, `NewProxy`, `HandlePublicConnection` | five goroutines per Control, one per proxy connection, one per visitor; `Reg == INSTANCE ControlRegistry`, each step that touches the registry conjoins that module's action |
| `ControlProofs` | | the proofs about it |
| `LRUCache` | `cache/lru.go` | state of the cache and its file, operators for the pure parts |
| `LRUCacheProofs` | | the proofs about it |
| `ClientSession` | `Run`, `control`, `proxy`, `heartbeat` of `client/model.go` | one client process and its control connections, each with the server's side of it; again `Reg == INSTANCE ControlRegistry`. Messages to the client are a queue per connection, so that what travels on different connections overtakes |
| `ClientSessionProofs` | | the proofs about it |
| `Broadcast` | `util/broadcast.go` | one broadcast; its actions are joined with the step of the goroutine at the other end of the channel |
| `ClientConfig` | `client/config.go`, `client/cli.go`, `Main` | client processes that read one file at their start and save their token in it; the rules for addresses, tunnels and command lines are operators, `due` and `spoilt` are history variables |
| `ClientViews` | `client/controller.go`, `client/views/term/view.go` | `Run`, what `doShutdown` starts, `TermView.run` and `input`, with two instances of `Broadcast` (updates, redraw) |
| `HttpInspection` | `proto/http.go`, `conn/tee.go`, `conn.Join`, `PlayRequest`, `client/views/web` | each connection's two copiers, two pipes and two readers, and the views they tell, with two instances of `Broadcast` (`Txns`, `wsMessages`). A copier that is done and its closing of both connections are two steps, a tab's receiving and its writing too; `left` is history: the visitor was lost before the closing |
| `ClientProofs` | | the proofs about `HttpInspection`, `ClientViews` and `ClientConfig`: three parts that share no state. Since it extends all three, the names in `ClientViews` and `ClientConfig` say whose they are (`ViewsSpec`, `ConfigTypeOK`) |
| `TunnelRegistry` | `NewTunnel`, the tunnel registry, `Tunnel.Shutdown` | composes the managers and stoppers of several Controls with `Affinity == INSTANCE LRUCache` |
| `TunnelRegistryProofs` | | the proofs about it |
| `KeenMetrics` | `KeenIoMetrics` of `server/metrics.go` | the channel, the goroutine that collects and posts; `Send` is joined with a step of the sender |
| `PublicHttp` | `server/http.go`, with the parts of `NewTunnel`, `Tunnel.Shutdown`, `registerTunnel`, `writer`, `stopper` and `HandlePublicConnection` it meets | visitors, and the tunnels of one request, with `Keen == INSTANCE KeenMetrics`; of the writer only that it may die (`dead`) |
| `PublicHttpProofs` | | the proofs about it |
| `Bindata` | `src/bindata`: `convert.go`, `toc.go`, `restore.go`, and the functions it generates | `findFiles`, the names, the table and the tree as operators on a file system with links; `Validate`, `Locate`, `Write`, `Restore` are the steps of a run. Recursive operators, so nothing is proved about it |
| `MC*` | | instances for TLC; `MCControlLive` has three of `Control`'s in one |

Conventions. Each member of `Ctls` is one control connection, so a client that
reconnects is a new member that presents an old id. A goroutine's position is a
function from Controls (`nc` for `NewControl`, `wr`, `rd`, `mg`, `shut` for
writer, reader, manager and stopper), visitors (`hs`) or proxy connections
(`px`) to a label; labels name the blocking operation the goroutine is at. A
step is what a goroutine does between two operations another goroutine can see:
a critical section is one step, an access without a lock is a step of its own.

*Channels.* A send on an unbuffered channel is a rendezvous: the guard is that
the receiver is at its receive (`Out(c)`: the writer is at `recv`). A channel is
closed from the moment `stopper` closes it, which its label `shut[c]` tells
(`InClosed`, `OutClosed`, `ConnClosed`, `ProxiesClosed`). A send on a closed
channel panics; every function that recovers from this has an action for it
(`ReaderStopped`, `GetProxyError`, `ReplaceProxy`, `RegisterProxy`), for the
others the property `TeardownInOrder` says it does not happen.

*Unsynchronised reads.* `stopper` reads `c.id` (control.go:266) while `Replaced`
may assign it. A Go string is two words; the assignment is of the empty string,
and a reader uses the length with the pointer, so the outcomes are the old id
and the empty one. The read is a step of its own before `Del`'s critical
section. The `err` of `tunnelListener` is written and read by all connections'
goroutines without order, so a goroutine's test may see its own assignment or
the latest one (`Sees`): the compiler may keep the value or load it again.

*Writes* to a connection may fail at any time (`WriterExit`, `StartFails`),
reads too (`ReadError`); a client may be dead without either being noticed
(`gone`). Timers fire at any moment.

*Data.* Message contents are reduced to what decides control flow: the kind, and
for `ReqTunnel` the number of protocols. URLs are values without structure;
`"http"` stands for `http` and `https`, whose URLs differ in their prefix only.

`Control` does not have the windows within tunnel registration (there, opening
and shutting a tunnel are one step each); `TunnelRegistry` has these, and of a
Control only that its manager opens tunnels one after another, that its id may
be blanked, and that its stopper shuts them one after another once the manager
has stopped. That the latter holds in `Control` is part of its property
`TeardownInOrder`. `PublicHttp` has the same of a Control, and in place of URLs
the tunnels themselves; what a visitor may meet on the way to a proxy
connection is `Control`'s again.

## Runs

| run | instance | question |
|---|---|---|
| `registry` | 3 connections, 2 ids | do incarnations follow each other in order, under every race of `Add`, `Replaced` and `Del`; does each connection's own message decide about it, and do all get an end that do not wait for a hung Control? |
| `registry_del` | 2 connections, 1 id | can a stopper delete its replacement's entry? (it can, see Findings) |
| `control_replace` | 2 connections, 1 id, 1 URL, no proxies | is the teardown ordered and complete while a client reconnects, and does `Control` implement `ControlRegistry`? |
| `control_pool` | 1 Control, 3 proxies, pool of 1, 2 visitors, 2 attempts | are proxies exclusive and none left behind, with a shutdown at any moment? |
| `control_live` | 3 scenes: 1 connection with 1 proxy, 2 visitors and 2 protocols per request; 2 connections of one client, the first with tunnels; 3 connections of one client | does everything end, apart from what a wedged Control or a `CloseTunnel` that does not return holds up? |
| `public_http` | 2 visitors, 2 tunnels of one request, channel of 1, a writer that may die | who gets past the credentials, what is counted, who can be made to wait? |
| `bindata` | 408 file systems, 32 command lines, 3 links per path | is every file embedded once, and restored? |
| `session` | 2 connections, 2 tunnels wanted, 1 URL, 1 proxy, 1 ping | does a client that reconnects find its session; do visitors reach the right local address; when is a working connection given up? |
| `inspection` | 1 connection, a visitor's or a replay's, 1 tab, which may stall, 1 request unanswered at a time | what can stop the traffic that is mirrored; do the readers end; do views use a response that is not there? |
| `views` | 3 quit commands | does the program end after Ctrl+C, and is the terminal restored? |
| `tunnels` | 2 Controls with a tunnel each, 2 virtual hosts, 2 ports, cache of 2 bytes, 1 restart | do registry, tunnels, listeners and cache agree? |
| `config` | 2 clients, 5 command lines that can work and 7 that cannot, 11 files, 2 starts, 1 edit | what do saving clients leave of the user's file, and does a client run with what it was asked for? |

What the properties say is written above each of them in its module.

**Bounds and why they are enough.** *Three connections on two ids* give a chain
of replacements of length two with a bystander; the properties relate a Control
with its predecessor and its successor, so a third link adds nothing, and the
proofs cover any number; three are also enough for two connections' errors to cross
while a third waits for its predecessor. *Two connections on one URL*: a Control and its
replacement compete for it, `TunnelsOwned` relates two owners. *Three proxies on
a pool of one and two visitors*: the pool overflows, is empty, and two visitors
compete for one proxy. `MaxTries` is 20 in the code (`2*proxyMaxPoolSize`,
tunnel.go:258) and 2 here: a first, a retry, and giving up. `PoolCap` is 10 and is
1. *The scenes of `control_live`*: liveness cannot use symmetry, so what one Control
does with its visitors, what a replacement does while its predecessor tears down
its tunnels, and a chain of three are one instance each, and the connections come
in a fixed order. A wedged first, a second that waits for it and a third that
replaces the second is the shortest chain in which one that is not wedged itself
has begun its shutdown and cannot end it; a longer one repeats that. `MaxMsgs` and `MaxProtos`
bound what a client sends; one `ReqTunnel` is enough to open the one URL, a
second message would only find the manager sending again. In
`tunnels`, `CacheCapacity` 2 with values of sizes 1 and 2 makes entries be
evicted, updated in place with a larger and a smaller value, and even evicted
at once; `CacheWidth` 3 makes a negative difference wrap as it does in 64 bits
(`SizeAssumption` is what the code relies on: capacity and one value fit).
In `session` one URL is shared by two requests, so that after a
reconnection the other one may get it; one ping is enough for its Pong to
overtake `lastPing`. In `inspection` one connection with any number of
requests suffices for a hanging tab to hold up everything: five requests, by
which the tab's failure is noticed, the tab's broadcast, `updateHttp`, `Txns`
and at last a reader of the pipes are stuck one after the other; another
connection would only be a further victim. Two transactions are all that
anybody refers to at a time (`TxnsSuffice`, part of the type invariant).
`MaxOwed` 1 leaves out pipelining (and so the chunk `"double"`), for which nothing
is promised (`odd`). Three
quit commands: a first, a second that crosses it, and one that a panic asks
for. In
`public_http` `ChannelCap` is 1000 in the code and 1 here: full, one in the batch, and
both others waiting; two visitors and two tunnels each have somebody to overtake
them. In `bindata` the file systems have up to three entries in a directory and in
one below it, files, directories, one that cannot be listed, and links up, down,
sideways and to themselves, relative and absolute; the command lines have
overlapping inputs, an ignored name, and prefixes that are a directory, a file,
end inside a name, or are missing; `MaxLinks` is 40 in Linux, and 3 suffice to
pass a link again. Names need no more letters than to be translated alike. In
`config` two clients suffice for a save to meet another in each of its
steps, `MaxEdits` 1 for an edit to meet a save, and the files and command lines have
every form and every cause of failure there is in `LoadConfiguration`. `MaxAttempts` is 5 or 20 in the code. `MaxReopens` bounds restarts. No bound is
in the code's way: each stands in the guard of an environment's action.

Two things are left out of the model of time: a wall clock that is stepped between
a Ping and its Pong (`lastPing`, `lastPong`), and how long anything takes.

`CHECK_DEADLOCK` is off: connections are bounded, and when all have come and
gone the system stops. Symmetry is used in `control_pool`, `session`
and `config` only, which check no liveness.

**Fairness.** `FairSpec` of `Control` assumes weak fairness of each goroutine
(the Go scheduler runs what can run) and that timers fire. Nothing is assumed of
clients: whether they connect, send, hang up or answer is free, and so is
whether a write fails. Weak fairness suffices: a goroutine blocked on a
rendezvous stays enabled until its partner moves, and a partner that is busy
becomes free again because a client's messages are bounded. That `ReadError`
is *not* fair is what makes `DeadClientsReaped` say something: the heartbeat
alone must be enough. `WF_vars(HeartbeatLost(c) /\ c \in gone)` is the passing of
`pingTimeoutInterval` without a ping, which is only sure for a dead client.

`Reported`, the return of `metrics.CloseTunnel`, is not fair: it waits for room in
the channel of `KeenIoMetrics`, and that for a request without a timeout. Tunnel
shutdowns in `Control` therefore may stop there, and `PublicHttp` says when they do.

In `HttpInspection` what copies and reads is fair, and so is the closing of the
connections by a copier that is done; that a read of a closed connection returns is,
too. Visitors, the local server and browsers are not: a visitor need not take what
is written to him, and a tab may stall with its connection open, since
`WriteMessage` has no deadline (`TabWrites`, web/view.go:46). `TrafficFlows` and
`AnalyzersEnd` assume `TabsTake`, that no tab stalls for ever. In `ClientViews` the
branches of a `select` are strongly fair, since Go chooses at random among those
that can be taken.

In `TunnelListener` what a peer sends, and whether, is free: the deadline alone
must end the wait for it. The module does not have what a running Control does, so
it assumes no more than `Control` can promise: that `NewControl` gets through its two
sends *or* the writer fails (`Sends`), and nothing of a shutdown once it has reached
the teardown. What that may hold up is `Hung`, and `ConnectionsSettle` exempts it.

In `PublicHttp` visitors are free, too, and `Keen!Post` is not fair, since
`AuthedRequest` has no timeout. `Tell`, the manager's send to the client, is enabled
only while the writer lives, and a handler finds a proxy connection or gives up
only while somebody receives its requests for one, or the pool is closed
(`Heard`). `WaitsForKeenOrWriter` assumes that requests to Keen.io end and says that
only a dead writer can hold anybody up then.

**Wedged and held up.** A writer that dies while its manager, or `NewControl` between
its two sends, is about to send leaves the code hanging there (`Wedged`, see
Findings). What hangs with it is `HeldUp`: a Control that is wedged, one whose
stopper is in `metrics.CloseTunnel`, and one whose `NewControl` waits for one that is
held up, over any number of replacements. The liveness properties of `Control`
exempt those for which this lasts for ever, and `control_live` shows that there are no
others: `CompletesOrWedged` of shutdowns, `DeadClientsReaped` of clients that are
gone, even those that still wait for their predecessor, and `HandlersReturn` of
visitors (whom only the wedged Control itself can hold).

**Mutants.** Each property has in PROJECT.json a mutant of a definition it
depends on, a plausible slip in the code, under which its run fails. The mutated
forms stand before the definitions they replace, in comments marked `Mutant`.

## Proofs

TLC checks the instances above; what follows is proved for all values of the
constants, from the assumptions stated with them. Each inductive invariant holds
on the instance of its run, too, and each theorem but those marked * names a
property that a run checks.

**The registry.** `ControlRegistryProofs`, for any sets of connections and ids,
from `NoCtl \notin Ctls` and `NoId \notin Ids` alone:

| theorem | says |
|---|---|
| `RegistryInvariant`* | `Spec => []IInv`, the inductive invariant |
| `RegisteredIsLive` | what the registry yields is never past its own `Del` |
| `ReplacementsAreOrdered` | a Control answers only when its predecessors are completely shut down |
| `ReplacementChain` | nobody is replaced twice, no replaced Control is entered again |
| `AnsweredWithEntry` | whoever is entered and has answered told its client the id it is entered under |
| `TypeCorrect`* | types |

*The argument.* None of the properties is inductive alone. `LookupLive` says
that `controls[i]` still carries `i`. When `Add` finds `old` there, nobody can
have replaced `old` before: a replaced Control's id is blank (`ReplacedBlank`).
Hence `ReplacedOnce`. A `Del` removes at most the entry of `delArg`; that it may
remove somebody else's (see Findings) leaves all of these true. For `Add` not to
disturb what is known about `c` itself, `NotYetAdded` says that a connection
before `Add` has no id and no predecessor, and is not begun; `StopperState`
relates `stopper` with `NewControl` and the two phases of the shutdown.

**Who implements it.** Three modules have Controls of their own, each with
different parts of the program around them. Each is proved to implement
`ControlRegistry` step by step, and thereby inherits the invariant above, which
the proofs about it then use (`Lib!IInv`).

| theorem | says |
|---|---|
| `ControlProofs!ImplementsRegistry` | the five goroutines of every Control, its proxies and its visitors together keep to the registry's protocol |
| `TunnelListenerProofs!ListenerImplementsRegistry`* | so does whoever comes in at the listener, although all share one `err` |
| `TunnelListenerProofs!ListenerKeepsRegistry` | hence the registry's four properties hold of the listener |
| `ClientSessionProofs!SessionImplementsRegistry`* | so does the server of a client that reconnects, whatever is lost on the way |

**A Control and its teardown.** `ControlProofs`, for any number of connections,
proxies, visitors and URLs, any `PoolCap`, `MaxMsgs`, and positive `MaxTries` and
`MaxProtos`:

| theorem | says |
|---|---|
| `TypeCorrect` | types |
| `TeardownIsOrdered` | tunnels are shut only when manager and writer have ended, and `out` is closed only when the manager and `NewControl`, the senders that do not recover, are done; the reader, which sends on `in`, and handlers, which send on `out`, may meet a closed channel and recover |
| `ShutdownIsComplete` | a Control that has completed has left no registered URL and no pooled proxy; its manager and writer have ended, `in` and the connection are closed. The reader is not waited for: it ends by itself |
| `RegisteredTunnelsAreOwned` | each registered URL is its owner's, who has not completed |
| `ReconnectingFindsUrlsFree` | a client that is answered after a reconnection finds none of its predecessor's URLs taken by it |
| `ProxiesAreExclusive` | a proxy connection is never had by two |

*The argument.* `stopper` waits for a goroutine, and stages later something is
true because that goroutine has ended and stays so. `IInv` says it stage by stage:
`StageOfStopper` ties `stopper`'s place to the registry's view of it,
`StagesPassed` keeps what each wait has established, so that the manager cannot
open a tunnel after the last was shut, nor anybody fill the pool after it
was drained; `ProtosLeft` and `AttemptsLeft` bound what a manager and a visitor
still have in hand. `PredecessorUrlsFree` then combines `NothingLeftBehind` of the
predecessor with `ReplacementsWait` of the registry. `TeardownInOrder` is a
property of steps and follows from the same invariant.

**The listener.** `TunnelListenerProofs`, from the registry's two assumptions:
`ListenerTypeCorrect`, and `OthersErrorsNeedARace`: another connection's error
decides about a connection only if it was written between its own read and its
own check. *The argument.* `ErrTraced` says that until its check a handler
finds its own result in `err`, or one whose arrival since is on record; `Handed`
that what is handed over is nobody's yet, so that the history of a connection
starts empty.

**The session.** `ClientSessionProofs`, for any configuration (`FreshAssumption`:
generated ids differ; `AskedAssumption`: each configured tunnel asks for some URLs):

| theorem | says |
|---|---|
| `SessionTypeCorrect` | types |
| `RegProxysFindHome` | if the connection a client uses is registered, then under the id that its `RegProxy`s carry |
| `VisitorsReachTheirTarget` | once a client has read the `NewTunnel` of a URL, its visitors are forwarded to what that tunnel's request named; the cases in which they are not are those `RightTargetOnceTold` lists |
| `WorkingConnectionsAreKept` | a connection that works and owes no Pong is given up only if a Pong was handled before its `lastPing` was set |

*The argument.* `OneInUse`: at any time all connections but the one the client uses
are lost, so what holds on that one alone holds on all that matter. `IdTold`: an
`AuthResp` under way carries the id told for good. `UrlsTold` relates the server's
table of URLs with the client's and the messages between them: a `NewTunnel`
is either read or still in the mail, and since messages on *different* connections
overtake, nothing stronger is true. `PingsAnswered`: while the client waits, the
Ping or its Pong is on its way.

**Tunnels and their cache.** `LRUCacheProofs`, for any keys, values and
sizes, as long as capacity and one value fit in the counter (`SizesFit`):
`CacheTypeCorrect`* and `CacheIsCorrect`*: after every operation list, table and
size agree, what went was oldest and no more than needed, and a file saved in
full is loaded in full. `TunnelRegistryProofs`, for any tunnels, owners,
URLs, ports and a cache of any size:

| theorem | says |
|---|---|
| `TunnelTypeCorrect` | types |
| `AffinityIsKept` | used by all managers at once, and reloaded, the cache stays consistent: the above, in the system it is used in |
| `RegistryIsRight` | registry, tunnels and listening ports agree |
| `DelTakesOnlyItsOwn` | although `Del` is unconditional, a URL is only taken from a tunnel by that tunnel's own `Shutdown`, or by the server's death |

*The argument.* The cache's counter is unsigned, and eviction subtracts from it, so
all hangs on the counter being the sum of the list (`Agrees`): then no
subtraction wraps, and the loop ends before it finds the list empty. Sums over
lists, the loop that evicts and the loop that loads are recursive functions, and
the proofs are by induction on numbers; the library's induction theorem
takes an operator, so `IntervalInduction` is one on *sets* of numbers, derived
from the well-foundedness of `<`. `RInv` adds to the cache's invariant
(`CacheInv`) that a cache key names the protocol of the URL found under it, or else
a cached URL of the one protocol could be tried for the other; `Shape` says what the
locals of `NewTunnel` hold at each of its stages: in particular that after `Register` the
URL is this tunnel's, which makes the unconditional `Del` right.

**Public HTTP.** `PublicHttpProofs`, for any number of visitors and tunnels
and any capacity of the channel:

| theorem | says |
|---|---|
| `EventsAreCountedOnce` | each event is on the channel, in the batch, reported or lost: one of these, and once |
| `OnlyCredentialsDecide` | who gets in had the credentials of the tunnel, encoded once, or came with their bare text before the encoding; who is refused did not have them, or came before the encoding |

*The argument.* `OnePlace` is `CountedOnce` with the places taken apart, since what
an action moves is a single event; `EncodedOnce` counts the encodings by stage of
`NewTunnel`; `Found` remembers that a handler past the lookup holds a tunnel that was
registered.

**The client.** `ClientProofs` has three parts.

*HTTP inspection*, for any finite number of connections, any tabs and `MaxOwed`,
and at least two transactions for each connection (`TxnsAssumption`):

| theorem | says |
|---|---|
| `InspectionTypeCorrect` | types; and that the bound on transactions is in nobody's way (`TxnsSuffice`): whoever reads a request always finds one that nobody refers to |
| `ViewsAlwaysUnderstand` | no view reads a response that is not there yet |

*The argument.* A transaction is known to four: `readRequests`, `readResponses`,
the broadcast, and the views, to which it comes once with the request and once
with the response. `Core` says who has what: readers hold a transaction exactly
in the steps that need it (`Holding`), no two requests share one (`OwnTxn`), the
broadcast sends one item to one view after the other (`InTurn`), and what has no
response yet comes to each view once (`ComesOnce`): still with `readRequests`,
or pending for the view, or known to it. So what a view knows and gets again
has its response (`HasResponse`). That there are enough transactions is a
count: somebody who is about to begin one holds none as a request, so `n`
connections hold `n - 1` as requests and `n` as responses; and while something is
being broadcast, there is a connection whose response is that same transaction, or
its own request's, or none (`Together`), so the broadcast adds none to the count. At
most `2n - 1` are in use, and `TooFew` derives the contradiction from the
cardinalities of surjections' ranges.

*Controller and terminal*, for any number of quit commands (`MaxQuits \in Nat \ {0}`):

| theorem | says |
|---|---|
| `TerminalIsRestored` | whatever the two broadcasts do, `Run` ends the program only with the terminal closed, or after a second quit command |
| `ViewsTypeCorrect` | types; no broadcast has more to deliver than there are channels registered with it |

*The argument.* `TerminalRestored` speaks of `run`; what keeps it true is what the
first `TermView.Shutdown` knows of `TermView.run` as long as there is no other
(`ShutdownKnows`): once its send was received `run` has left its loop, and once
its wait is over `run` has closed the channel, after which it does nothing.
`QuitReceived` is the lemma that a quit command is either the first, whose
`Shutdown` then is about to send, or another one, and that none is forgotten.
For the types, how much a broadcast has to deliver depends on how many channels
are registered, and that on how far `Run` and `TermView.run` have come
(`Registered`).

*Configuration*, for any number of clients, edits and starts, whatever the
user writes into the file and whatever the command lines ask for, as long as
files and command lines have the form that the parsers leave
(`WrittenAssumption`, `InvocationsAssumption`):

| theorem | says |
|---|---|
| `ConfigTypes` | types; what a client runs with has been normalized |
| `TokenSavedAlone` | unless a save was cut short or overlapped, each save has replaced the token and nothing else |
| `ClientRunsAsAsked` | a client runs the tunnels that were asked for, each with a public name and addresses that can be dialled, but for the IPv6 ones under Findings |

*The argument.* What a save writes was read some steps before, so `SavesOnlyToken`
needs to know of the copy in between: `CopiesAgree` says that, unless saves have
overlapped, what a client is about to write is what the file should say, but for the
token. Only one thing of a client's settings is needed for the rest: they are
set at its start, from `LoadConfiguration`, and not touched after. So it is a lemma
about that operator, `LoadedAsAsked`, which follows the defaults, the choice of
tunnels, their names and their addresses one after another; that splitting an
address and joining it again is *not* the identity is in `HostsIn` and `HostsJoined`.

**Only model-checked.** Liveness, which rests on `ENABLED`, which the prover does
not know: `ConnectionsSettle`, `CompletesOrWedged`, `HandlersReturn`,
`DeadClientsReaped`, `WaitsForKeenOrWriter`, `TrafficFlows`, `AnalyzersEnd`, `QuitReturns`.
And `Bindata` (`TocExact`, `RestoresAll`), whose operators recurse over trees of
files: the prover has no backend for modules with recursive operators. Every other
property of a run is a theorem.

## Findings

`control.go:350` says that blanking the id keeps `stopper` from deleting the
replacement. `stopper` reads the id at line 266 before `Del` takes the lock;
a replacement entered in between is deleted (`registry_del`). It keeps
running, but no proxy connection finds it and the client's next connection
will not wait for it.

More disagree with a comment and are exceptions in properties that hold, which
shows that they are the only ones.

`control.go:211` says "kill everything if the writer() stops". If a write
fails while the manager is about to send, the manager blocks on `out` for ever,
`stopper` waits for the manager, and the Control's tunnels, its replacement and
whoever replaces that are never released (`HeldUp`, in `CompletesOrWedged`).

`model.go:300-301` keeps request ids "so we know which local address to proxy to
later". The client's table is keyed by URL and survives a reconnection, in
which the URLs may be dealt out anew; a visitor who comes between the server's
registration and the client's reading of `NewTunnel` is joined with the local
address of another tunnel (`RightTargetOnceTold`).

`convert.go:228-231` says that `safeFunctionName` compares with the known functions
"to prevent conflict based on name translation". The numbered name is not entered
among them: `a/a`, `a/a2` and `a-a` become `aA`, `aA2` and `aA2`, and the generated
program does not compile (`FunctionsApart`).

`tunnel.go:118` says that a port just bound
cannot have a registered URL: `Tunnel.Shutdown` closes the listener before it
removes the URL, so in between it can (`ListenersMatch`). `model.go:128` says that
`serverName` never panics because the address was split before:
`normalizeAddress` splits `[::1]:443` and makes `::1:443` of it, which does not
split again, so a client with such a `server_addr` ends in a panic, and local
addresses of this kind cannot be dialled (`RunsAsAsked`).

`cli.go:19` gives `ngrok -hostname="example.com" -httpauth="user:password" 10.0.0.1`
as an example. `normalizeAddress` (config.go:219-235) makes an address of a bare
port, but not of a bare host: `10.0.0.1` has no port, `SplitHostPort` refuses it, and
the client does not start. It is among the command lines of `config` (`"h"`, in
`RunsAsAsked`: a client that cannot run what was asked for does not run).

Not findings, since no text of the repository promises otherwise, but shown by
properties that have to allow for them: `SavesOnlyToken` settings that are lost when
a save is cut short, when the file cannot be read just then, or when two clients
save at once or one while the user edits; `StaleForCause` allows a heartbeat that
gives up a working connection because the Pong was handled before `lastPing` was
set (model.go:455); `RightTargetOnceTold` a visitor who is turned away because
`StartProxy` overtook `NewTunnel`;
`OwnErrorDecides` a connection that is closed, or a broken message that is let through,
because another connection's error came between (main.go:77);
`ConnectionsSettle` a server that ends because its first `Accept` failed before
`Listen` had returned (conn.go:70), a connection left open after a message
with an impossible length, and a connection that waits for a hung Control;
`RegistryAgrees` a URL that is registered before its tunnel knows it (tunnel.go:86);
`AffinityKept` a file that a crash cut short;
`CredentialsDecide` a visitor with the right
credentials who is refused before they have been encoded, and one with their bare
text who is let in (http.go:102), when nobody has been
told the URL; `CountedOnce` events that are lost with a report that fails;
`EmbedsEachFile` files that are left out without an error because a nested directory cannot
be listed, or holds the file that is the prefix (convert.go:182);
`LinksFollowedOnce` relative links without a prefix, which are followed until the
system refuses; `RestoresAll` names that a prefix has made a file's and a directory's;
`QuitReturns` four ways in which Ctrl+C does not end the client: an update that
comes before `Run` is registered (`StartHung`), one that comes after `TermView`
has gone, or while `Run` unregisters (`UpdatesHung`), a resize just before
(`RedrawHung`), and two quit commands that each close one of the views
(`Storm`); `TerminalRestored` a second quit command; `TrafficFlows` traffic that
is not one HTTP message at a time (`odd`: pipelining, a 1xx before the answer, or
no HTTP at all, after which a reader stops or waits for the wrong side), a local
server that answers before the request is complete (its answer waits for the rest of
the request, for ever if the visitor leaves instead: `readResponses` waits at
http.go:108 for a request that `readRequests` has not handed over), a
tab that is closed while it is being sent to (`TabHung`) and one that stalls without
closing, after either of which no
tunnel's HTTP traffic moves; `AnalyzersEnd` the readers that stay after connections that
the visitor ends first, or whose EOF is read in the moment between the local
server's end and the closing of both connections (conn.go:199-211), or to whom a
write has failed, after replays, and after requests that follow a refused websocket.

## Not modelled, and why

Byte copying, parsing, TLS, logging, templates and drawing: input and output
without state other parts depend on. The server's flags. What `yaml.Marshal` leaves
of a file's comments and unknown keys when a token is saved: nothing.
Updates: an external updater. The texts of the functions `bindata`
generates, compression, and its optional `http.FileSystem`, which neither program
uses. `LocalMetrics`: counters that are only logged. `Ring`: the
views that draw it are not modelled. `Delete`, `Clear`, `SetIfAbsent`
and `SetCapacity` of the cache, and its statistics: never called. Memory, and the
exhaustion of it. The parts listed under Plan: not yet.

## Plan

What this project set out to do is done:

1. `ControlRegistry`, `Control`; `LRUCache`, `TunnelRegistry`; `ClientSession`;
   `Broadcast`, `ClientViews`, `HttpInspection`; `ClientConfig`; `TunnelListener`,
   `KeenMetrics`, `PublicHttp`; `Bindata`: modelled and checked.
2. Proofs of every safety property that a run checks, but for those of `Bindata`,
   and of who implements the registry's protocol.

What could follow: `Bindata` with recursive functions on finite trees in place of
recursive operators, to prove of them what `TocExact` checks; the history `Ring`
together with the views that draw it.
