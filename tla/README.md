# TLA+ models of atterm

atterm shares terminals. A desktop app owns PTYs and keeps their recent output
in a ring; viewers (its own webview, browsers, other desktops) attach to a
session directly or through a relay, to which the desktop opens an *uplink*.
Without accounts, the devices of a *Peer Space* replicate their configuration
among themselves; with an account, preferences go through the relay. The places
where the program's own logic is concurrent and distributed are the terminal
stream from the ring to the viewer, whatever route carries it; the replicated
configuration and preferences; and the desktop window, which follows sessions it
does not own. Those are what this directory models.

| module | models | kind |
|---|---|---|
| `SessionStream` | one session: ring, subscribers, fan-out, replay, resync, client | state machine, TLC and TLAPS |
| `SessionStreamProofs` | types and every safety invariant of `SessionStream` | proofs |
| `LazyStream` | uplink connections, mirrors, streaming on demand | state machine, TLC and TLAPS |
| `LazyStreamProofs` | type correctness, `NoOrphanMirror`, `NoUnmarkedHole` | proofs |
| `ConfigOps` | operations, vectors, the winner of a record, `Replica.Apply` | operators |
| `ConfigReplica` | replicas under arbitrary delivery (uses `ConfigOps`) | state machine, TLC and TLAPS |
| `ConfigReplicaProofs` | counters, frontier, convergence of edits | proofs |
| `ConfigSync` | durable file, compaction, anti-entropy (uses `ConfigOps`) | state machine, TLC and TLAPS |
| `ConfigSyncProofs` | types and every safety property of `ConfigSync` | proofs |
| `OrderedViewer` | what a terminal connection promises on any route | abstract specification |
| `ClientRoute` | a viewer on the relay with an opportunistic direct channel; implements `OrderedViewer` | state machine, TLC and TLAPS |
| `ClientRouteProofs` | types, safety and the refinement of `OrderedViewer` | proofs |
| `PeerRoute` | an accountless viewer between tunnel and direct; implements `OrderedViewer` | state machine, TLC and TLAPS |
| `PeerRouteProofs` | types, safety and the refinement of `OrderedViewer` | proofs |
| `Workspace` | tabs and panes of the desktop window against late answers and lists | state machine, TLC and TLAPS |
| `WorkspaceProofs` | `OnePanePerSession`, `ShellsKeepTheirPane` | proofs |
| `PrefsSync` | one account preference on a desktop or a mobile, against the relay and other devices | state machine, TLC and TLAPS |
| `PrefsSyncProofs` | types, `UnsentEditStays` | proofs |
| `MC*` | instances for TLC | |

`PROJECT.json` lists the components, the runs, the source lines behind every
definition, the hazards and the findings.

## 1. Inventory

**Scrollback ring** (`internal/ringbuf`). State: chunks `(seq, bytes)` under a
byte budget. `Push` evicts the oldest; `Since`, `OldestSeq`, `LatestSeq`,
`TailBytes` read. Right when it is a contiguous suffix of what was produced.

**Session** (`internal/session/session.go`). State: the ring, the subscriber
set, each subscriber's bounded queue, `closed`, the driver, task state, META.
`PushOut` and `Broadcast` fan out with non-blocking sends; `Subscribe` replays
the ring while output continues and joins the set when it has caught up; a full
queue is drained and refilled with a reset marker and the ring's tail
(`resyncSubscriber`). Hard: replay races with eviction and with the producer;
several goroutines may fan out; the producer takes from the queue that the
writer drains. Right when a viewer never silently loses or repeats output and
always ends on the newest chunk.

**Registry and relay uplink** (`internal/session/registry.go`,
`internal/relay/uplink_conn.go`, `desktop/uplink.go`). State: the registry, a
mirror and a streaming flag per session and connection, the desktop's local
subscriptions. `ANNOUNCE` builds mirrors, the first and the last viewer switch
the stream on and off through hooks on goroutines of their own, connection loss
is noticed by each end separately. Right when a mirror streams exactly while it
is watched, and is registered exactly while its uplink lives.

**Relay viewer** (`desktop/frontend/src/lib/connection.ts`, `directRoute.ts`,
`directClient.ts`). State: the WebSocket and its reconnect timer, the route
tracker (state, generation, committed cursor), one direct transport, queued
input, the driver as last heard. Frames, close events, timers and user calls
arrive in any order on one event loop. Right when no output is skipped and
queued input is neither lost, doubled nor overtaken, whichever route is in use.

**Accountless viewer** (`peerSessionConnection.ts`). State: the transport in use,
a candidate, the generation, timers and two kinds of queries to the Go side whose
answers may be stale. Right when it always has something that will reconnect it,
leaves no transport running and otherwise promises the same.

**Desktop window** (`App.vue`, `lib/layout.ts`, `paneDrop.ts`,
`closeTabOptimistic.ts`, `localListMerge.ts`, `remoteTabCleanup.ts`,
`autoCloseTab.ts`). State: tabs with layouts and panes, the merged local list,
seeds the host has not confirmed, sessions being closed, the relay's list. RPC
answers and streamed lists overtake each other. Right when a session has one
pane, a running shell keeps it, and an exited one loses it.

**Preference sync** (`lib/prefsSync*.ts`, `useSessionPins.ts`,
`internal/prefssync`, `desktop/prefssync_adapter.go`, `prefs_sync_loop.go` and the
setters of `app.go`, the relay's table). State: a value and stamp per device with a
dirty flag, the relay's value and stamp, calls in flight, a debounced writer. Hard:
setters and the loop read and write the whole configuration without a lock over both.
Right when devices agree in the end and an edit not yet sent is not undone.

**Config replica** (`internal/configsync`). State: operations with an actor, a
counter, an HLC timestamp and a causal context; a contiguous frontier per actor;
one winner per record; a file holding a signed snapshot and an operation tail.
`Append`, `Apply`, compaction, tombstone pruning, `RebaseSnapshot`,
`StateForPeer`. Hard: any delivery order, crashes between steps, snapshots
that overtake edits. Right when no edit is lost or renumbered, the frontier is
honest, and devices that know the same show the same.

**Config exchange** (`desktop/peer_config_channel.go`, `peer_config_sync.go`,
`peer_config_replica.go`, `internal/configsync/anti_entropy.go`). State: one
transfer per direction of a channel and the acknowledged vector of every member.
An inventory is answered with a plan, the items are stored one by one, and a
final ack lets the sender prune. Any handler error closes the channel.

**The rest** is listed in `PROJECT.json` and in section 12 with the reason it is
not modelled (or not yet).

## 2. SessionStream

One session seen as a relay-side mirror, with the connections of its viewers.
A step is what runs between two lock operations:

* the uplink reader: `PushOut`, `BroadcastMeta`, `EndOfSession` and
  `CloseSession`; a viewer's own goroutine: `ClaimDriver`. Each starts a
  fan-out, `Snapshot` (copy of the set under the lock) and one `Send` per
  subscriber; a full queue leads through `ResyncDrain`, `ResyncTailBytes`,
  `ResyncLatestSeq`, `ResyncMarker` and `ResyncSendTail`, which are separate
  because every one of them can be interleaved with another goroutine;
* `Subscribe`: `Attach` (first snapshot), `ReplaySnapshot`, `CatchUp` rounds,
  `Join` (under the lock, only when there is nothing left; it queues the last
  progress frame and gives up when the session is closed or the queue full),
  `SendSnapshotMeta`;
* the connection: `Deliver` (writer and client handler), `Hangup` (the writer's
  select may prefer `Done`), `Disconnect` (lost, `Unsubscribe`, attach again).

Data are abstracted to what the properties tell apart: a chunk is its seq and
one unit of bytes, so byte budgets count chunks; a terminal is the sequence of
seqs written since the last clear-screen marker; `dedup`, chosen per client in
`Init`, tells the desktop client, which drops OUT at or below its cursor, from
the web client, which writes everything. `PushOut` numbers consecutively, as the
owner of a PTY does; a mirror is given the seq by its uplink, which may repeat or
merge (`LazyStream`).

| run | shows |
|---|---|
| `stream` | the ring is bounded and the suffix of what was produced; labels are honest; holes consist of evicted chunks only; a desktop client shows nothing twice; a drained client is current, and gets there (liveness); a web client's terminal ends on the newest chunk |

All properties but the type invariant speak of the part of a run in which one
goroutine fans out at a time (`OneFanout`: no viewer has claimed the driver): with
two, the code breaks them (section 11). `CoherentView` is refuted even there
(section 11).

Bounds of `stream`: a ring of 2 chunks, a replay cap of 1, batches of up to 2, a
queue of 4 frames, 3 chunks, one META frame, one claim, one lost connection.
`StreamAssumption` asks for a queue of more than two frames: a resync needs room for
its marker and tail, and a newcomer for its META (`subscriberQueueDepth` is 4096).
The ring is exceeded, so eviction, truncation and the cap happen; a replay, its
progress frames and a META exceed the queue, so overflow happens both during the
replay and live; the client can come back with a cursor that is current, stale
or evicted. One viewer is enough for these properties: each is about one queue,
and a second viewer only adds another independent queue to a fan-out. 954
thousand states.

`EventuallyCurrent` assumes weak fairness of every goroutine's next step
(goroutines run) and of `Deliver` (a writer either writes or fails its write
deadline, which ends the attachment and satisfies the property). The producer is
not assumed fair; the property speaks of the time after the last chunk.

## 3. LazyStream

One published session, `MaxConns` successive uplink connections, and viewers. A
mirror is named by the connection that built it. `AnnounceAdd` and
`AnnounceMirror` are the two halves of `reconcile` (registry first, `u.mirrors`
second); `LoseLink` breaks the wire, `DesktopNotices` and `RelayNotices` are the
two ends finding out; `CleanupRemove` removes by session id, as the code does.
`hooks` counts hook goroutines that have not run and ones that have set the flag
but not yet queued their frame.

`DesktopReceives` is the desktop's reader. Every STREAM_REQUEST starts a forwarder
(`fwds`) with a subscription of its own, and STREAM_STOP only cancels it: until
`ForwarderEnds` it may send what it had queued, next to a forwarder started since
(`live` is the one `streaming[id]` names). `Forward` sends a frame of the replay, which
may merge any number of chunks under the last seq, or one live chunk; `ForwardMarker`
sends the seq-0 reset marker that precedes a replay whose beginning was evicted or
capped, and `Overflow` is a resync of the forwarder's subscription (`MaxShed`). `ring`
is what the relay's reader pushed to each mirror.

| run | shows |
|---|---|
| `lazy_uplink` | `NoOrphanMirror`; a mirror never misses output in the middle without a reset marker (`NoUnmarkedHole`), whatever forwarders overlap; under fairness a lost connection's mirror is forgotten |

Bounds: two connections (one reconnect, overlapping the old cleanup), two
clients, two attaches (the last viewer can leave and another come), two chunks, one
overflow; 564 thousand states.
Fairness: both ends notice a lost link (read error or the 25 s ping), the desktop
reconnects with bounded backoff, goroutines run. Nothing forces viewers to attach
or the network to fail.

Left out: a session that disappears from an ANNOUNCE, owner mismatch, idle
timers, notifications and the inbound forwarder. How a subscription fills and
overflows is `SessionStream`'s subject: here it delivers in order, and jumps only
behind a reset marker.

## 4. ConfigOps and ConfigReplica

`ConfigOps` has the pure part: operations on one record, `OperationWins`,
`Frontier` and `Apply`. Devices are numbers in the order of their peer ids. An
HLC timestamp is a number and a tick is any larger number up to `MaxTime`, which
stands for every pair of wall clocks within the skew limit. Signature and schema
checks succeed: all devices are honest.

`ConfigReplica` lets every device append and every operation be delivered to
every device in any order, any number of times.

| run | shows |
|---|---|
| `replica_any_order` | counters never fork; the frontier is exact; at most one winner; as long as no delete is among the operations, equal operations mean equal records (`EditsConverged`) |
| `replica_diverge` | *violated* with deletes: `operationWins` is not transitive. With a delete *d*, a set *s* that saw *d* and a set *b* concurrent with both and later than *s*: *s* beats *d*, *d* beats *b*, *b* beats *s*; the winner depends on the order of arrival |

Two devices with two operations each contain every pairwise relation
(before, after, concurrent, equal timestamps) and the cycle; the proofs cover
every other size. Deadlock checking is off because a bounded set of operations
comes to an end.

## 5. ConfigSync

The durable replicas and the exchange. `disk[d]` is the file (snapshot and tail)
together with the replica built from it; mutations replace the file atomically.
`Edit` is `appendPeerConfigMutations` including the compaction at its end. A
transfer `flow[<<e, d>>]` goes through `Advertise` (d's inventory),
`HandleInventory` (e's plan, validated), `ReceiveSnapshot` and `ReceiveOp` (one
step per item, each ending with `compactIfNeeded`), `FinishTransfer` (d sends its
ack, then prunes; when that fails, the channel closes and the ack may be lost with it)
and `HandleAck` (e records it and prunes). `Break` loses a channel with
everything in flight; `Restart` rebuilds replica and clock from the file: `Replay`
installs the snapshot and applies the tail in order, as `buildReplica` does.
`Missing` is the set of operations a peer lacks and `Sorted` puts it into the order
of actor and counter, in which the plan sends it. The
compaction helpers return the file unchanged where the code fails, and the
action that called them then closes the channel.

| run | shows |
|---|---|
| `sync_deletes` | the file always replays to the replica in use; no edit is lost or renumbered and histories have no gaps (`EditsAreKept`); acknowledgements are durable; frontiers only grow and an edit shows where it was made (`EditsTakeHold`); where it covers no delete, a device shows the latest edit its frontier covers |
| `sync_live` | once channels stop failing every device gets every edit |

`EditsTakeHold` excepts a device without peers: its tombstone counts as acknowledged
by all and is pruned in the call that made it.

Abstractions: a token is a batch of its own, so the batch cursor is the position
in the list; a second `Start` during a transfer, which makes the code close the
channel, is a `Break`; all members stay active and no governance tokens or epoch
changes occur; the snapshot's timestamp is its author's clock; one record.
`sync_live` keeps `TailBound` above the number of operations, because with
compaction the code can get stuck (`SharedBranchSyncs`, section 11).

Bounds: two devices with two operations each, three timestamps, a compaction
threshold of 2 or 3 (so compaction happens before, during and after a transfer),
two transfers at once (both directions of a channel) and one failure;
`sync_deletes` has 1.65 million states. Fairness in `sync_live`: weak fairness of
each direction's next protocol step, because routes are planned again and again
by `runConfigSyncLoop` and the retry loops of the LAN and tunnel hosts; failures
are bounded by `MaxBreaks`.

## 6. OrderedViewer and ClientRoute

`OrderedViewer` is the abstract promise: output is shown in runs of chunks, each of
which ends with something new and begins no later than right after what was shown, and
an input that was typed is taken by the session at most once. A run may begin with
chunks shown before, and the order of inputs across two channels is not promised,
because the code keeps neither (section 11).

`ClientRoute` is one `SessionConnection`. The session is a log of chunks and driver
changes; a socket or direct channel delivers the output after its `since_seq`, the end
of the replay, a META snapshot and then the log as it grows, so what is in flight on a
channel is its position in the log. A frame of a replay may hold many chunks under the
number of the last (`OutTo`), and one on a socket may begin with chunks the socket has
brought before, because the relay's mirror is replayed to again and again. What was
typed into a channel and not taken is `up`, one sequence per channel, which outlives the
socket. A step is one turn of the event loop: `SocketOpens`, `RelayOut`, `RelayEnd`,
`RelayMeta` and `SocketClosed` are the handlers of a socket (any socket, current or
replaced), `TimerFires` the reconnect; `DirectSignalled` to `DirectFails` are the direct
transport from the offer to its end; `SendInput`, `ClaimDriver`, `SetPreferDirect`,
`Suspend` and `Attach` are the calls of the interface. `Tracker`, `AcceptsRoute`,
`AcceptOutput`, `AbortDirect` and their neighbours are the methods of
`DirectRouteTracker`. The direct channel may refuse a frame part way through a flush,
which keeps the rest queued (`FlushRefused`); a bad frame, such as an OUT with seq 0,
fails the route (`DirectFails`). A refusal makes the code fail the route in the same
call; here the channel is "closing" first and `DirectFails` follows, which allows the
code's order and others. `HostTakes` moves a frame of some channel to the host.

| run | shows |
|---|---|
| `client_route` | the terminal was given all output up to the cursor, in runs that skip nothing (`NothingSkipped`); no queued input is passed; no socket is forgotten; `OrderedViewer` is implemented; in the end the terminal and the driver shown are current and nothing is queued, unless the socket is deaf |
| `route_deaf` | *violated* (`FallbackKeepsRelay`): giving a direct attempt up changes the generation under the open relay socket, whose frames are then ignored until the network closes it |

Bounds: two faults (a lost socket and a failed channel, a suspension and a lost
socket, two changes of the preference, and so on) and two events in all among
outputs, inputs and driver changes, 217 thousand states. Two events are enough
for a pair of frames or inputs to be exchanged, merged, doubled or lost, and for one of
each to meet. Fairness: the event loop runs what is due, an open channel delivers
or is reported broken (`ws.onclose`, the channel's failure callback), and the
relay can be reached. Nothing is owed to users, faults or signalling.

Left out: eviction (`SessionStream`), CLOSE at the end of a session, resize, pasted
files, file and service requests, and the content of signalling (one step that may
fail).

## 7. PeerRoute

`c` is the connection object and a transport a slot that may call back after it
was closed. `asks` and `probes` are the promises in flight, each with the
generation it was made under; the code after an `await` is a step of its own
(`FallbackAnswers`, `ProbeAnswers`). `HostJoins` is the start of the host's stream
(`desktop/peer_quicktunnel_host.go`): it subscribes from 0, whatever `since_seq` the
viewer sent, so the whole scrollback is replayed in frames that merge chunks, and it
moves the session's lease to the new subscription, after which the older one delivers
nothing more (`desktop/peer_route_lease.go`).

The `peer_route` run shows that no queued input is passed (`QueueIsYoungest`),
that no transport is left running, that without a transport exactly one of a
reconnect timer and a live fallback query exists (`AlwaysRecovering`), that
`OrderedViewer` is implemented with two transports delivering the same output from the
start,
and that everything is shown and sent in the end. Bounds: two outputs, two
inputs, two faults, three slots (the transport in use, a candidate and one that
was replaced: a slot is free again once its last callback has run; `MaxSlots`) and
up to three failback queries out at once (`MaxProbes`); 514 thousand
states. Fairness: transports become ready, deliver or are reported broken;
queries are answered or time out after a second; timers fire.

## 8. Workspace

`w` holds the refs of `App.vue`. Layout functions are operators (`ClosePane`,
`TransitionLayout`, `SwapPanes`); what the user does and what arrives are actions
that apply them. A shell is started in three steps, `OnSplit` or `StartNewTab`,
`HostForks` and `SpawnReturns`, because the code awaits the RPC, and lists travel
separately (`HostLists`, `ApplyLocalSessions`), so a list can be older or newer
than the answer it meets. `ApplyRemoteSessions`, `GraceElapses` and
`RelayReconfigured` are the relay's list. `Without` filters the tabs, `Detached` vacates
a pane, and the sweep of a local list is in two parts as in `App.vue`: `Swept` empties
panes, `AutoCloseOnExit` closes the tabs this left with nothing to show. The loops over
tabs and selections are recursive functions of their length.

`Init` is an empty window or one with a restored tab (`executeRestore`). Nothing stops
the user while a shell is being started: its tab may be split again, closed, rearranged
or merged away, and the shell itself opened from a list that overtook the answer.
`SpawnReturns` then writes the pane `onSplit` remembered, of a tab that may have
changed; past the end of a shrunken array this leaves a `Hole`, on which searches and
sweeps throw (`Intact`, `SweptUpTo`). `disturbed` is a history variable that remembers
such an interference; no action reads it. A merge may select any session, and marks the
host's own shells remote as `mergeSelectedIntoTab` does. `HostCloses` may fail, which
the code ignores.

The `workspace` run shows, for the part of a run before the user disturbs what waits
for a shell, that panes fit the layout and a session is shown once however it was
opened, dropped, detached or merged (`OnePanePerSession`), that a running shell in a
local pane stays on the screen through every list, move and merge until the window
closes it (`ShellsKeepTheirPane`), and that panes of exited shells are emptied in the
end (`ExitedLeave`). What happens after a disturbance is in section 11; `TypeOK` holds
there too. Bounds: three shells, one remote session, two tabs, three user actions (the
restoring of a tab counts as one); enough for two shells being started at once, for a
grid's neighbour to be swept while another pane is dragged, and for every transition of
`layout.ts`; 235 thousand states. Fairness: RPCs are answered and the list stream
delivers.

Left out: SSH and peer tabs, bulk close, snapshots for recovery, keyboard neighbours
(any pane may be focused), ratios and titles.

## 9. PrefsSync

One key on one device, a desktop or a mobile (`kind`, chosen in `Init`); the account's
other devices reach it only through the relay and are the action `Elsewhere`. `Pin`
changes the set on screen; the debounce timer (or `flushNow`) stores it, marks it dirty
and asks for a push; `Told`, `Resume`, `LoopTakes` and `LoopCalls` make calls, `Answer`
is the relay, `Fails` loses a call before or after the relay acted. Stamps share one
clock that advances with every stamp: the hazards are about the order of stamps and
arrivals, not about skew.

On a mobile, calls overlap but every handler is one turn of the event loop
(`PersistMobile`, `ReturnsMobile`). On a desktop, two goroutines change the same
configuration, each by copying it (`Get`), changing the copy and replacing the whole
(`Set`), with no lock over both: a setter of `app.go` (`Persist` or `OtherEdit`,
`SetterSets`, `Stamps`, `SetterCopiesMeta`, `Marks`) and the sync loop when it applies
an answer (`Checks`, `CopiesValue`, `SetsValue`, `CopiesMeta`, `SetsMeta`). An edit may
be stored at any time, also while a PUT is in flight. `raced` is a history variable: a
setter and the application of an answer overlapped. `prefs_sync_loop.go` says of that
case that an edit can be lost, and it can (section 11).

| run | shows |
|---|---|
| `prefs` | as long as the two goroutines have not overlapped, what replaces an unsent edit of a desktop is a later edit or the answer to the very PUT that carried it (`UnsentEditStays`); where also no call failed, the device comes to store and show what the relay has (`EventuallyAgree`) |
| `prefs_undone` | *violated* (`NoStepBack`), with no overlap: the relay stamps an accepted PUT with its arrival, so an edit stored in between has the older stamp, is refused and undone |

Bounds of `prefs`: two edits, here or elsewhere, two overlapping calls, one edit of
another key or one failed call; 637 thousand states. `prefs_undone` needs two edits and
no more. Fairness: timers and events are handled, calls return, goroutines run. The
user's return to a mobile app (`Resume`) is not assumed: `EventuallyAgree` says of a
mobile that it agrees if the user keeps coming back, without which a phone that missed a
notification may stay behind, as in the code.

Left out: setters that overlap each other, a failed write of the configuration to disk,
the seed after login (`enqueuePostLoginSeed`), a failed PUT that reaches the relay only
after its failure was reported; the reads with which `Push` collects the dirty keys
are one step.

## 10. Proofs

All obligations are checked by TLAPS with Z3, Zenon and LS4. Every theorem holds for
every value of the constants that the module's `ASSUME` allows. The assumptions say
that bounds are natural numbers and sizes positive; two say more: a queue holds more
than two frames (section 2), and the name "reader" is not that of a client.
Each inductive invariant was checked with TLC before it was
proved. In every module the proof has one lemma or step per action, over lemmas that
say what the operators return.

*`SessionStreamProofs`*: `TypeCorrect`, `HonestLabels`, `HolesEvicted`, `ShownOnce`
and `NothingLost` (`DrainedMeansCurrent`), from `Invariance`. The ring is carried by
`RingInv`: with the type invariant it is the run of the newest chunks, so what
`Since`, `TailBytes` and the batches of a replay return is known exactly. The other
properties are far from inductive, since what a terminal shows was decided when its
frames were queued. `StreamInv` says, while only the reader fans out, for every client:

* `ClientInv`: the OUT frames in its queue are in order, and each meets a blank
  terminal or follows what was shown by then, up to evicted chunks (`QueueOK`); the
  screen ends with the cursor and has holes only where the ring evicted (`ScreenOK`);
* `AttachInv`: a subscriber reaches the newest chunk with what is queued, or the
  fan-out in progress still owes it the frame, or a resync owes it the tail; one that
  is catching up reaches with its queue what the catch-up has read. This is what
  makes a lost chunk impossible: someone owes it;
* `ReaderInv`: what is fanned out is the newest chunk, and the tail a resync has read
  ends with the label it has read, which fails as soon as a second goroutine may push
  in between; `ResyncInv`: from the drain on there is room for marker and tail;
* `WebInv`: a web client, which drops nothing, has the newest chunk last on its
  screen or behind the last marker in its queue.

Looking for the invariant showed that `DrainedMeansCurrent` is false once a viewer
has claimed the driver (section 11).

*`ClientRouteProofs`*: `TypeCorrect`, `NoGap`, `SocketsHeld`, `InputKeepsOrder` and
`ViewerRefined`. `StreamInv` relates the position of every channel, also of a replaced
socket whose callbacks still run, to the committed cursor: no channel has passed it, so
a frame that goes on from its channel's position begins no later than right after the
cursor, however many chunks it merges; accepted, it skips nothing. `RouteInv` says which
combinations of route state, transport and socket occur, and that a route which may send
leaves nothing in the queue; without it the queue could be passed. `InputInv`
(`Ordered`) says that typed inputs are spread over the channels, the queue and the host
without a repetition, also when a flush is refused part way. The refinement follows: a
step shows nothing or one run that goes on, takes nothing or one input not taken before,
or stutters.

*`PeerRouteProofs`*: `TypeCorrect`, `TransportsHeld`, `Recovering`,
`InputKeepsOrder` and `ViewerRefined`. `HandleInv` says that the running slots are
exactly the two the connection holds, all of its generation, and that a recovery is
pending exactly when it holds none (`AlwaysRecovering` alone is not inductive: a
stale answer or callback is harmless only because of the generations). `CursorInv`
bounds every slot's position by the cursor, so a merged frame ends below the cursor and
is dropped, or goes on from it; `InputInv` is as above.

*`LazyStreamProofs`*: `LazyTypeCorrect`, `NoMirrorIsOrphaned` and
`MirrorNeverSkips`, for any clients, connections and bounds. `NoOrphanMirror` is
not inductive by itself because `Attach` adds a viewer to whatever mirror is
registered and `CleanupRemove` removes whatever is registered; the proof carries
it with `TypeOK`, one step per action. `NoUnmarkedHole` needs `HoleInv`: forwarders
exist only on the connection the desktop is on, and each of them, the cancelled ones
that have not ended included, is at the beginning, or owes a marker, or the mirror has
a marker or the chunk it sent last. Assumption: `LazyAssumption` (bounds are natural
numbers, at least one connection).

*`ConfigReplicaProofs`*: for any number of devices, operations and timestamps,

* `ReplicaTypeCorrect`, `CountersNeverFork` and `FrontierStaysExact`, with deletes,
  from the inductive invariant `ReplicaInv`. The frontier alone is not inductive:
  one needs that stored operations were signed by somebody (`StoredIsBorn`), that
  nobody else has an operation its author lacks, that a device's own frontier
  counts all its operations and that their contexts say so (`OwnAreCounted`).
  Both actions are reduced to one shape, `Stores(d, o)`: device d stores o, which
  is new or already exists (`NextStores`);
* `EditsConverge`: `Spec => []EditsConverged`, where `EditsConverged` asks that
  replicas with the same operations show the same record as long as no delete is
  among the operations. The extra invariant is `ConvergeInv`: timestamps respect
  causality (`CausesAreEarlier`, which rests on the exactness of the frontier: a
  context covers only operations the author has stored and whose timestamps its
  clock has passed), so the preference of `operationWins` is the total order
  `Later`, and every view holds the maximum of the stored operations
  (`ShowsLatest`). With deletes the statement is false (`replica_diverge`), so
  the condition cannot be dropped.

That a frontier exists at all (the loop in `Apply` stops) is `FrontierFound`,
by well-founded choice of the least missing counter (`LeastElement`).

*`ConfigSyncProofs`*: `SyncTypeCorrect`, `FilesReplay`, `NoEditIsLost`, `AcksDurable`,
`LatestIsShown` and `EditsHold`, with deletes, compaction, pruning, snapshots,
broken channels and restarts, from `SyncInvariance`. None of the properties is
inductive, and they need each other:

* `BornOK`: counters are unique and contexts cover only what existed, as in
  `ConfigReplica`;
* `DiskOK`: the tail holds the replica's operations, each once (`HasTail`), they lead
  without a gap from the snapshot's cover to the frontier (`HasHistory`), and there is
  a run of `Apply` from the snapshot through the tail to the replica in use
  (`CanReplay`); its view is right for its clock, and the
  snapshot's for the snapshot's timestamp (`ViewOK`), because a restart takes the
  clock from there (`ClockIsRestored`);
* `FlowOK`: what remains of a transfer leads on, item by item, from what the receiver
  has or the snapshot before them covers (`Leads`), and what was advertised or is
  being acknowledged is covered by the receiver's file. So a plan computed from an
  inventory that is stale by the time it is used cannot leave a gap, and an ack is
  durable however late it arrives.

`Replay` is a recursive function. What it returns is not proved by induction over
the tail but from `CanReplay`: a run exists, and two functions that both satisfy the
recursion agree, because there is no least position at which they differ
(`ReplayFound`).

*`PrefsSyncProofs`*: `PrefsTypeCorrect`, `PrefsInvariance` and `NoEditUndoneUnsent`:
`UnsentEditStays` holds for any number of edits, calls and failures. The action property
needs `PrefsInv`, the types together with `Apart` for a desktop on which the two
goroutines have not overlapped. `Apart` says what each of them still knows of the store
from the step before: `SetterOK` (a setter's copy is the configuration with its own
change, and its stamp is later than the one it replaces), `ApplierOK` (what `Checks`
found still holds when the value is written) and `CallOK` (a PUT whose stamp the key
still has carries the value the key still has, which is what the comparison of stamps in
`Push` relies on; it does not hold between a setter's value and its stamp).

*`WorkspaceProofs`*: `WorkspaceOnePane` and `WorkspaceKeepsShells`, for any number of
shells, sessions of other hosts, tabs and moves, with any number of shells being started
at once and any selection for a merge. Both speak of the time before the user disturbs
what waits for a shell (`disturbed`); afterwards they are false (section 11).

* `disturbed \/ Inv` is the invariant of the first. `ScreenOK` says that every tab has the
  panes of its layout, and no two tabs an id or a session in common. `SpawnOK` says of a
  shell being started that it is on no screen, and that its pane, if its tab is still
  there, is empty, or that there is room for its tab; `Apart`, that no two shells are
  meant for one place. Without them an answer could overwrite a pane or show its shell
  twice.
* One lemma per operator says what it does to the panes on the screen (`OnScreen`):
  `ClosePane` and `Detached` take away one pane and no other, `TransitionLayout`
  none, a sweep exactly the panes of unlisted shells, a merge shows the selection. The
  user's actions are then one shape, `Acts(D)`: the shells in D leave the screen and
  are closed, and the other panes of the local host stay.
* The filters and folds over tabs are recursive functions. That such a function exists
  for every length (`KeepingRuns`, `FreeingRuns`, `ClosingRuns`), and what it returns,
  is shown through the least length at which it would fail (`LeastElement`), as for
  `Replay`.
* `Held` is what `ShellsKeepTheirPane` needs beside `Inv`, and why a stale list empties
  no pane of a running shell. Lists arrive in order, so a running shell that one of them
  names is named by all later ones (`InOrder`); a running shell of the window is still
  seeded or is named by every list on its way (`Confirmed`); a running shell in a local
  pane is one of the window's (`OfTheWindow`); and a shell not forked yet is known to
  nobody (`Unforked`), so a list cannot name it before its seed.

Every safety invariant and action property of a passing run is thereby a theorem, the
refinement of `OrderedViewer` by both route modules included, except `Workspace`'s
`TypeOK`, which also covers windows with holes and is only model-checked. So are the
liveness properties (`EventuallyCurrent`, `EventuallySynced`, `EventuallyAgree`,
`LostMirrorForgotten`, `ExitedLeave`), since fairness is out of the prover's reach, and
the violations, which are counterexamples of TLC.

## 11. Observations without a run

Properties in the modules that the code refutes; each can be checked with the
bounds given.

* `SessionStream!CoherentView` (ring 3, replay cap 2, batch 2, tail 2, queue 5,
  three chunks, one META): when META frames overflow the queue, the desktop
  client may already have committed the newest seq; the resync marker clears its
  terminal and its cursor drops the tail, so the terminal stays blank until the
  next output. `session.go` promises a "coherent recent view".
* `LazyStream!StreamsOnDemand` (one connection, two attaches, one chunk): an ATTACH
  between `registry.Add` and the entry in `u.mirrors` starts no stream. Hooks
  that overtake each other break it the other way round.
* `LazyStream!AnnouncedIsRegistered` (two connections, one attach): the late
  cleanup of the old connection removes by id what the new one announced.
* `ConfigSync!Converged` (set and delete, two operations, tail bound 5): a
  tombstone that every member acknowledged is pruned before a set concurrent with
  it has arrived; the record returns on one device only.
* `ConfigSync!SharedBranchSyncs` (sets, two operations, tail bound 2): after
  compacting too early a device rejects its own plans for the owner of a branch it
  has since received.
* `PeerRoute!FailbackStaysScheduled` (no output or input, one fault): a failback
  query that is still out when the next tunnel gets ready keeps the timer from
  being set, and its answer is dropped for its old generation; direct is never
  tried again on that tunnel.
* `LazyStream!MirrorIsOrdered` (the run's bounds): `startStream` never fills `since_seq`,
  so a stream that is stopped and requested again replays the scrollback into a mirror
  that already holds those seqs, and a cancelled forwarder may still send beside the new
  one; `Since` in `ringbuf.go` relies on their order.
* `Workspace!PanesFitLayout`, and `OnePanePerSession` without `disturbed` (the run's
  bounds): while `onSplit` awaits its shell the user may close a pane of the tab, and the
  answer writes past the end of the reduced array (`types.ts`: "panes: length matches
  layout"); or open the new shell from a list that overtook the answer, which then shows
  it a second time. Two splits of a grid one after the other choose the same empty pane,
  and the second answer hides the first shell. A hole makes later sweeps and searches
  throw.
* `PrefsSync!UnsentEditStays` and `EventuallyAgree` on a desktop without `~raced` (the
  run's bounds): an edit stored between the check and the write of an answer is undone,
  or left clean and never sent. `UnsentEditStays` on a mobile: `prefsSync.ts` takes over
  every answer to a push, without the check its Go counterpart makes, although it calls
  itself its mirror. `EventuallyAgree` on a mobile whose user does not come back.
* `PrefsSync!PinsKept` (the run's bounds): a change notification inside the 300 ms
  debounce replaces the set on screen, and the timer stores that set.

Others, not stated as a property:

* With a second goroutine fanning out (`ClaimDriver` beside the reader), `PushOut`
  can land between the `TailBytes` and the `LatestSeq` of a resync: the tail is
  labelled with a chunk it lacks, and the client never asks for that chunk again.
  Two resyncs of one queue can also drain each other's marker, and a web client
  is then written the same output twice. And a second goroutine's resync can drain
  a chunk and find the queue filled with META again before its own marker: it gives
  up, and a live, drained client misses that chunk until the next one (a queue of 3
  frames, six META and one claim).
* Only the first snapshot of `Subscribe` is compared with `OldestSeq`: what is
  evicted between two catch-up rounds is skipped without a reset marker.
* A viewer that joins between the snapshot of the CLOSE fan-out and
  `Session.Close`, or whose writer takes `Done` first, is disconnected without
  CLOSE.
* A merged frame is compared with the cursor by its last seq only: the part of it that
  another route has shown is shown again, on the relay viewer and, with a host that
  replays from 0, on the accountless one.
* A merge marks the host's own shells remote; the sweep of local lists then skips them.
* Input sent on the relay just before the direct route is activated can be
  overtaken by input on the direct route; input typed while the socket is
  CLOSING is dropped; `sendResize` does not wait for the freeze to end.

## 12. Not modelled

The repository holds about 77 thousand lines of JavaScript, TypeScript and Vue, the
greater part of which has no behaviour to model: compiled bundles
(`internal/relay/web-dist`), generated bindings (`wailsjs`), translations (`i18n`),
settings forms, terminal rendering and styles. Much of the logic worth modelling is
Go (`internal/`, `desktop/*.go`). The modules therefore translate a small share of
the repository's lines, the ones that keep state shared between actors.

Within reach and not done: driver ownership and task state of a session, file,
service and session-create requests of a viewer, session recovery, the rendezvous
mailbox, peer transport records, membership epochs, request routers, one-time
pairing tokens, multi-instance routing. Out of reach or pure I/O: PTY, SSH, SFTP,
the updater, tunnels as processes, push services, cryptography and codecs.

## 13. Plan

1. Compose `SessionStream` with `LazyStream` (what viewers of a lost uplink are
   told, sessions that leave the manifest).
2. `Workspace` without the condition on `disturbed`, once `onSplit` looks for its pane
   again after the await.
3. `DriverLease` and `TaskState`, then `HybridClock` and the anti-entropy
   assembler, then the other components of section 12.
