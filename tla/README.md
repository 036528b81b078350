# JSON-SCADA: models, checks and proofs

JSON-SCADA is a SCADA system built as a set of independent processes around one
MongoDB database. Protocol drivers write what they acquire into the documents
of `realtimeData`; a data processor follows the change stream of that
collection and turns raw updates into values, alarms and events; other
processes calculate points from points, distribute them to control centres or
copy them to another site; a web server shows them and accepts operator
requests; commands travel through `commandsQueue` back to the drivers.
Processes come in redundant pairs that agree on who is active through documents
too. Nothing is locked: every race is between a read and a later write of a
document, or between goroutines of one process.

This directory holds TLA+ modules of the parts where those races happen, TLC
runs on small instances, and proofs checked by TLAPS. Paths below are relative
to the repository; `PROJECT.json` maps each definition to its lines.

## 1. The system

| Component | State | Operations | Talks to | Hard behaviour | Correct when |
|---|---|---|---|---|---|
| Driver redundancy `src/go-common/jsredundancy` | `protocolDriverInstances` document; per node: active flag, stall counter | cycle: ping, read, decide, (yield delay), write keep-alive | the other nodes and the admin UI, through the document | read and write are two calls; errors, crashes, stale admin saves | a takeover needs a real stall; a live node keeps its role; two active nodes do not last; one always emerges |
| Process redundancy (`redundancy.go`, `redundancy.js`, `processRedundancy` of calculations) | `processInstances` document; per node: active flag, counter, last tag | every 5 s: read, decide, create or update | the other nodes, through the document | both create the document; unconditional writes; a variant that keeps its count | the same |
| Data processor `src/cs_data_processor-go` | realtimeData, SOE, historian; in memory: resume token, five queues, role | fetch, submit, dispatch, convert, batch, flush, reconnect, periodic marks | drivers (change stream), server (same documents), PostgreSQL (SQL files) | computes from a copy fetched earlier; parallel workers; bounded queues; unacknowledged writes; resumed streams | the last source value wins; one point's updates keep order; events once; alarms neither lost nor invented |
| Point conversion (inside the data processor) | none (a function of configuration, document and update) | conversion, quality, limits with hysteresis, alarm, beep, SOE, historian dead band | - | NaN, hysteresis bands, event points, historical updates | the stored range is that of the stored value; no chatter, and nothing cleared, among updates that do not overlap |
| Realtime server `src/server_realtime_auth` | none of its own; writes realtimeData, commandsQueue, SOE | acknowledge, silence, edit properties, order a command, poll its outcome | the data processor and the drivers, through documents | requests are several awaited writes | an edit is checked; an outcome shown is true |
| IEC 60870-5 clients `src/iec60870-5`, cliapp | change stream position, stored execute of the last select, queue of confirmations | watch commands, select, execute, match confirmations | station, commandsQueue | select-before-operate, late confirmations, lost links | executed at most once, as ordered, and reported as it went |
| IEC 60870-5 servers `src/iec60870-5`, srvapp | out-queue of each connection, selected point | distribute changes, answer interrogations, forward commands | control centres, realtimeData, commandsQueue | sender and interrogation in two goroutines; one unlocked selection for all sessions | a master comes to show what the database holds; no execute without a select |
| Calculations `src/calculations` | list of formulas, role | cycle: read all, compute, write what differs | the data processor, through realtimeData | results of old documents, chained formulas, two nodes | documents come to agree with the formulas |
| One-way replication `src/mongofw`, `src/mongowr` | queues, `backfillData`, message counter | forward, sweep, replay; receive, write | each other, over UDP without answer | loss, full queues, unordered writes, sweeps that read old documents | the copy catches up, losses are reported |
| Admin UI `src/AdminUI` | a form | edit driver instances | the instance document | saves an old copy | redundancy recovers from it |
| Other drivers and tools | - | - | - | library-bound, stateless or pure I/O | not modelled (section 7) |

The hazards of this code, each at the line where it bites and with the
properties that watch it, are listed in `PROJECT.json` under `hazards`.

## 2. Modules

| Module | Models | Used by |
|---|---|---|
| `DriverRedundancy` | active/standby arbitration of one driver instance | `MCDriverRedundancy`, `DriverRedundancyProofs` |
| `ProcessRedundancy` | the same for the other processes, in its two variants | `ProcessRedundancyProofs` |
| `PointConversion` | `handleChange` as operators of (configuration, document, update) | `PointAlarms`, `DataProcessor` |
| `PointAlarms` | one point: updates, operator, periodic marks | `MCPointAlarms`, `PointAlarmsProofs` |
| `DataProcessor` | the pipeline from the oplog back to the documents | `MCDataProcessor`, `DataProcessorProofs` |
| `CommandContract` | abstract: what the command path promises | `CommandFlow` |
| `CommandFlow` | a command from the operator to the station and back | `MCCommandFlow`, `CommandFlowProofs` |
| `Calculations` | the formulas and the cycle of the calculations | `MCCalculations`, `CalculationsProofs` |
| `OneWayReplication` | both ends of the replication and the link | `OneWayReplicationProofs` |
| `IecServerData` | distribution and interrogation of an IEC server | `MCIecServerData` |
| `IecServerCommands` | commands received by an IEC server | `IecServerCommandsProofs` |

`PointConversion` is composed into both `PointAlarms` (one point, all of its
life, of the pipeline only that an update is decided on a copy and stored
later) and `DataProcessor` (several points, the pipeline in full, no operator). Operators whose comment starts with
"Mutant:" are deliberate errors, used by no specification: each shows that some
property notices a plausible bug.

### DriverRedundancy
A cycle of `Controller.loop` is two or three steps: the reading
(`ReadOwn`, `ReadOther`, `ReadYield`, `ReadMissing`, `ReadNotAllowed`,
`ReadFails`), the end of the yield delay (`Yielded`), and the keep-alive write
(`WriteKeepAlive`, `WriteFails`); `Connect`, `ConnectFails`, `PingFails`,
`Crash` and `Restart` are the rest of `Run`. `inst` is the document; `active`,
`last` and `count` are `Controller.active` and `stallCounter`; `snap` is the
reading held across the delay. The admin UI opens a form with a copy of the
document and saves all of it (`OpenForm`, `SaveForm`), deletes and creates.
Time tags are compared only for equality and a new one differs from all that
are still remembered, so they are re-used numbers (`Now`).
`lag` bounds the relative speed of running nodes: the code has no clocks in
common but all nodes use the same `TickPeriod`. `seen`, `health`, `lag`,
`faults`, `edits` are history and budgets no node reads.

### ProcessRedundancy
`processRedundancy` is a check (`FindNone`, `FindNotAllowed`, `FindOwn`,
`FindOther`, `FindFails`, `Disconnected`) and a write (`Insert`, `Update`,
`UpdateFails`). The document is `name` and `allowed`; since a keep-alive is
never written twice with one tag, a comparison of tags tells only whether the
document was written since the node looked, which is the set `looked`. `Keeps`
chooses the calculations' variant: not active before the document exists, exit
when the creation fails, and a count that is never reset by an advancing tag.
`quiet` is history; `behind` and `slow` bound relative speed and slow writes.

### PointConversion and PointAlarms
`handleChange` is about 600 lines, most of them texts. What is kept: which
number results, whether it is invalid, the alarm range with its hysteresis, the
alarm flag, the beep, the SOE entries, whether the update counts as a change,
whether it is recorded, and the `$set`. Numbers are integers plus `NaN`, with
Go's comparison rules; `Missing` is a field that is not there. Both limits and
the dead bands are taken as present. Points of type string and json are left out.

In `PointAlarms` an update is three steps: the driver writes it (`Update`), the
event is read with the document of that moment and decided on (`handleChange`),
and the `$set` reaches the document (`Store`). `changes` and `rtCh` stand for
all that lies between; an update overtakes no other of its point, which the
sharding of the workers gives (`PerPointOrder`). Reading and deciding are one
step because `handleChange` looks at nothing but the event; a decision made
late is one that waits longer in `rtCh`. Any emit can find its channel full:
the SOE entries, the beep and the `$set`, each on its own.
Each database write of an operator request is a step as well:
`AckAlarm` then `AckEvent`; `ReadProperties`, `WriteProperties`, `RangeCheck`.
One operator request at a time. `MarkFrozen` and `MarkInvalid` are the
periodic jobs; their time conditions are left to chance.

History variables: `checked`, whether value and limits are still those the
range was computed from; `turn`, the value at which the range last changed,
by an update that was not overtaken; `entry`, whether the alarm that stands has
an entry in the list of events; and in each waiting update `overtaken`, whether
another was stored since its copy was read, and `edited`, whether the limits
were edited since.

### DataProcessor
`oplog -> Fetch -> changeCh -> Dispatch -> inbox -> HandleChange -> rtCh ->
TakeUpdate -> batch -> FlushRtBatch -> wire -> Apply -> docs`, and `soeCh ->
FlushSoe -> soeData`. An event carries the document as of `Fetch`
(`UpdateLookup`), which is what makes it hard. `changeCh` drops its oldest
event, the writers' channels the newest item. `StreamError`, `WatchFails`,
`Watch` and `invalidateToken` are the connection loop. `role` is
`processActive` with the reason for its being false (`starting`, `standby`,
`off` after a cycle without connection). `lost` records by which way, if any,
something was lost: the properties that promise a result do so for `lost = {}`.

Abstractions: a handler's emits are one step; the channel of the SOE writer
includes its batch; the historian and SQL channels are not there (`mirror` is
the set of points with a row); MongoDB executes the unacknowledged writes of
the connection in the order sent (a batch is one command of updates; that it is
marked as unordered only lets it go on after an error); connection handles and open stream are one
flag; the beep point and the update counter are updates of a point "system".

### CommandContract and CommandFlow
`queue` is `commandsQueue`; `next` the position of the driver's change stream,
which restarts from now when it is reopened. `processCommand` is
`CancelCommand`, `SendCommand` or `SendFails`; its writes of the outcome may
fail (`setResult`). `HandleAsdu` is the client's `ASDUHandler`, including the
execute that follows a confirmed select. `WriteAck` is `writeAck`. The station
and the line are external: in order, lost together when the link drops; an
execute may be followed by a termination. `old` is "queued ten seconds ago".
The field `cmd` of messages is history. One connection and one driver node;
commands of unknown connections or with unsupported types never get past the
checks and are left out, as is the raw path of IEC 103.

`CommandContract` says what all this amounts to for an operator: a command is
picked up at most once, then refused or away; only what is away is performed, as
ordered and at most once; a direct command shown as good was performed.
`CommandFlow!ImplementsContract` is the refinement: `orders` is `queue` without
its bookkeeping, `state` comes from the position of the stream and the reasons
for cancellation, `performed` from what the station executed, `shown` from what
the display has polled. The stream, the connection's queues, the stored select,
the line and its losses are all hidden.

### Calculations
A cycle reads the documents one by one in the order of their keys (`Read`) and
writes all updates in one bulk (`WriteBack`); the data processor applies them
later (`Apply`). The formulas are operators: those that are weighted sums are
rows of tables (`Sums`), the others have an operator each. Values are
hundredths, so factors are exact. `NaN` is a result and a parcel like any other:
arithmetic keeps it, comparisons with it are false, so that an operator such as
AND or the span of formula 53 makes a number of it again.

### OneWayReplication
`feed` is the change stream, `chgQueue`, `backQueue`, `backfill` are the
sender's queues and collection, `net` the datagrams in flight, `msgQueue` the
receiver's queue. The counter of messages is unbounded in the code and only its
gaps matter, so a packet carries the number of counts missing before it. A
sweep or a replay begins when the previous ones have been sent and received
(`Sent`), since they are an hour apart. The sweep brings documents one by one,
as they are then, while the data processor of the source may be behind. The
bulk of the receiver is unordered: of the updates for a point any one can come last
(`Outcomes`).

### IecServerData and IecServerCommands
`IecServerData`: `RunRealtimeStream` (`StreamBreaks`, `StreamOpens`,
`ProcessPointUpdate`), `RunDequeueLoop` (`CheckSession`, `PopBatch`,
`SendBatch`) and `Interrogation` (`Interrogation`, `Flush`) are three
goroutines. What they send goes into `link`, the buffers of the session and the
way to the master (`Arrive`); a master that leaves takes `link` with it, and the
rest of an answer, which goes to the session that asked, then reaches nobody. A
batch in hand goes to whatever sessions there are. An event looks its document
up when it is delivered. The factor of the destination is reduced to the sign,
and only the interrogation applies it, as in the code. One connection and
master. `seen` and `lost` are history: whether the last check found a master,
and which points had their last value lost in one of the ways `EventsNotLost`
names.

`IecServerCommands`: the handler of a request is a sequence of steps: the query
of the point, the checks and the confirmation, the comparison with
`lastPointKeySelectedOk`, its reset, and the insertion. Handlers of different
sessions interleave between these steps.

## 3. Runs

| Run | Instance | Shows |
|---|---|---|
| `redundancy` | 2 fair nodes, limit 2, `MaxLag + WriteLag = limit + 1`, a fault and an edit | `TypeOK`, `TakeoverNeedsStall`, `YieldsAtNextReading`, `LiveNodeKeepsRole`, `Converges` |
| `process_redundancy` | 2 nodes, the code's limit 4, 3 faults, 3 slow writes, 2 edits | `TypeOK`, `TakeoverNeedsStall`, `Converges` |
| `points` | an analog point, limits -2..2 and hysteresis 1, values on both sides of the borders, NaN; inverted and event digital points, single and double; historical updates; 3 updates, 2 of them under way at a time, an edit, acknowledgements without bound | `TypeOK`, `RangeAgrees`, `NoChatter`, `AlarmRecorded`, `HistorianTracks`, `AlarmHeld` |
| `pipeline` | 2 points on 2 workers, 3 changes, a point inserted on the way, 2 faults, queues of 2 and 3, batches of 2 | `TypeOK`, `FreshWhenQuiet`, `SoeExactlyOnce`, `PerPointOrder`, `Drains` |
| `commands_safety` | one command with select and one without, 3 faults | `TypeOK`, `ExecutedAsOrdered`, `CancelledNotExecuted`, `GoodMeansExecuted`, `StaleNotSent`, `ImplementsContract` |
| `calculations` | 2 nodes, 3 points, chains of 2 formulas, one through NaN, a change, a switchover or a death | `TypeOK`, `AtMostOneLateCycle`, `Settles` |
| `replication` | 2 points, one too large to send, an update, 2 faults, packets and queues of 2 | `TypeOK`, `BackfillBounded`, `LossReported`, `CatchesUp` |
| `server_data` | 3 points of 2 types, one not interrogated, 2 changes, 2 disconnections, a fault | `TypeOK`, `EventsNotLost`, `InterrogationRepairs` |
| `server_commands` | 2 masters, 3 points, two with select, 6 requests, a fault | `TypeOK`, `UndisturbedNotRefused`, `GrantNeedsSelect` |

Bounds. Two nodes are the deployed configuration; the theorems hold for any
number. The limit of the driver redundancy is 2 instead of the code's 4, which
leaves the arithmetic of the counter and its reset visible; the theorems hold
for any limit. Three updates of two points are the fewest in which an update
can overtake, repeat or undo another of the same point while there is
interference; two faults allow a reconnection that fails again. Queue
sizes are chosen so that they do fill; three entries are what one change of a
digital point writes. Two commands suffice for one
to be taken for the other. A select can be used by two executes only if the
first of them is still being handled, which takes four requests of two masters;
two more let a third point or an unrelated request come between. One update
and two faults let a change be both missed and its packet lost.
In `points`, two updates under way are the fewest of which one overtakes the
other, and the third is stored after it, so that a wrong range or a stale
`historianLastValue` has a successor to be compared with; acknowledgements,
marks and silences are not bounded, and one edit can fall before, between or
after. In `server_data`, two changes of one point let a value be queued behind
an older one or be lost while the older one is shown, and two disconnections let
the master leave again with what it was sent after its return.

`CHECK_DEADLOCK FALSE` is set in the runs `pipeline`, `commands_*` and
`server_commands` because updates, orders and requests are bounded and the
system then rests; `Drains` says that the pipeline does not rest early.

Fairness.
- `redundancy`: every running node keeps cycling, since `loop` does nothing but
  sleep and go on; the service manager owes no restart.
- `process_redundancy`: timers fire and calls return; here the service manager
  does restart a process, because the code exits on purpose and relies on it.
- `pipeline`: each goroutine is an endless loop over its channel or timer, the
  reconnection loop retries for ever and MongoDB executes what it received;
  drivers, faults and the redundancy cycle owe nothing.
- `calculations`: a node that began a cycle goes on, the data processor keeps
  up, and some node becomes active when none is (what `process_redundancy`
  shows).
- `replication`: the timers of both processes, the network for packets it does
  not lose, and strong fairness for the hourly sweep: it waits for an
  idle moment, and with an hour between sweeps there always is another one.
- `server_data`: the goroutines go on, and the master does what masters do:
  reconnects and interrogates periodically.

`Converges` of `redundancy` needs one thing the code does not enforce: that a
node's write follows its reading before others get more than a tick further
(`WriteLag`). Without it, two nodes that are both active can overwrite each
other's claims for ever, each in the other's gap. `process_redundancy` has the
same weakness, and bounds the number of such slow writes instead (`MaxSlow`).

## 4. Where the code departs from what it says

Each of these is a run in which TLC must find the property violated; the lines
are quoted in `PROJECT.json`.

| Run | Property | What happens |
|---|---|---|
| `commands_twin` | `ExecutedAsOrdered` | two pending selects of one object number in two devices: the wrong value is executed |
| `process_keeps_count` | `TakeoverNeedsStall` | in the calculations, single unchanged readings far apart add up and a live node loses its role |
| `replication_replay` | `ReplayRecorded` | replayed changes have lost their tag and match no document |

Further disagreements are stated as properties in the modules. They are not
part of the regular runs; TLC finds each of them violated when it takes the
place of the properties in the configuration named.

| Property | In | What happens |
|---|---|---|
| `LiveNodeKeepsRole` | `Redundancy.cfg`, with `MissingInstanceActive = TRUE` | any query error activates a standby beside the live node, although the option is said to be about a missing document (jsredundancy.go:150-158) |
| `RecheckKeepsValue` | `Points.cfg` | the range check after an edit replays an old update over a newer value |
| `NeverNaN` | `Points.cfg` | NaN of an analog source is stored ("avoid undefined, null or NaN values", process.go:322) |
| `RangeMatchesSide` | `Points.cfg` | a jump across the limits into the opposite hysteresis band keeps the range of the side it came from (docs/schema.md:276) |
| `RecheckIsEffective` | `Points.cfg` | the range check after an edit checks nothing if the last update was historical: the update that carries it is not stored (index.js:1214) |
| `EventOffIsSilent` | `Points.cfg` | an OFF of an event point between the two writes of an acknowledgement beeps (docs/schema.md:170) |
| `FreshWhenQuiet` | `Pipeline.cfg`, with `Timestamped = FALSE` | without source times, a quick change and change back leaves the first value in the document |
| `IgnoredOnlyByStandby` | `Pipeline.cfg` | what a reconnected stream resumes with is ignored until the next redundancy cycle |
| `ResumesFromToken` | `Pipeline.cfg` | two connection errors without an event in between discard a good resume token (main.go:93) |
| `InsertsMirrored` | `Pipeline.cfg` | the branch that mirrors inserted points is never reached (process.go:226) |
| `NewestSurvives` | `Pipeline.cfg`, with 4 updates, write queue and batch of 1 | a full write queue loses the newest value, not the oldest (README.md:58 of the data processor) |
| `AlarmLatched` | `Pipeline.cfg` | a digital point that changes and changes back before the first change is stored loses its alarm (the SOE keeps it, `SoeExactlyOnce`); process.go:641 writes what a copy of the document said |
| `SboGoodMeansExecuted` | `Commands_safety.cfg` | the confirmation of a select is shown as success of the command |
| `AckIsForDispatched` | `Commands_safety.cfg`, with `Requests <- Twice` | a confirmation is written to a newer command that was not sent (docs/schema.md:370) |
| `StaleNotExecuted` | `Commands_safety.cfg` | an expired command is executed when its select is confirmed late (jscommands.go:41) |
| `ShowsFirstOk` | `Calculations.cfg`, with `Configs <- Choices`, `Readings <- Both`, `MaxChanges = 2` | the choice formulas show the last valid parcel, not the first (calculations/README.md:61) |

The passing runs state the conditions under which the same properties hold:
`FreshWhenQuiet` for updates with a source time, `ExecutedAsOrdered` and
`GoodMeansExecuted` for commands of different objects, `LiveNodeKeepsRole`
without `MissingInstanceActive`, `TakeoverNeedsStall` where the count is reset,
`RangeAgrees` outside the hysteresis bands and for values checked against the
limits there are.

Three properties of a point hold for updates that do not overlap, and
their exceptions are what the code does to those that do, since it decides on a
copy of the document (process.go:547-641). TLC finds each violated when its
exception is taken out:
- `NoChatter`, without the exemption of overtaken updates: limit 2, hysteresis
  1; 4, and then 2 read before the 4 is stored. The copy of the second has the
  normal range and inside the band keeps it, so the range goes up and down again
  on values 2 apart.
- `AlarmHeld`: the same second update clears the alarm the first has raised.
- `HistorianTracks`: dead band 3, 0 recorded; 10, and then 1 read before the 10
  is stored. The 1 is compared with the 0, is not recorded, and the historian
  ends 9 away.

And `AlarmRecorded` counts an alarm that is on its way to the document as
standing: an acknowledgement between the reading and the storing of an update
is undone, so the alarm is back without a new entry.

Seen while modelling and kept in the models as they are, without a property:
- The out-queue of an IEC server is called a bounded FIFO (iec60870-5/README.md:134),
  but its limit is never set: it grows while no master is connected.
- Spontaneous sending ignores `protocolDestinationKConv1` and `KConv2`, which an
  interrogation applies: the same point reaches the master in two scales, which
  is why `EventsNotLost` speaks only of points that are not interrogated.
- A batch is off the out-queue before it is sent, and the send only fills the
  buffers of the sessions there are: a master that leaves in between takes it
  along, with no error (engine.go:173-186). `EventsNotLost` names this window,
  and is violated without it.
- An execute without select is confirmed positively and then negatively.
- Formula 5022 is `P1+(0.65*P2)` in its comment and `P1 + P2` in the code
  (calculations.go:1076).
- A calculated point whose result is NaN is written again in every cycle.
- `mongofw` forwards no deletions (its stream selects updates and its sweep
  sends the documents that are there) although mongofw/README.md:18 names them.
- The receiver counts one message too many for each gap.

## 5. Proofs

All proofs are for every value of the constants, under the `ASSUME`s of the
modules: types, positive limits and sizes, markers such as `NoNode` and `None`
that are not members of the set they mark the absence of, a finite set of
workers and of requests, calculations whose parcels are among the points read.
There is no bound on nodes, points, sessions, workers, queue sizes, updates,
requests or faults. Some results have a hypothesis of
their own, named with them below. The instances of the runs satisfy each of
these, and TLC finds the property violated in an instance that does not: two
requests for one object for the command flow (`SameObject`, `Twice` of
`MCCommandFlow`), `Timestamped = FALSE` for the pipeline, `Keeps = TRUE` for
the process redundancy, one more in the bound or `MissingInstanceActive = TRUE`
for the driver redundancy.

| Theorem | States | Hypothesis |
|---|---|---|
| `DriverRedundancyProofs` `TypeCorrect`, `StallBeforeTakeover`, `YieldsOnReading` | `TypeOK`, `TakeoverNeedsStall`, `YieldsAtNextReading` | |
| `DriverRedundancyProofs` `LiveNodeNotDisplaced` | `LiveNodeKeepsRole` | `MaxLag + WriteLag <= KeepAliveCountLimit + 1`, not `MissingInstanceActive` |
| `ProcessRedundancyProofs` `TypeCorrect` | `TypeOK` | |
| `ProcessRedundancyProofs` `StallBeforeTakeover` | `TakeoverNeedsStall` | not `Keeps` |
| `PointAlarmsProofs` `TypeCorrect`, `RangeFollowsValue`, `HysteresisDamps`, `AlarmsAreRecorded`, `AlarmsAreHeld`, `HistorianFollows` | `TypeOK`, `RangeAgrees`, `NoChatter`, `AlarmRecorded`, `AlarmHeld`, `HistorianTracks` | |
| `DataProcessorProofs` `TypeCorrect`, `NeverReordered`, `EventsOnce` | `TypeOK`, `PerPointOrder`, `SoeExactlyOnce` | |
| `DataProcessorProofs` `QuietIsFresh` | `FreshWhenQuiet` | `EveryUpdateCounts` |
| `CommandFlowProofs` `TypeCorrect`, `OldNotStarted` | `TypeOK`, `StaleNotSent` | |
| `CommandFlowProofs` `ExecutedOnceAsOrdered`, `CancelledForGood` | `ExecutedAsOrdered`, `CancelledNotExecuted` | `SelectsApart`: no two requests with a select share an object number |
| `CommandFlowProofs` `GoodIsExecuted` | `GoodMeansExecuted` | `DirectsAlone`: the object of a direct command is in no other request |
| `CommandFlowProofs` `FlowImplementsContract` | `ImplementsContract` | `SelectsApart`, `DirectsAlone` |
| `CalculationsProofs` `TypeCorrect`, `LateOnlyOnce` | `TypeOK`, `AtMostOneLateCycle` | |
| `OneWayReplicationProofs` `TypeCorrect`, `ReplayFeedsNoReplay`, `LossesAreReported` | `TypeOK`, `BackfillBounded`, `LossReported` | |
| `IecServerCommandsProofs` `TypeCorrect`, `OneSelectOneExecute`, `LoneMasterServed` | `TypeOK`, `GrantNeedsSelect`, `UndisturbedNotRefused` | |

The liveness conditions of the specifications play no part in these proofs.

`DriverRedundancyProofs`
- `TypeCorrect`. The bound on the stall count is not inductive: a
  node that sleeps out its yield delay must start counting from zero, which is
  `CountInv`.
- `StallBeforeTakeover`. The strengthening `StallInv`
  relates, per node, the count to `seen`, the readings since the document last
  changed: while the node remembers the tag that is in the document its count
  is less than `seen`. It survives reconnections because they forget the count
  and not the history.
- `YieldsOnReading`, per node; actions of other nodes only reset `seen`.
- `LiveNodeNotDisplaced`. `LagInv`: the readings others made since the named
  node's last write are at most its lag, plus `MaxLag` while its write is
  pending. The condition is exact: one more and TLC finds a displacement.

`ProcessRedundancyProofs`
- `TypeCorrect`, with `CountInv`: the count of a standby is within the limit;
  one more is reached only in the variant of the calculations, by a node that
  becomes active with it.
- `StallBeforeTakeover`. `StallInv`: of a node that has seen the present tag
  (`looked`), the count is at most `quiet`, the checks in a row that found it
  unchanged. In the variant of the calculations an advancing tag resets `quiet`
  and not the count, so the invariant fails at that step, and the property with it.

`PointAlarmsProofs`
- `TypeCorrect`, from lemmas about the conversion: what is a value
  (`ValueIsNumber`), what range a value gives (`RangeOfValue`), and what a
  `$set` does to a document (`Applied`).
- What was decided is stored against another document, so the invariant is about
  what waits. `Pending`: every update in `rtCh` fits the document as it is by now
  (`FitsTo`). Its range is that of its value, unless the limits were edited
  (`FitsRange`); if it will change the range, its value settles that range
  (`FitsTurn`); if it will clear the alarm, its value is inside the limits
  (`FitsAlarm`); it is recorded or near the last recorded value
  (`FitsHistorian`); the last three unless it was overtaken. `DecisionFits`
  establishes it for the copy, `FitsKept` through acknowledgements and marks, and
  `FitsMarked` when another update is stored or the limits are edited, which is
  where it would fail without the marks.
- `RangeFollowsValue`, `AlarmsAreHeld` and `HistorianFollows` follow from
  `Pending` when the head of `rtCh` is stored (`StoredFits`).
- `HysteresisDamps`. The invariant `TurnInv`: the value that last
  changed the range belongs to that range; two such values of different ranges
  then lie on different sides of a whole band (`TwoTurns`).
- `AlarmsAreRecorded`. `EntryInv`: while an alarm stands in the document or is on
  its way to it, its entry has been made. A decision that carries an alarm its
  copy did not have changes the range, and the entry of the change is the first
  it leaves (`RangeEntryFirst`, `AlarmBringsEntry`); no other step brings an alarm
  that did not stand before.

`DataProcessorProofs`
- `TypeCorrect`, from what a `$set` holds and does to a document
  (`StoreOfUpdate`, `StoreApplied`). `Types` gives every queue the events or items it can hold, each
  with the point and number of a change; `QueueBounds` bounds every queue by its
  channel, which needs the drop-oldest and drop-newest branches.
- `NeverReordered`. A point's changes are in one order from the stream to the
  document. `OrderInv`: the events on their way to a worker (`In(w)`, its inbox
  and then the change queue) are in order for each point, so are the updates on
  their way to the documents (`Out`, wire, batch and channel), and no event is
  older than an update of its point further on. A resumed stream sets the cursor
  back but delivers no update again, because none lies between the token and the
  cursor (`HighWater`). All events of a point are in one inbox: this is where
  the sharding matters.
- `QuietIsFresh`. `ContentInv`: each update on its way has the value of the
  change it is numbered after, and each event a copy of the document with an
  older source time, so that every
  update counts as a change. `TrackInv`: until something is lost, each change is on its way as an
  event, or as an update, or it or a later one has reached the document. In a
  quiet pipeline the last remains. `EveryUpdateCounts` asks for source times,
  for updates that are not historical and for no digital event point: their
  updates may rightly not be stored.
- `EventsOnce`. `FlightInv`: an event is in one queue and once only, as the
  numbers increase from the inboxes to the change queue. `SoeInv`: a change that
  is not yet fetched or still an event has no entry; one that has been handled
  has at most those of one handling (`EntriesOf`), and its event if nothing was
  lost. The counting of entries, in the queue of the writer and in the
  collection, is by cardinalities (`CountEmitted`, `PartLength`).

`CommandFlowProofs`
- `TypeCorrect`, with `FlowInv`: every message on the line, confirmation and
  stored execute belongs to a command the stream has passed, and carries its
  object number (`RefInv`).
- `OldNotStarted` needs `FlowInv` and looks at each sending step.
- `ExecutedOnceAsOrdered`, `CancelledForGood`. `ExactInv`: what is on the line,
  stored or executed has address and value of its command, and is of no
  cancelled one. `TokenInv`: a command is in one place only, as its message to
  the station, as the confirmation of its select, or as its execution. Neither
  is inductive alone: that an execute is the right one (Exact) comes from
  finding it by the object number of the confirmed select, which `SelectsApart`
  makes unique; that it is the only one, from the confirmation being used up.
- `GoodIsExecuted`. `LineAck` and `EntryAck` follow a positive confirmation from
  the station through the queue of the writer to the entry and to the display:
  at each place the execution has already happened.
- `FlowImplementsContract`: every behaviour of `CommandFlow` is one of
  `CommandContract` under the mapping of section 2. `Mapping` gives the mapped
  variables element by element; `InsertRefines`, `PassRefines`, `PerformRefines`
  and `ShowRefines` say which steps are which of the contract, and `StepRefines`
  that the others change nothing it sees. The invariants above are the
  preconditions: a performed command is away and not yet performed by `OrderInv`,
  a good one performed by `EntryAck`.

`CalculationsProofs`
- `TypeCorrect`. `FormulaType`: a formula that has the parcels it asks for
  (`Computable`) gives a number or NaN, and a quality, whatever the parcels are:
  each index is within the parcels, no division is by zero (`NormType`), the
  rows of the tables have as many weights as the formula parcels (`SumsType`).
  Sums, greatest and least parcels and roots are by induction on numbers
  (`SumType`, `ExtremesOf`, `RootType`). That only calculated points get updates
  is in `PendingTypes`.
- `LateOnlyOnce`, with `LateInv`: a standby node either has
  written nothing since it lost its role, or has written the cycle it was in and
  begun no other.

`OneWayReplicationProofs`. A loss is a sum over a sequence and a packet a
selection from one, both recursive functions. `InductionOnNat` is induction as
a fact about a set of numbers, from the least element of its complement;
`RecursionOnNat` gives a function from its first value and its step. From them
follow what a sum or a selection is of two sequences joined (`TotalConcat`,
`AmongConcat`), which is how queues change.
- `TypeCorrect`, with `SenderTypes` and `ReceiverTypes`.
- `ReplayFeedsNoReplay`. `KeptInv`: on its way to the backfill each update of a
  driver is in one place at most, so that together they are no more than the
  updates written; a change that is replayed is historical and is kept no more.
- `LossesAreReported`. `LossInv`: leave aside the gaps the receiver has yet to
  read, before the packets in its queue and the next to come; then its count is
  at least the numbers it missed and at most twice that, one too many for each
  gap. The gap before its first packet is never counted (`Noticed`).

`IecServerCommandsProofs`
- `OneSelectOneExecute`. `SelectInv`: whatever is selected has been selected
  since each session was last answered to an execute, except for a session
  between its grant and the reset of the selection. That exception is the
  window in which another session may use the same select, and without it the
  invariant is not inductive.
- `LoneMasterServed`. `AloneInv`: while one master is alone with its selection,
  the point is still selected, all other handlers are idle, and its own can
  only be executing that point.

## 6. Checked by TLC only

- Liveness (`Converges`, `Drains`, `Settles`, `CatchesUp`, `EventsNotLost`,
  `InterrogationRepairs`): fairness is outside the prover.
- `TypeOK` of `IecServerData`: the answer to an interrogation is a flattened
  sequence of batches built with folds of the community modules, whose laws take
  an operator as a parameter, which the provers cannot instantiate. It would
  need recursive functions in their place, as in `OneWayReplication`.
- What a recursive definition returns is proved where the induction could be
  stated for a set of positions (`Sum`, `Root`, `Total`, `Among`). That the
  formulas compute what their comments say is not stated: the tables are the
  code's own, row by row.

## 7. Not modelled

Texts, logging, metrics and configuration; users, rights and queries of the
server; historian and SQL files; points of type string and json; the encodings
of the protocols and the vendored libraries; the drivers bound to them (OPC,
IEC 61850, ICCP, PLC4X), which repeat the logic of the modelled ones around a
library; most of the tree by size is the browser code of the user interface and
third-party scripts beside it. Of the replication: restart of the sender (its
counter starts again from zero and the receiver then counts nothing) and
reordering of datagrams. Of the IEC servers: automatic distribution of tags and
single reads. Of the calculations: a reading of the operands that breaks off in
the middle (`calculations.go:455-472` does not look at the cursor's error: the
cycle goes on with the values of the cycle before for the operands not reached).
The reasons are with the components in `PROJECT.json`.

## 8. Plan

Done: who may act (driver and process redundancy), what is shown (point,
pipeline, calculations), what is done (command flow and its contract), and what
goes out (IEC servers, replication).

Proved: every safety invariant and every action property of a run, and the
refinement, except those named in section 6.

Next, in this order:
1. `TypeOK` of `IecServerData`, with its `Batches` as recursive
   functions and the lemmas of `OneWayReplicationProofs` about them.
2. The conditions section 3 states for liveness, as far as they are safety: that
   a lag is never exceeded because of the code's waits.
3. The beep point with its group list, set by the pipeline and silenced by users
   with groups; the acknowledgements of `PointAlarms` inside `DataProcessor`,
   with its queues and losses.
4. Two nodes in the pipeline and in the command flow, with the role of
   `ProcessRedundancy` and `DriverRedundancy`.
5. The clients' acquisition and automatic tags with `KeyAllocator`.

## 9. Running

    tlc -workers 2 -config Pipeline.cfg MCDataProcessor
    tlapm DataProcessorProofs.tla

Each run of `PROJECT.json` names its module and configuration; the longest
takes about a minute and a half.
