# Formal models of LPR_Refactored

LPR_Refactored reads number plates from gate cameras and reports them to a
panel over NATS. These TLA+ modules model the parts of the program in which
threads, callbacks, failures and time meet, from the camera to the broker: the
capture sources and their supervision, the pipeline that turns frames into
announcements of vehicles, the services beside it, the transport, and the
application that starts, reconfigures and stops them. TLC checks all of them on
small instances; TLAPS proves nearly all of the safety properties for every value
of the constants.

Paths below are relative to the repository's `src/` and `include/lpr/`
directories, so `net/NatsTransport.cpp` is `src/src/net/NatsTransport.cpp` of
the checkout. `PROJECT.json` maps every definition to its lines.

## 1. The system

```
 cameras -> ICaptureSource -> CameraWorker -> BlockingQueue<FrameItem>
   (Basler, VLC, FFmpeg,        (per gate)            |
    folder, dual)                                     v
                                              DetectionWorker --- observers: RecordingService,
                                     recogniser |  | processor       LiveViewService
                                                v  v
                                   DirectionEstimator, PlateProcessor
                                                |
                                                v   sink
                                   PlateSender (queue, cooldown, thread)
                                                |
                                                v   publishDurable
 CameraStatusNotifier, HeartbeatMonitor --> IMessageTransport (NatsTransport: queue,
 MediaSender, LiveView ---- publish ------>                    outbox, sender thread)
                                                ^
                          commands, settings ---+--> Application -> CommandRouter,
                                                      CameraManager, services
```

### Components

| Component | State | Operations | What makes it hard |
|---|---|---|---|
| **NATS transport** `net/NatsTransport.cpp` | send queue, outbox directory, flags `running` and `disconnected`, sender thread | `connect`, `publish`, `publishDurable`, `senderLoop`, `enqueueOutbox`, three cnats callbacks, destructor | four threads, a link that comes and goes, lost acknowledgements, crashes, a full queue, a condition variable |
| **Plate sender** `net/PlateSender.cpp` | queue, last-sent times, thread | `start`, `stop`, `send`, `cooldownPasses`, `run` | stop with plates queued; the cooldown is marked before the publish |
| **Blocking queue** `util/BlockingQueue.h` | deque, capacity, closed | `push` (drops the oldest), `pushBlocking`, `pop`, `close` | a full queue behind a live camera and behind a file; closing against waiting threads |
| **Plate processor** `process/PlateProcessor.cpp` | tracks with their votes | `process`, `resolveKey`, `weightedConsensus`, `evictStale` | votes of flickering reads, a vote that turns after it was handed on |
| **Direction estimator** `process/DirectionEstimator.cpp` | per key: sizes, streak, reported direction, locked | `update`, `current`, `sightingCount` | restarts by gap and by cooldown, cap and streak at once |
| **Detection worker** `manager/DetectionWorker.cpp` | per gate: pass (`passes_`), counters; one thread | `process`, `passIdFor`, `physicalDirection`, `start`, `stop` | long sequences of reads, gaps and vehicles; announcements held, released, flushed, corrected on five paths |
| **Camera worker and manager** `manager/CameraWorker.cpp`, `CameraManager.cpp` | source, window of three frames, flags, status, supervisor thread | `start`, `stop`, `supervise`, `onFrame`, `onError`, `handleCommand`, `addCamera` | a stop against a source that has not begun; what outlives a session; library callbacks against locks |
| **Capture sources** `capture/` | a flag each; the dual source two streams and a pair | `run`, `stop`, frame callbacks, `emitPair` | start and stop; a stream that fails alone |
| **Basler supervision** `basler/ConnectionSupervisor.cpp`, `CapturePipeline.cpp`, `BaslerCamera_facade.cpp` | device map, per-serial reconnect workers, attempts, packet pins, manual overrides, `live` | `set_adress`, `handleFault`, `startReconnect`, `reconnectLoop`, `openConfigureStore`, `run`, `reapplySettings`, `stop_vlc`, `stopAll` | three kinds of threads share devices by raw pointer; faults in any thread; threads joined under a lock |
| **Roles and profiles** `BaslerCamera_facade.cpp`, `SyncConfigurators.cpp` | `profiles_`, `hasMono_`, fingerprint, settings copies | constructor, `set_adress`, `set_mono_adress`, `buildProfile`, `reapplySettings` | profiles are replaced while workers hold copies of the old ones |
| **Bandwidth sharing** `GigEBandwidthCoordinator`, `applyBandwidth`, `GigeRateAdapt.h` | indices and counts per interface, each camera's delay, offset and rate | `registerCamera`, `countInGroup`, `applyBandwidth`, `adaptRate` | cameras connect in parallel, are recabled, and keep shares computed for another number |
| **Exposure control** `ExposureStrategies.cpp`, `ExposureController.h` | the installed strategy, exposure, gain, smoothed brightness | `apply`, `decideExposure`, `setExposure`, `setGain`, revert | two actuators take turns at their limits |
| **Operator commands** `Commands.cpp` | command queue, the camera's nodes, the preset file | `makeCommand`, `drain`, `execute` of each | four nodes that limit each other, written one at a time |
| **Tracker** `track/bytetrack/` | tracked, lost and removed lists, two id counters | `update`, `joint_stracks`, `sub_stracks`, `remove_duplicate_stracks` | a track may be in, out and back within one frame |
| **Assignment** `track/bytetrack/lapjv.cpp`, `utils.cpp` | prices, partial assignment, lists of a path | `lapjv_internal` and its three phases | ties, rows without columns, a cost limit |
| **Application** `app/Application.cpp`, `main.cpp` | `booted_`, `bootMtx_`, the parts, subscriptions | `start`, `onAuthReply`, `onSettings`, `onCommand`, `bootstrapFromJson`, `reapplyLiveSettings`, `stop` | messages before, during and after the bootstrap, on several threads |
| **Recording** `services/RecordingService.cpp` | open recordings, files, watchdog | `start`, `stop`, `feed`, `tick`, `watchdogLoop`, `pruneOldRecordings` | a pruning pass over a snapshot that ages |
| **Live view, command router** `services/` | `live_`, `manualLive_` | `enableLive`, `disableLive`, `onFrame`, `liveView` | several viewers, one entry; expiry against frames |
| **Camera status** `net/CameraStatusNotifier.cpp` | last status per camera | `notify` | stale reports |
| **Heartbeat, media upload, settings, recognizer glue, detectors, OCR, stereo, sunset** | | | see "Not modelled" |

Components interact by calls (the capture thread calls `onFrame`), by queues
(frames, plates, envelopes), by callbacks (cnats, Pylon, libvlc, GStreamer),
and by flags that one thread sets and another reads.

### What makes each correct

* Transport: a plate handed to it through the outbox is never lost; nothing in
  the outbox is forgotten while the link is up; the queue is bounded; the
  destructor returns.
* Sender: items come out in order, once; two ordinary messages of a plate are a
  cooldown apart; nothing is suppressed for a message that never went out.
* Processor and detection worker: what is handed on is what the votes say; a
  vehicle is announced once, with the right pass; a direction that is known is not
  taken back; a correction is news; what is held is not lost.
* Camera worker: a session is of one source; a file loses no frame; a camera
  that is down is tried again; a stop returns.
* Basler: no thread uses a destroyed device; a camera that is gone has exactly
  one thread trying to get it back; nothing survives the camera object; a
  camera runs with the newest settings and its role; shares of a link add up to
  less than the link; the exposure loop comes to rest inside its limits.
* Tracker: no vehicle is in two lists, labels are kept, the matching is optimal.
* Services: no file is opened twice or deleted while open; none vanishes but by
  the rules of pruning; every viewer is served for as long as was asked.
* Application: parts start and stop in order, the newest settings win, the
  process comes to rest.

`PROJECT.json` lists the hazards at their lines, with the properties that
would catch each going wrong.

## 2. Modules

| Module | Models | Steps |
|---|---|---|
| `NatsTransport` | the transport, its callers, sender, callbacks and owner | see below |
| `DurableDelivery` | what the transport promises of a plate: volatile, safe or delivered | abstract |
| `BlockingQueue` | the queue's operations, used by `CameraWorker` and `PlateSender` | operators |
| `PlateSender` | the sender, its producer and the order of the shutdown | one per critical section |
| `PlateProcessor` | the passes of the gates, their votes and what is handed on | one per read |
| `DirectionTrack`, `DetectionWorker` | one track of the estimator; the worker at a gate, with the sender's cooldown behind it | one per read |
| `CameraWorker`, `FramePair` | one camera from its source to the detection thread | one per lock, flag or callback |
| `DualCaptureSource` | the two streams of an IP pair | one per flag, frame or lock |
| `BaslerSupervisor` | one `BaslerCamera` with its threads | see below |
| `CameraRoles` | which profile each camera of a pair is configured with | one per profile read or written |
| `BandwidthShare` | the registry, the connects that use it, the rate adaptation | one per call of the registry |
| `ExposureControl` | the exposure loop, manual exposure, revert | one per frame or command |
| `CameraCommands` | commands of an operator on one camera's nodes | one per command |
| `ByteTracker`, `Assignment` | the track lists; the assignment solver | one per frame; one per phase of the algorithm |
| `Application` | the handshake, settings, bootstrap, commands, restart and stop | one per section of a handler |
| `RecordingService`, `LiveView` | the two services | one per call, or per file of the pruning pass |
| `MCNatsTransport`, `MCBaslerSupervisor`, `MCDetectionWorker` | instances | |
| `MCServices`, `MCParts` | sums of components that share nothing | |
| `NatsTransportProofs`, `DetectionWorkerProofs`, `BaslerSupervisorProofs`, `CameraWorkerProofs`, `ApplicationProofs` | theorems about one module each | |
| `ServicesProofs`, `PartsProofs`, `AssignmentProofs` | theorems about the parts of `MCServices`; about the roles, the operator's commands, the tracks, the shares of a link, the exposure loop and the sender in `MCParts`; about the assignment | |

`MCServices` joins three components and `MCParts` eight. A behaviour chooses one
of them in its first state and takes steps of that one only, while the others
stay as they began; so the state space is the sum of theirs, not the product,
and each property is checked as it would be in a run of its own. They share no
state in the code either: where two components do act on the same object, one
module has both (`CameraWorker` has the source and the detection loop;
`LiveView` has the router and `Application`'s manual control; `PlateSender` has
the queue and the order of `Application::stop`).

Definitions whose comment begins with "Slip" are mutated forms of the
definition that follows them; nothing uses them except the sensitivity runs
that put one in the place of the real definition and expect a violation.

### NatsTransport

A step is what one thread does between two points where another can come in.
`publishDurable` reads `running` (`CallDurable`), then `disconnected`
(`ReadLink`), and then either queues the message (`EnqueueOnline`) or writes
its file (`PersistToDisk`) and queues an envelope for the file
(`EnqueuePersisted`). The sender thread tests its flag, waits, pops, looks at
the link, publishes, removes the file or puts the envelope back. A publish may
succeed, fail, or succeed with its acknowledgement lost (`AckLost`). Waiting
is two steps, `Pop` finding nothing ("dozing", the mutex held) and
`FallAsleep`; a notification that comes between the two without the mutex is
lost, which is exactly what `stopSender` risks. `enqueueOutbox` first lists
the directory and then re-queues file by file, both from `connect()` and from
the reconnected callback; the two may overlap. Files are ordered by name, as
strings, as in the code. `Stop`/`Destroy` and `Crash` lose everything but the
outbox and the clock.

Data: a plate is a number; a message is its plate; heartbeats and live frames
are one anonymous envelope, `Core`. Left out: subscriptions and requests,
which keep no state of their own; the fall-back when JetStream is not
available; the closed callback, which cnats only runs while the object is
destroyed.

`parked` is a history variable: the files whose envelope fell out of a full
queue, or that were written before `connect()`. The code has no such set; such
files wait for the next directory listing.

### DurableDelivery

Three sets. A plate is taken as volatile (only in memory, may be lost) or as
safe (on disk), and only a delivery ends its being safe. The refinement
mapping of `NatsTransport` computes both from the disk, the queue and the
sender's hand.

### BaslerSupervisor

A step is one critical section or one call of the driver. `handleFault` is
three sections (the device is removed and released; attempts and packet pin
are accounted for; a worker is started), by the capture thread or by the
manager. A serial can have two worker threads for a moment, when `stopAll` has
forgotten one that is still ending, so `Threads` has two slots. Entering
`JoinPrior` means that a thread waits, holding `reconMutex_`, for a worker
that is alive. `dangling` records the pointers in the capture thread's
hands whose device another thread has destroyed. Calls of the manager are one
thread because `CameraWorker` makes them under one mutex. Times are classes:
a camera is connected "recent" or long enough to be "stable".

### DirectionTrack and DetectionWorker

The estimator's arithmetic on plate sizes is replaced by the set of verdicts
one image may give (`Verdicts`), restricted by the counts that restrict it in
the code. Everything else of a track is there: gaps judged by the cadence,
the hard gap, the cooldown, the count with its cap, streak, cap of images,
lock. Times are ages, saturated just above the largest value compared.

A frame first feeds the track (`Frame`), then its reads are processed one by
one. The processor is an environment that keeps a read, perhaps with another
text (the consensus), or drops it. `Kept` is the path of a kept read:
`passIdFor` with its pruning, the flush of an announcement held for another
vehicle, then hold, announce, correct or suppress. `DropRelease`, `DropWait`,
`DropFlush`, `DropCorrect` and `DropNothing` are the branches of a dropped
one. `OtherGate` is what reads at other gates do to this one: time passes, and
the map is pruned. Similarity is any reflexive symmetric relation (`Similar`); it
need not be transitive, as Jaro-Winkler is not.

What the worker says and what the receiver has are two things, because the sink
is the `PlateSender`, whose cooldown (60 s by default) drops every ordinary message of
a plate that went out less than a cooldown ago, while a pass may start again after a
few seconds. `sent` is what the last step handed to the sink and `told` the last
direction handed over for each pass id (`Tell`); `cooled` is the sender's map of
last-sent times, and `rows` is the receiver's table, one direction per pass id, which
only those messages change that the cooldown lets through (`Store`). `dropped` is a
history variable: the pass ids whose last message was dropped. The sender is taken
to keep up with the worker; its queue and its stop are in `PlateSender`.

### PlateSender and PlateProcessor

`Take` is what the thread does from `pop()` to the message: empty texts are
dropped, the map of last-sent times is pruned (by a horizon no shorter than the
cooldown), a repeat is skipped, anything else is marked and published. `log`
and `skipped` are what went out and what did not. The stop is `Application`'s:
detection ends, the flag goes down, the queue is closed, the thread is joined,
and only then is the transport destroyed.

In `PlateProcessor` a text is one the validator let through, and likeness is a
number per pair of texts, so two texts may be alike by letters or by all but a
few digits. Votes are the areas of the boxes. `emitted` is what was last handed on for a
pass. It is not the backend's row: the `DetectionWorker` takes each emission as a
read of its own pass, gives it its own pass id, and suppresses it when that pass is
announced and its direction has not changed.

### CameraWorker and DualCaptureSource

Five threads: the caller of `stop`, the supervisor, the source's thread, the
thread a frame arrives on (the same one for files, URLs and Basler, a library's
own for GStreamer and libvlc) and the detection thread. The source's `stop` and
the raising of its flag in `run()` are separate steps, which is what
`StopReturnsOrStuck` is about. The three-frame window holds the session and
size of each frame; comparing two sizes throws, and what catches the exception
depends on the source. `VideoLosesNothing` counts frames into and out of the
queue.

### CameraRoles, BandwidthShare, ExposureControl, CameraCommands

Four views of what a Basler camera is configured with; `BaslerSupervisor` says
when. `CameraRoles` keeps the copies that threads take of a profile, and the
facade's list of cameras it finds connected. `missed` is a history variable: the
cameras the last change has passed over. `BandwidthShare` counts in units of a
link and runs one `applyBandwidth` per camera, several at once. Its rate
adaptation lowers and raises rates within the ceiling remembered by `run()`. What
cameras send together is a set of units, each with its sender (`Units`), so that
the sum of their rates is a cardinality.
`ExposureControl` is in integers: brightness is light times exposure times gain.
Damping leaves any part of a correction, one `Damp`-th at least; exposures are counted in
a unit of which `Least` make a microsecond. The thresholds of the code are kept: the
exposure changes by more than `Least` or not at all (`Lengthened`, `Shortened`), and
gain is added only if what the exposure leaves is more than a `Fraction` of it
(`Residual`: a 50th in the code). `parity` tells a frame that changes nothing from no frame. `CameraCommands` has the
four nodes of a crop with the limits each puts on the next; `SetAoi` makes its six
writes in the order of the code (`Zeroed`, `Sized`, `Placed`), and any may fail.

### ByteTracker and Assignment

`Update` is one frame: which boxes overlap is the environment's choice, so
each round of association returns any partial matching. What a round does to a
track is `Now`; what becomes of the lists, with their order and their rules for
duplicates, is `Settle`. `crowds` is a history variable: the frames that removed
more tracks than are remembered. Each of them lets an expired track stay a frame
longer, because `removed_stracks` is what takes it off the list. `Assignment` computes with integer
costs on the extended square matrix, phase by phase as in lapjv.cpp. The walk back along
a path (`_ca_dense`) is the set of columns it passes (`Way`): the fewest that lead from
its end to the free row. `Optimal` compares the result with all matchings there are.

### Application

The handlers run on one thread per subscription, and a repeated
`lpr_settings` adds a subscription. A document is its number, a part knows the
number it was configured from. `built` and `started` say how far the bootstrap is in
its two lists. `Overlap` lets `stop()` come while the pipeline is being built; it is
FALSE in the run, and section 5 says what happens else.

### RecordingService and LiveView

A file is the gate, the second and the index of its name, and which recording
wrote it. The pruning pass takes its snapshot under the lock and then deletes
file by file without it. Time may pass during a pass, by less than the retention
time without the length of a segment: a pass that deletes files takes seconds, and
retention is in days (the guard of `Advance`). `LiveView` has the backend's relaying of viewers as an
environment: commands arrive in order. `cut` records the viewers whose stream a
revert has ended.

## 3. Runs

| Run | Result | Shows |
|---|---|---|
| `nats_safety` | passes | With one lost link, failed publish, failed write, crash and live frame: a persisted plate stays on disk until it is in the stream (`PersistedSafe`); the queue is at most one over its limit although a requeue ignores it (`QueueBound`); no file is forgotten while the transport is online (`NoStrandedFile`); the transport implements `DurableDelivery` (`Implements`). |
| `nats_live` | passes | Under fairness, a persisted plate is delivered unless its envelope overflowed, and an online one unless it was dropped or the process ended (`EventuallyDelivered`). |
| `nats_stop` | violated | `stopSender` notifies without the mutex; the wake-up can be lost and the destructor's join never returns. |
| `basler_pair` | passes | A colour and a mono camera fail and reconnect in any order: the capture thread's pointers stay valid (`PointerSafety`) when nobody reapplies settings. |
| `basler_lone` | passes | With commands, reapplies and a stop at any moment: a worker publishes only into an empty place, a camera has one worker, a worker retries until the camera is back, nothing outlives the object. |
| `basler_pointer` | violated | A settings reapply destroys a device on its own thread while the capture thread holds its pointer. |
| `worker` | passes | Two vehicles, one read in two ways, at a gate: a direction is final only when earned and stays, holds are of the current pass, what was sent last is stored unless the sender's cooldown dropped the announcement, no direction is undone, corrections are news and arrive, a held plate is lost only by a gap. |
| `camera` | passes | Each kind of source under the supervisor: windows, status and source lifetimes are of one session, the reference image is current, a file loses no frame, a camera that is down is tried again, and a stop returns or was one of the two lost races named. |
| `application` | passes | Three subscriptions, three documents, three commands, failures of the bootstrap: order of parts, newest settings, rest. |
| `services` | passes | Recording, live view, plate processor (a sum, see section 2). |
| `parts` | passes | Plate sender, operator commands, tracker, assignment, dual source, bandwidth, roles, exposure (a sum). |
| `roles` | violated | A colour camera that is offline while its pair is added comes up later as a camera on its own, not as the slave the table in `buildProfile` makes it. |

The violated runs are disagreements between a comment or document and the
code; `findings` in `PROJECT.json` quotes both. A property may stand in a
passing and in a violated run: `PointerSafety` holds without reapplies and
fails with them, which says where the problem is. Further configurations that
are violated, and are run by hand, are in section 5.

### Bounds

* `NatsTransport`: `NPlates = 2`, `MaxQueue = 1`: one plate can push out,
  overtake or wait for another; a queue of one overflows with two envelopes, and
  the sender's hand makes room for the excess. The budget allows each kind of
  failure once, in every order with the others; a second crash repeats what the
  first leaves (an outbox and an empty memory).
* `BaslerSupervisor`: `FailThreshold = 2`, `MaxShift = 1`: a miss that counts and
  one that faults; a counter that reaches its cap and is asked to pass it. One
  serial suffices for the thread races of one camera: workers of different
  serials share only the lock. The pair is there for re-slaving. The proofs
  have no such bound.
* `DetectionWorker`: `MaxPasses = 2`, three texts with one similar pair: a pass
  and its successor, by the same vehicle, by a similar read, by another vehicle.
  Gaps `1` and `5` are in cadence and beyond every gap, and a read at another gate
  may come after `5`; two reads per frame give
  age 0. `HoldSightings = 2`, `ConfirmAgreeing = 2`, `ConfirmSightings = 4`: a hold
  that is released by direction or by count, a streak and the cap, and both in one
  image after another direction has stood (`MinSightings = 2`, the least the
  application allows). `SendCooldown = 5`: a second pass within the cooldown, whose
  announcement is dropped, and one after it. The two similar texts are symmetric,
  which the run uses.
* `CameraWorker`: two sessions (a reconnect), five frames (three fill the window,
  one more is compared, one meets a full queue of one), two sizes (a live crop),
  delays of one and two ticks (a backoff at its cap).
* `Application`: three subscriptions and documents: a reply is handled by two
  threads while a third is on its way; three commands include one of each kind
  in every order with the settings.
* `RecordingService`: two gates, segments of one tick, three ticks, a disk of
  three files: a name is used twice within a second, a segment rolls, each rule
  of pruning (age, total, free space) is needed. `LiveView`: two viewers, four
  commands, requests without end, of one second (which becomes two) and of
  three. `PlateProcessor`: three texts, two passes, sizes one and two: a vote is
  tied, won and turned; a track expires or is closed by the gap.
* `PlateSender`: two keys, three items, cooldown and horizon of two in three
  ticks: a repeat inside, at the end of and after the window. `CameraCommands`:
  crops that fit, overlap the limit of the present offset and ask for too much,
  one failure. `ByteTracker`: two detections in four frames with a life of one
  frame and one removed track remembered: lost, found again, expired, removed, and
  two removed at once. `Assignment`: up to 2 by 3 with
  costs below, at and above the limit. `DualCaptureSource` has no bound.
  `BandwidthShare`: two cameras, one with double frames, two interfaces, four
  indices (a camera leaves an interface that has two and returns), two changes of
  rate (down and up again). `CameraRoles`: both cameras, all modes, two saves (a change
  and its undoing). `ExposureControl`: five levels of light, two changes;
  damping by half, a microsecond of one unit and a residual of a quarter, so that both
  thresholds bind: the loop rests outside the band from either side, and gain goes up
  with the exposure at its cap, just below it and far below it.

Deadlock is not checked where the system may stop: when all plates are sent,
the camera is destroyed, the process has exited, the bounds are used up, or a
join waits for ever (which properties of their own look for). It is checked in
the worker's run, whose frames never end.

### Fairness

`NatsTransport`: each thread is weakly fair, because the operating system runs
it and its waits are on a mutex held briefly or on the condition modelled;
`LinkUp` is fair because cnats retries for ever (`MaxReconnect` is -1) and the
budget bounds outages; stops, crashes and new calls are not. `BaslerSupervisor`:
weak fairness for every thread; strong fairness for a worker's opening its
camera, the environment's part: a camera tried again and again answers once.
No fairness for commands, reapplies, stops and the passing of time.
`CameraWorker`: weak fairness for each thread and for the steps of a stop that
was begun; frames, losses, the end of a file and the request to stop are owed by
nobody. `Application`: the handlers run, the broker answers a request that was
sent; commands, documents, signals and failures are free. `DualCaptureSource`:
both streams' threads run; streams fail when they like. `ExposureControl`: frames
come; the light and the operator are free, and change a bounded number of times.

## 4. Proofs

All statements are for every value of the constants that the modules'
assumptions allow.

**NatsTransportProofs.**
`TypeCorrect`: the type invariant is inductive by itself, because it ties what
the sender holds to where it is.
`QueueBounded`: `QueueBound` is inductive with the types: an enqueue keeps the
queue within its limit or drops one, and a requeue returns what was popped.
`NothingStranded`: `NoStrandedFile` is inductive with the types. The steps are
sorted into those that leave the queue alone, those that enqueue one envelope,
those that let go of one, and those that move one.
`PersistedSafety` needs more: a file is only removed for a plate in the stream
(`RemoveInv`), and the plate of a caller about to enqueue is on disk already.
`TransportImplementsDelivery`: every step is a step of `DurableDelivery` or
none. It rests on `SettledInv`: a plate that is known anywhere was handed over
earlier, so that a plate is taken only once.

**DetectionWorkerProofs.** The proof has two layers. `WorkerInv` is about the worker
alone and what it has told the sink: the type invariant, `TrackOK` (a full streak is
locked, and a locked track reports the streak's direction), `HoldIsOfThisPass`,
`lastDir` is what was told for an announced pass, and `PassInv`: an entry without a
pass has announced and holds nothing; for a pass that has not announced no direction
was told; of ids not yet made nothing was. `RowsFollow` is about the sender: the row of
a pass is what was told for it, unless its last message was dropped, and then it
has no row or one that says `unknown`. Both are needed: a flush or an announcement
may send `unknown` because nothing better was told, so nothing better is stored;
and a correction finds a row that differs from it, or none, because it differs from
what was told. `IInv` is their conjunction with the sender's types.
The proof has one lemma per action. `KeptFacts` says where a kept read stands
after `passIdFor` and the flush: what is flushed is of a different pass than
the read's. `EmitOne` and `EmitTwo` say what messages do to what was told.
From `IInv`: `TypeCorrect`, `HoldSafety`, `StoredSafety`, `FinalSafety`; and
from the same step lemma the action properties `RowSafety` and
`CorrectionSafety`. `FinalKept` (`FinalStays`) is about the estimator alone
(`UpdateKeepsFinal`); `HeldSafety` (`HeldLostOnlyByGap`) says where a held
announcement goes in each step: `KeptTells` gives the other vehicle's to the sink, and
by `HoldIsOfThisPass` a read of the same vehicle announces what is held.

**BaslerSupervisorProofs.** `OneWorkerPerCamera` is inductive with the types: a
worker is started for a camera that is not marked running, and until the stop all
its threads are. For `StoreIsFree`, `AbsentInv` extends the claim back to the
worker's look at the map, and `AddInv` says that a camera still to be added has
no device, fault or thread, so that the facade's own connect never meets a
worker. `NothingLeft` rests on `KnownInv` (a live thread is in an entry or being
joined, also when a fault between two stops has started another) and on
`PhaseInv`. `PointersValid` holds where neither reapply nor stop happens: then
`Store` is the only step that could replace a device in use. Steps are sorted
into those that leave workers and the manager alone (`Quiet`), the start of a
worker, a worker's own, and the manager's.

**CameraWorkerProofs.** One invariant (`IInv`) for three theorems. `Phases` says
that the supervisor and the source's thread take turns: no source thread before
the launch and none after the join, and in between there is a source of a session
that was counted. With it the window is of one session, the source outlives its
thread, and the status the backend has is the worker's (`SessionSound`).
`FrameInHand` adds that a callback's frame has a first image and that the worker
remembers the size of the last reference it sent, unless it is to send one anyway:
`ReferenceFits`. `Counted` numbers the frames, none pushed or taken twice, so that
the queue of a file is exactly what was pushed and not taken (`VideoIsWhole`).
`ShiftedWindow` and the lemmas about the queue are the ones each step cites.

**ApplicationProofs.** `SettingsSettle` holds with and without `Overlap`. The
property speaks of a moment when all handlers rest, so its invariant must say
what each owes until then. `SameNewest`: every reply goes to all subscriptions, so
those that were ever sent one have the same newest document, before them or in
hand. `Reads`: what the handler inside the lock has configured so far is no older
than its own document, although `set_config` may load newer settings under it.
`Settling`: with nobody inside, either some subscription still has work, or the
configuration is no older than any document handled. `BuiltOnce` makes the
bootstrap the first and only builder. `PartsInOrder` adds `AliveInOrder`: which
threads run follows from how far the bootstrap is and from where `main` is. It has
the hypothesis `~Overlap`, because without it the statement is false (section 5).

**ServicesProofs.** `EverybodyServed` is `ViewersServed` for any viewers and
durations. The invariant relates the commands on their way to the viewers
(`Meanings`): a viewer who is served came before every command still to be
handled, and whoever is there when a `stop_streaming` is handled came after it,
so that it ends nobody's stream; `Covered` says that the entry lasts as long as
each was promised, which `EnabledKeeps` and `EnabledCovers` preserve.
`EmittedAreVotes`: `Shown` says of each track that what was handed on last is what the
pass is believed to be, and that it has the most weight; `OneTrackPerPass`, that
no other track hands on for the pass. `PlateProcessor` does so whenever the vote
turns, which is why the two never part. The statement ends at the `DetectionWorker`
(section 5).
The recordings have one invariant, `FileInv`, and three theorems. `Beside` relates
a file to the recording of its gate: only the first segment of an earlier
recording can have a name of the present one, and the present one has written no
further than it is. From it and `ReportedOk` (what was announced is behind what is
being recorded): `SegmentsSound`. `PassOk` says that the list of a pass has no file
of its snapshot, and how long the pass has taken; `OpenedLate`, that a file opened
after the snapshot cannot be old enough for the pass by age. Together they give
`OpenStays`: an open file can fall to the two budgets only, and only if it was
opened after the snapshot. This uses that a segment (15 minutes) is no longer than
the retention time (at least a day), and the length of a pass, as above.
`FinishedStay` goes through the kinds of steps (`FileSteps`): a file is removed by a
pass that has listed its name, or gives its name to a later recording.

**PartsProofs.** `RolesFit`: `Stages` follows a change of settings through the
facade. At each stage a camera is `Current` (its profile and every copy a thread
has taken are those of the present members, and so is what it was configured with),
or still to do, or was missed; a camera the facade has not added is `Blank`.
`CropFits`: `AoiIs` says that `SetAoi` leaves exactly the crop it was given, if that
is said in full and fits, from any crop before: offsets are zero when the sizes
are set, and sizes are final when the offsets are. The invariant (`WantedDue`)
then says where the crop asked for is: the last command for the crop in the queue,
or in the batch with none in the queue, or on a camera that is present with none in
either. A command that fails or is dropped may lose it, but then it is the last.
`TracksSound` and `LabelsKept`: the lemmas say of each list operation what it
returns (`SortedIs`, `JointIs`, `SubIs`, `DuplicatesIs`, `NewestIs`), by counting
the numbers below each one, since `Sorted` has no other definition than its
result. `TrackInv` has the ids of both lists distinct, ids and labels no higher
than their counters and no label twice, the tracked ones seen in the last frame, and
a bound on how long ago each lost one was seen (`LostSince`): no longer than `LostExpire`
allows, and when it is that long its id is among the removed, which takes it off in the
next frame.
`UpdateSettles` reduces the three rounds to the set of tracks they found.
`SharesSound`: `Registered` (an index in use is below the next one of its
interface) gives the first half. For the second, `Capped` says that a rate a call
has written keeps to a `total`-th of the link, or that the capture loop went back
to it and it is within the ceiling; `Reckoned`, that `total` is the configured
number if there is one. `UnitsFit` then puts the units of all cameras into the
product of the cameras and one share.
`ActuatorsInOrder` is the safety part of `LoopIsSound`: `Held` says that the camera
holds what it can do, and one lemma per kind of decision (`ReinIs`, `DarkIs`,
`BrightIs`) that it keeps the order, whatever the brightness and the damping. `DarkIs` is
where the exceptions of `GainLast` come from: gain is added when the exposure wanted
exceeds the one asked for by the residual (`ResidualIs`); then either the want is above
the cap, and the exposure goes there or is within a microsecond of it, or the
threshold of a microsecond has kept the exposure (`LengthenedIs`), and a microsecond
is more than a `Fraction` of it.
The sender's inductive invariant (`IInv`) has six parts. `Control` ties the
flags to the shutdown: while the thread may publish, the transport exists.
`Ordered`: ids grow from the log through the item in hand to the queue, which
gives `InOrder`. `Remembered`: what was sent less than a cooldown ago is still in
the map; this is where the horizon must be no shorter than the cooldown, because
pruning happens at the start of the same call. `Apart` and `Accounted` then give
`CooldownKept` (an item that is not recent is a cooldown away from the log) and
`SuppressedSafely` (a recent one has its message in the log, since the thread
holds nothing while it takes the next). One lemma per part, each over the four
kinds of steps (`StepKinds`).

**AssignmentProofs.** `AssignmentOptimal` is the argument of Jonker and Volgenant, made
on the code's own state. The inductive invariant `MatchInv` says that the row holding
a column has it in `x` and finds none cheaper at the prices (`Content`); that the rows
that hold nothing are those that wait, each once (`Transfers`, `Queued`); and, while a
path is sought, what is known of the columns it has reached (`Reached`): how far each
is, from which row, that none outside the lists is nearer than one in them, and that
from every column the rows lead back to the free one (`LeadsBack`), so that the walk
in `_ca_dense` ends and its `ASSERT(FALSE)` is out of reach.
One lemma per action keeps it: `MatchTransfers` (a row passes on no more than its
second best column costs more), `MatchReduces` with `BidIs` (a bid leaves the column
its row's cheapest, whichever of the two it takes), `MatchFinds` and `MatchScans`,
whose paths meet in `PathEnds` (at the new prices each row on the path is content with
the column it takes) and `PathAugments` (it takes them without a conflict, and one
row less waits).
At the end no row waits, so `x` is a permutation and everyone is content. The costs of
two permutations differ by reduced costs alone, since each adds all prices once
(`ContentIsCheapest`). Every matching is what a permutation of the extended matrix has
in the corner of the real rows and columns (`PairingExtends`), at the same cost
(`WeightIs`); this is where the zero corner of the extension is needed, and where the
mutant puts its bug. Sums need no induction here: a sum is defined as the number of
things its terms have together (`Total`), and the lemmas on sums (`SumParts`,
`SumAdds`, `SumRenamed`) count with bijections.

**Assumptions.** Every assumption on a constant is named in the module that declares
it and is evaluated in a run. They say what a number is (a size is not zero, a
capacity is positive) and how the limits of one thing lie to each other (a back-off
ends no lower than it begins, a sensor holds its smallest crop, a `BaslerCamera` has
at most two serials). Two relate numbers of different origin, and the proofs above
name them: a cooldown is no longer than the pruning horizon, and a segment no longer
than the retention time.

**Only model-checked.** Liveness (`EventuallyDelivered`, `RetriesUntilConnected`,
`DownIsRetried`, `StopReturnsOrStuck`, `ComesToRest`, `RunReturns` and
`LoopIsSound`, whose second part is liveness), which is outside what the prover
does; the first part of `LoopIsSound` is proved. Every invariant and every action property
that a passing run checks is proved.

## 5. Other disagreements met

### With a configuration that shows it

Run by hand with `tlc -config <cfg> <module>`; each finds its property violated. TLC stops
at the first violation, so where a configuration has several properties they are
checked one at a time.

| Configuration, module | Says | The code |
|---|---|---|
| `NatsTransportLoss`, `MCNatsTransport` | "the durable/JetStream transport guarantees delivery" (PlateSender.cpp:166-167) | a plate taken while the link is up lives in memory alone (NatsTransport.cpp:373), and live frames push it out of a full queue |
| `PlateSender`, `PlateSender` | "never drop a plate" (PlateSender.cpp:51) | plates still queued when the flag goes down are left there |
| `BaslerLost`, `MCBaslerSupervisor` | a fault starts a worker that retries until it succeeds (ConnectionSupervisor.h:9-11) | a fault between a worker's publishing its device and its end is ignored (ConnectionSupervisor.cpp:850): the camera stays absent |
| `BaslerSelfJoin`, `MCBaslerSupervisor` | "join a finished prior worker" (851) | after `stopAll`, an ending worker clears its successor's `running` mark; the next fault joins the live successor under the lock it needs |
| `DetectionClaims`, `MCDetectionWorker`: `NeverLost` | "never lost" (DetectionWorker.cpp:435-436) | the same plate, back after a gap, overwrites the announcement held for its earlier pass (447) |
| the same: `CorrectionHasRow` | "SAME pass -> backend updates in place" (390) | the announcement of a second pass of a plate within the sender's cooldown is dropped (PlateSender.cpp:156); its correction, which is not, is for a pass the receiver has never heard of |
| the same: `SettledIsStored` | "so the backend back-fills the row in place" (346-348) | a held plate flushed as `unknown` starts the cooldown; announced again with a direction within it, the pass is dropped, `lastSentDir` says the direction is sent, and the row says `unknown` for good |
| the same: `TextChangeIsSent` | "re-emit so the backend UPDATES the row" (PlateProcessor.cpp:142-144) | an announced pass takes a new text as a read like any other and sends nothing while the direction is the same (DetectionWorker.cpp:455-461) |
| `DetectionShortPass`, `MCDetectionWorker` | a pass seen too few times commits no direction (415-416) | the direction is the gate's: a vehicle right behind another is announced on its first read with the other's (69) |
| `ApplicationGap`, `Application` | "Keep the DetectionWorker's pass-gap IN SYNC" (Application.cpp:708-710) | a reapply (556) sets the estimator's gap and not the worker's |
| `RecordingDirectory`, `RecordingService` | "remove directories left empty by the deletions" (RecordingService.cpp:153) | a directory that a recording has just made is empty too, and is removed under it |
| `BandwidthStagger`, `BandwidthShare` | cameras of one interface get different offsets (ConnectionSupervisor.cpp:526-529) | the count is read before the camera is registered (531), so the second is clamped to the first one's |
| `BandwidthSlave`, `BandwidthShare` | shares keep within the link | a slave has no rate of its own (714-716): with larger frames than its master's it sends more than its share |
| `BandwidthAdapt`, `BandwidthShare` | "ease it back up toward the connect-time cap" (CapturePipeline.cpp:51-57) | the cap is remembered once per `run()`, and stays when a reconnect computes a lower one |
| `ExposureCap`, `ExposureControl`: `NeverAboveCap` | never above the cap (ExposureController.h:48) | the dead band returns first (ExposureStrategies.cpp:187-190): an exposure above a lowered cap stays |
| the same: `GainAfterExposure` | "raise EXPOSURE up to the motion-blur cap first (noise-free), then add GAIN for the rest" (ExposureController.h:10-11) | a step of no more than a microsecond is not taken (92), and counts as a residual (93-94): a short exposure stays and gain goes up below the cap |
| `CameraRolesChange`, `CameraRoles` | the fingerprint tells a change | settings are read twice (constructor and `reapplySettings`); a change between the two is never noticed |

### Without

* `connect()` clears `disconnected` after the connection is open
  (NatsTransport.cpp:335): a disconnected callback that ran in between is
  undone, against the comment at 364.
* Outbox files are sorted as strings (96), so within a millisecond `10` comes
  before `9`, against "oldest first" (88).
* A revert of a manual override between a worker's reading it
  (ConnectionSupervisor.cpp:155) and publishing the device leaves the device
  in manual exposure (310-311).
* A fault after `stopAll` has cleared its map (928) leaves a worker alive until
  the destructor, against ConnectionSupervisor.h:93.
* A reapply that clears the packet pins faults every camera, which counts as a
  flap and may pin it again (820; BaslerCamera_facade.cpp:191-193).
* A reapply finds only connected cameras; one that is reconnecting keeps its old
  profile (`OldOnlyIfMissed` of `CameraRoles` says that those are the only ones).
* "never under-throttles a shared NIC" (ConnectionSupervisor.cpp:529-530) needs
  the configured number of cameras to be right: with more on the interface, or
  with 0, the live count is used and early cameras keep larger shares.
* A gain step wider than the dead band hunts for ever (IExposureStrategy.h:38-39
  names no relation of the two); `ExposureControl` with `GainStep = 3` shows it.
* Gain is added when exposure is at its limit (IExposureStrategy.h:40-43), but a slave
  whose trigger comes before the cap never gets there: the loop asks for the same
  longer exposure again and again, and adds gain only when it asks for more than the
  cap (`ExposureControl` with a `Ceiling` below the `Cap`).
* With small damping or a short exposure the loop rests outside the band, although
  "damped, clamped correction" (ExposureStrategies.cpp:213) suggests that it arrives:
  a change of a microsecond or less is not made, from below (ExposureController.h:82, 92)
  or from above (76, 104). `Rested` of `ExposureControl` says by how much.
* `stop()` waits for ever when it comes before a source's `run()` has raised its
  flag (CameraWorker.cpp:123, CapturePipeline.cpp:26), or when a library's
  callback waits for `sourceMtx_` that the stop holds, against "each join is
  safe/idempotent" (Application.cpp:810). `StopReturnsOrStuck` names exactly these
  two; `StopReturns` of `CameraWorker` leaves them out.
* `stop()` during the bootstrap (Application.cpp:795) may end parts that the
  bootstrap then starts; with `Overlap = TRUE`, `Orderly` fails.
* Reverting manual control disables the live view for every viewer
  (Application.cpp:192-196), against LiveViewService.cpp:14-21; `AllViewersServed`
  is `ViewersServed` without that exception.
* An "Exposure Auto" of `false` ends the manual session (Application.cpp:188),
  although the camera ignores it (Commands.cpp:430-436).
* A crop message without offsets moves the crop to the corner of the sensor.
* "Untracked (plate-only) passes ... still emit EXACTLY ONCE" (PlateProcessor.cpp:140-141)
  is no longer so (142-145). The pass id by which the backend is to correlate the two
  (158) never gets there: DetectionWorker.cpp:418 puts its own in its place.
* The estimator returns corrections as events (DirectionEstimator.cpp:176);
  the header says exactly once per pass (89-91).
* The flush on the dropped path leaves `emittedEarly` unset
  (DetectionWorker.cpp:380), so a later direction of that pass is not sent as
  a correction (346-348).
* The hold window counts "REAL sightings which grow every frame" (360), but
  the count is of a track that starts afresh after a gap and stops growing at
  600 samples.
* A gap of more than three intervals starts a new pass even when it is shorter
  than the configured gap (96; comment at 87-88), and the same in the
  estimator (59; comment at 50-53).
* A segment's upload runs under the recording lock (RecordingService.cpp:256),
  and in the destructor after `MediaSender` and the transport are gone.

## 6. Not modelled

* Neural networks and OCR (`detect/`), the Kalman filter, image geometry
  (stereo rectification, calibration) and astronomy (`sunset`): real arithmetic
  whose results are not control state. Where the program branches on them, the
  models choose freely.
* Parsing and look-up of settings (`config/`): no state but a document. When it is
  read, and by whom, is in `Application` and `CameraRoles`.
* `HeartbeatMonitor` and `SystemResourceMonitor`: a timer that publishes.
  `MediaSender` encodes and publishes in its caller's thread.
* `track/PlateTrackingRecognizer`, `VehicleAwarePlateRecognizer`: calls from
  detector to tracker to reader; the state is the tracker's.
* `capture/BaslerCaptureSource`: a minimal source that `main` never registers.
* Decoding, drawing, logging, wording of messages, and vendored code.

In the components that are modelled: subscriptions and requests of the transport
and its fall-back without JetStream; snapshots and manual images of a camera;
gates whose clocks differ in `PlateProcessor`; node access and
packet sizes of a Basler camera; the damping curve and histogram metering.

## 7. What is left

1. A bound of how long an announcement is held, with the estimator's count that
   starts afresh.
2. `PlateProcessor` with two gates whose clocks differ, and composed with
   `DetectionWorker`, whose drops and texts are free choices now.
3. `Application` with `Overlap`, once the code decides who wins.
4. `BaslerSupervisor` and `CameraRoles` as one module: a reapply that meets a
   worker between its copy and its store, with the worker's own steps.
