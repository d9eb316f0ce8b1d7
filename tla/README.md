# Formal model of PPAP

PPAP turns an iPad with a pencil into a pressure-sensitive pen for a Windows
desktop. A page in the iPad's browser sends pen events over a WebSocket to a Go
server on the Windows machine; the server hands them to a synthetic Windows Ink
pointer, or publishes them in shared memory where a substitute `Wintab32.dll`
inside a drawing application picks them up. A JPEG picture of the desktop is
polled back to the page.

This directory holds TLA+ modules of the parts that have state and concurrency,
the TLC runs over them, and theorems checked by TLAPS.

## Inventory

| Part | State | Operations | What makes it correct |
|---|---|---|---|
| Pen page, `client/src/main.ts` | `activePointerId`, `backendState`, the buttons | pointerdown, pointermove (coalesced), pointerup/cancel; backend button; pressure test button | one pointer draws at a time; its end is always sent; a touch on the picture hits what it shows; the backend button tells the truth and comes back |
| Transport, `client/src/transport.ts` | the socket | connect (once), send, close | order is kept; nothing is sent unless open |
| Preview, `client/src/screen.ts` | timer, abort controller, object URL, `stopped` | start, stop, refresh loop | one loop per start, which ends only by stop; no object URL leaks or is revoked early; pictures never go back |
| WebSocket and test handlers, `server/internal/web/server.go` | one goroutine per connection or request | read-validate-inject loop; test stroke; backend GET/POST | an error does not end the loop; strokes end |
| Pen controller, `server/internal/pen/injector.go` | `active`, backend table, RWMutex | Inject, SetBackend, ActiveBackend, Backends | an event reaches the active backend, atomically |
| Windows Ink injector, `injector_windows.go` | `isDown`, mutex, device handle | Inject | contact flags follow the stroke; coordinates, pressure and target are right |
| WinTab bridge, `wintab_windows.go` | `serial`, shared packet | start, Inject | readers learn every resting state |
| WinTab proxy, `wintab-proxy/wintab_proxy.c` | `g_packet`, `g_last_serial` | WTOpen, WTPacketsGet, WTPacketsPeek, WTPacket, WTQueuePacketsEx | what is read is fresh and complete |
| Capture, `server/internal/screen` | GDI handles of one call | Capture | handles are released on every path |
| Health, diagnostics, static files, platform probes | none | reads | - |

How they interact: page -> transport -> WebSocket (FIFO) -> handler goroutine ->
controller -> one injector -> device or shared memory -> proxy. The pressure test
and the backend switch reach the same controller over HTTP, from any page.

What is hard here, in the order in which the modules address it: goroutines that
interleave in the controller; a lock-free mailbox between two processes that die
and return independently; strokes of several sources that share one contact state
while messages and injections are lost; arithmetic at the edges of ranges and
between two pictures of the same desktop; refreshes, timers and captures that
overlap, fail and are given up; two pages that disagree about the backend. Each
hazard is listed at its line in `PROJECT.json`.

## Modules

| Module | Models |
|---|---|
| `PenEvents` | event types, the two backends, the effect of an event on the contact state of each |
| `AtomicPen` | the abstract specification of the controller: every injection and every switch is one step |
| `PenController` (+ `Props`, `Proofs`, `MC...`) | the controller with its three locks, one step per lock operation or lock-protected section |
| `WinTabBridge` (+ `Props`, `Proofs`, `MC...`) | the shared packet, one store and one load at a time, and the life of the section |
| `PenPipeline` (+ `Props`, `Proofs`, `MC...`) | page, transport, connection, handlers, over the operators of `AtomicPen` |
| `InkInjector` (+ `Props`, `Proofs`, `MC...`) | the packet the Ink injector builds, and the calls to the system it makes for it |
| `PenStage` (+ `Props`, `Proofs`) | from a pointer event on the stage to the pen event that is sent, composed with `InkInjector` |
| `ScreenPreview` | the class of `client/src/screen.ts`, one callback at a time |
| `ScreenCapture` | `handleScreenJPEG` and `Capture`, one GDI call at a time |
| `ScreenPicture` (+ `Props`, `Proofs`, `MC...`) | the two together, with the connections between them |
| `BackendSwitch` (+ `Props`, `Proofs`, `MC...`) | the backend button of every page and `/api/pen/backend` |

`PenController` refines `AtomicPen`, and `PenPipeline` instantiates `AtomicPen` as
the server behind the network: this is why the pipeline need not repeat the locks.
`InkInjector` relies on the injector's mutex, which `PenController` models, to be
sequential; both take `InkDownAfter` from `PenEvents`. `BackendSwitch` relies on
the RWMutex of `PenController` in the same way: each lock section is one step.
`ScreenPicture` instantiates `ScreenPreview` and `ScreenCapture` and joins their
actions: a timer that fires takes up a request, an answer settles a refresh.

### PenController

`pc[p]` is where goroutine `p` is. `RLock`, `AnnounceWriter`, `AcquireWriter` and
`UnlockWriter` are `sync.RWMutex` (external: modelled from its documented
behaviour, in particular that a waiting writer stops new readers and that its
Unlock admits the readers that slept). `ActiveEntry`, `LockInjector`, `NoBounds`,
`BuildInk`/`SendInk`, `BuildTab`/`SendTab` are the parts of `controller.Inject`
and of the two injectors' `Inject`, split where another goroutine could see a
difference. `accepted` and `op[p].before` are history values. The device call may
fail (`SendInk`, second disjunct), after `isDown` was assigned.

### WinTabBridge

A data field holds the number of the event that wrote it, so tearing and staleness
are visible. `Magic` and `Version` are `header`; `Buttons` is left out because it
repeats `InContact` and the proxy never loads it. `AppDies` and `ServerDies` may
come between any two loads or stores; the section is zeroed only when nobody has it
mapped, and a new server leaves what it finds in it as it is. `SerialMod` plays
2^32. `since`, `published`, `clean` and `remembered` are history: when a read began,
the event announced last, whether a Serial was stored during an application's last
consuming read, and the event whose Serial it remembers. Serial tells old from new
as long as fewer than `SerialMod` events were published since that one (`NotLapped`).

Loads and stores happen in program order: both processes run on x86-64, and the
compiler (`cl /O2`, see `.github/workflows/release.yml`) cannot assume that the
caller's buffer does not alias the mapping, so the loads stay between the stores to
that buffer and `serial` is really loaded twice.

### PenPipeline

A page connects once. `Send` drops silently unless the socket is open. When the
socket closes, any suffix of the unread messages may be lost. `Serve` is one turn
of the loop of `handlePenSocket`; an injection succeeds, fails with `isDown`
assigned, or fails before. `stranded[b]` records that backend `b` is in contact and
the "up" that was to lift it is lost: refused by the device, not sent by a test that
failed after its "down", not sent by a page whose connection broke off in mid-stroke
(`BreaksOff`), or directed to another backend after a switch. One accepted "up" clears
it. A refused "down" loses nothing. A pressure test is a request with a loop counter,
any number of them at once (a page disables its button while its test runs, other
pages do not); its error path leaves the stroke open, as in the code. `served[c]` is
the last message read of page `c`; when a socket opens in the middle of a stroke,
whose "down" `send` has dropped, it says so (`Missed`), and the rest of that stroke
is the only thing that may come without a "down". Messages that the server refuses
before injection change nothing and are left out.

### InkInjector

Coordinates and pressures are multiples of `1/Den`, angles multiples of half a
degree, and arithmetic is exact; `Round` is `math.Round`. The desktop may be
rearranged between any two of the four `GetSystemMetrics` calls, so each is answered
by any desktop there can be: `Begin` has left and top, `Finish` (or `Refuse`) width
and height. Nothing of the injector changes between the calls of a pair, so a step
for each call would add no behaviour. `Word` plays 2^32 in `pointToUintptr`. The
device takes the packet or fails (`DeviceAccepts`, `DeviceRefuses`); `isDown` is
assigned either way. `packet` is what the device accepted of the last call;
`contact` and `missed` are history: whether the last packet it took is in contact,
and the "down" or "up" it has refused since.

### PenStage

A touch has the size of the stage, the natural size of the picture and a place in
CSS pixels; `sendPenEvent` makes the event of it that `InkInjector` then turns into
a packet. `Span` is one axis of `visibleScreenRect`, in exact fractions. What the
browser draws (`object-fit: contain`) is stated separately, in `PenStageProps`, and
so is what it means to hit the place under the pen: at most half a pixel off, and
exact in the middle of a pixel. The picture may be of another shape than the
desktop (it is a few hundred milliseconds old) or not there yet.

### ScreenPreview, ScreenCapture, ScreenPicture

Script runs to its end between two events, so a step of `ScreenPreview` is one
callback: the timer up to the `fetch`, the arrival of the image, of another status
or of an AbortError with both `finally` blocks. A refresh counts as one
wait (`fetch` and reading the body end in the same ways). `start` and `stop` may come at
any moment; `main.ts` calls `start` once and never `stop`, so they are the
class's interface, bounded by `MaxStarts`. Started again while a refresh is under
way it runs two loops, because the aborted refresh schedules the next one after
all; `stop` then clears one timer and the other loop ends when it fires and finds
`stopped`, or, if a timer was overwritten, after one more refresh. The properties
say what holds in spite of that: `OneLoopPerStart`, `StopEnds`, and `StopStops` for
a preview started once.

A step of `ScreenCapture` is one system call. `deferred` is the stack of deferred
calls; `Return` runs it in one step, since the objects are the request's own. `Freed`
is what GDI does with each of them (external): it does not delete a bitmap that is
selected into a DC, and `LetsGo` names the calls after which it no longer is. `SelectObject` may fail unnoticed, and the picture is
then blank. A request whose page has left runs on until its answer is written to
nobody. A server without a capturer answers like one whose captures fail.

A picture is the number of changes the desktop had seen when it was copied.

### BackendSwitch

`known[p]` is `backendState.active` of page `p`; the list of backends never changes
after start-up. A request is sent, passes `SetBackend` (or its error) and
`ActiveBackend`, each one lock section, and is answered. A connection may break at
any moment, and the server goes on with a request it has; a page may be loaded
again. `usable` is chosen at start-up: WinTab is listed whether or not it is
available. `last`, `passed` and `outdated` are history: who switched last, and
whether `active` has changed since a request read it or since what a page knows
was read. A controller that does not exist (503) is a connection that breaks.

## Runs

| Run | Instance | Shows |
|---|---|---|
| `controller_safety` | 3 goroutines, both backends, all events and requests, symmetric | types; events reach the active backend; `isDown` and the device agree; `AtomicPen` is implemented; no deadlock |
| `controller_liveness` | 3 goroutines, "up" only, requests for WinTab only | every call returns |
| `bridge_restarts` | 1 application, 3 events, 3 serials, 2 deaths | freshness; nothing but injected events is handed out as new; fields never go backward |
| `bridge_polls` | 1 application, 5 events, 3 serials, no deaths | nothing new means up to date, also after a wrap; a poller catches up |
| `bridge_torn`, `bridge_lost`, `bridge_restart_lost` | as above | violations, see below |
| `pipeline_strokes` | 1 page, pencil and palm, 4 pointer events | strokes are whole and of one pointer on the wire; the pen is lifted at the end, in spite of failing injections |
| `pipeline_pages` | 2 pages, 2 pointer events each, 2 test strokes with 1 move | several sources never strand the pen by themselves |
| `ink_packets` | word of 32 values, grain 1/5040, four desktops, three stages, three pictures | packets at the edges of every range; the device is told whole strokes, but for what it refuses; a touch hits what the picture shows there |
| `picture` | 3 timers, refreshes and URLs, 2 starts, any number of stops, 2 captures at once, 1 change of the desktop | no GDI object and no URL leaks; loops neither multiply nor die; pictures move forward and catch up; stop ends everything |
| `switch` | 2 pages, 3 requests under way, WinTab available or not | what a button shows is usable and, unless somebody switched since, true; the button comes back |

Why these bounds are enough. In the controller three goroutines allow one inside an
injector, one waiting behind it and one switching, which is every role the locks
distinguish; the theorems remove the bound. `controller_liveness` uses fewer inputs
because the event type and the target of a switch decide no lock. In the bridge,
three events with three serials make Serial wrap and meet `g_last_serial` again, and
a torn read needs two events; five events without deaths let an application be lapped
and caught up with; two deaths allow server and application to die in
either order. Several applications share only the section, which `Exists` and
`Release` look at; that case is left to the theorems, which hold for any number. In the pipeline, four pointer events are a down, a move and a second
touch; two pages with a down and a move each, plus two test strokes, give every
order of four overlapping strokes. `PointerEnd` is never bounded, so every stroke
can end. At the grain 1/5040 the lightest pressures (1/5040 and 2/5040) round to zero
while 3/5040 rounds to 1; 5040 is divisible by every width and height in the run, so
that the middle of every pixel is a multiple of the grain. Two starts are the
fewest that make two loops, and two loops can have two timers and two refreshes; a
third capture slot would only hold another request nobody waits for. One change
of the desktop makes an old picture differ from a new one. Two pages and three
requests allow one request of each page and one that was given up and still
runs.

No run switches deadlock checking off: a pipeline at rest can still switch backends
or start a test, a goroutine can always call again, and an application can poll.

## Fairness

- `controller_liveness`: weak fairness of each goroutine's steps (the Go scheduler
  runs what can run; callers need not call) and strong fairness of acquiring a
  `sync.Mutex`, which hands itself over in FIFO order once a waiter has slept for a
  millisecond. No fairness for new calls.
- `bridge_polls`: the server finishes an injection it began; the application keeps
  calling `WTPacketsGet` from its message loop (strong fairness, since a call can
  only begin between other calls) and its calls return. No fairness for new events.
- `picture`: a timer that is due fires, a capture goes on and is answered, and an
  aborted refresh learns of it. Nothing is assumed of `start`, `stop`, of failing
  calls or of connections, which may break again and again: that answers keep
  arriving is a hypothesis of `PictureCatchesUp`.
- `switch`: a request's goroutine runs to its end, and a page that waits is told the
  outcome or loses its connection (`fetch` has no time limit of its own).
- `pipeline_strokes`: a connection's goroutine reads what has arrived and a test
  stroke runs on. Nothing is assumed of the user or of the network; that strokes
  end is the hypothesis of `PenLifts`.

## What the code does not do

Three runs are expected to find a violation.

1. `bridge_torn`: a comment in `wintab_windows.go` (line 115) says that storing
   Serial last lets readers see a complete packet. The proxy does not look at Serial
   after loading the fields, and the server overwrites them in place, so
   `WTPacketsGet` can return a mix of two events: in the trace, X of the second and Y
   of the first.
2. `bridge_lost`: `read_latest_packet` loads `serial` once to compare and again to
   remember. A Serial stored in between belongs to a packet that was not read and
   is from then on "not new". If it was the "up", the application keeps the pen down
   until the next event.
3. `bridge_restart_lost`: the server's serial starts again at 0 while the section
   and `g_last_serial` live on in the application. In the trace, an application that
   remembers Serial 1 of the first event meets a restarted server that gives Serial
   1 to the second: the packet is skipped.

`LatestAfterCleanRead`, `FreshFields`, `NeverBackward` and `CatchesUp` say what does
hold in spite of that. Likewise `PenRests` and `PenLifts` name exactly the ways in
which the pen can stay down: an "up" refused by the device, a switch in mid-stroke, a
test stroke that failed after its "down", a page that disappeared in mid-stroke; and
in each case only until one "up" is accepted. `StrokesWhole` names what the device
can see of a failing call: after a refused "down" the next move draws, because
`isDown` was assigned before the device was asked. `OnePicture` says that the
shown URL is not revoked with the one `start` that `main.ts` makes; `stop`, also the
one inside another `start`, revokes it while the image still has it. No property
covers a desktop that is rearranged between the calls that measure it: the
packet then lies within the mixed rectangle, and nothing better holds.

## Proofs

The proofs hold for every value of the constants under the named assumptions of the
modules: a value that stands for "nobody" or null is not one of the values it is
told apart from (`NoProcAssumption`, `PointerAssumption`, `IdsAssumption`,
`ListAssumption`, `RequestsAssumption`), numbers that are counted are naturals
(`BoundsAssumption`, `CountAssumption`, `SlotsAssumption`), the Ink backend exists
(`AvailableAssumption`) and inputs are of the kind the decoder lets through
(`InputAssumption`, `InputsAssumption`, `DisplaysAssumption`, `DenAssumption`,
`WordAssumption`). TLC evaluates each of them on its instances.

- `PenControllerProofs`. The safety properties are not inductive: that an event
  reaches the active backend rests on the read lock being held, that two goroutines
  are not in one injector on the mutex naming its holder. The invariant `IInv` adds
  to the type invariant who holds which lock at which label, and what a goroutine
  between building and sending knows about `isDown`. One step per action. From it:
  `InjectsIntoActive`, `InkAgrees`, and `Refinement`: every step
  is a step of `AtomicPen` or leaves its variables alone, with `isDown` seen as it
  was before the packet was built until the packet is sent.
- `WinTabBridgeProofs`. The invariant orders the event numbers along the path of
  a packet: what an application holds is not newer than the field in memory, fields
  the writer has passed in this injection bear its number, the others at least the
  published one; fields of a read already loaded are at least `since`. From it
  `FreshFields` and `NeverBackward`, for any number of applications, restarts and any
  width of Serial: neither depends on Serial being unique. `NothingInvented` rests on
  one more part: memory nobody has published in has Serial 0, and every
  application that sees it remembers 0. `CleanReadIsLatest` states
  `LatestAfterCleanRead` under the hypothesis `MaxRestarts = 0`: nobody dies. It needs
  it: `bridge_restart_lost` shows what happens otherwise. Then Serial is the number
  of the event modulo its width (`Undisturbed`), two events with the same
  Serial are at least `SerialMod` apart (`SameRemainder`), and a read during which no
  Serial was stored has fields at least as new as the Serial it remembers
  (`CleanCopy`).
- `PenPipelineProofs`. The message served last and those on the wire are one stream
  per page; the page adds at its end, the server takes from its front, a breaking
  connection cuts off its end. `OneStrokeAtATime` (what may follow what) survives all
  three, but the page can only keep it if it knows what it sent last: `StrokeKnown`
  says that of every open socket, and the two are inductive together. For `PenRests`
  the invariant says who still has to send an "up": a backend that sees the pen in
  contact and whose "up" is not lost (`stranded`) is the active one, and some test or
  some page whose connection is open, or has messages left, is in mid-stroke (`Owed`).
  Each step either keeps somebody in mid-stroke or enters the loss (`AccountOwes`). The
  controller's operators are reached through
  `INSTANCE AtomicPen`, as the controller's refinement justifies.
- `ScreenPictureProofs`. A loop is a timer or a refresh; steps turn one into the
  other, only `start` adds one and only a loop that finds `stopped` ends
  (`OneLoopPerStart`, counted with the cardinalities of two finite sets). Up to the
  second `start` there is one loop at most and `stop` knows it: the one timer is
  `timeoutId`, the one fetch is that of `abortController`, and a stopped preview has
  neither, nor a picture (`Alone`, hence `StopStops` and, with no picture before the
  first start, the last part of `OnePicture`). Each request is asked for by
  another refresh that still waits (`Asking`), so with one loop no two answers are
  under way, and what is on its way is not older than what is shown (`Forward`, hence
  the action property `PicturesMoveForward`). `Holding` gives, for each call of
  `Capture`, the objects held and the deferred calls, which always are the ones that
  give just these back: hence `ObjectsReturned`.
- `BackendSwitchProofs`. An answer is `active` as it was read, so it is still true
  unless `active` has changed (`Answers`); the request that switched last reads its
  own target, because any other switch would make itself the last (`Latest`). From
  these `TypeOK`, `ShowsUsable`, `Truthful` and `AnswersOwnSwitch`, for any number of
  pages and requests and any list of backends.
- `InkInjectorProofs`. `RoundBounds` and `Unpack` are the arithmetic; from them
  `TypeOK`, `OnScreen`, `PressureMeansContact` and `TargetUnderPen` for every desktop,
  grain and word size; `DeviceToldWholeStrokes` (`StrokesWhole`), from an invariant
  that explains every disagreement of `isDown` and the device by the "down" or "up"
  it refused last (`IsDownExplained`); `PixelUnderTouch`
  (touching the middle of pixel k of the picture hits pixel k of the screen) and
  `HalfAPixelAway` (any other place hits a pixel at most half a pixel away).
- `PenStageProofs`. `PictureWhereDrawn`: for all sizes, `visibleScreenRect` is where
  the browser draws the picture. `AxisHits` takes a place through the division by
  the size of the picture, the clamping and the rounding to a pixel. `TouchedIsHit`
  is `TouchesHit` for every stage, picture and desktop, with two hypotheses: the
  inputs that bear a touch were made by `sendPenEvent` (`MadeOnStage`), and the grain
  1/`Den` of the normalized coordinates is fine enough for the desktop, w (w + 1) <=
  `Den` for a side of w pixels (`FineFor`). A place is rounded to that grain before it
  is rounded to a pixel; `TwoRoundings` and `CentreKept` show that with such a grain
  the two together still move it by half a pixel at most, and leave the middle of a
  pixel alone. The grain of `float64` is 2^-53, enough for sides of 90 million
  pixels; in `ink_packets` it is 5040 for sides of at most 12.

Only model-checked, because liveness under fairness is out of the prover's reach:
`CallsReturn`, `CatchesUp`, `PenLifts`, `KeepsRefreshing`, `PictureCatchesUp`,
`StopEnds`, `ButtonComesBack`. Every invariant and every action property of the
passing runs is stated by a theorem.

## Not modelled

`Close` of the controller and the injectors never runs: `main` defers it, and the
only way out of `ListenAndServe` is `log.Fatalf`. The proxy's exports that answer
with constants, the WinTab context token, the stubs for other systems, start-up
probes, logging, static files and the JPEG encoder hold no state that a later step
depends on. Threads of one drawing application that call the proxy at once are not
modelled (`Apps` has one thread each). Health and diagnostics only read the
controller; the reads are in `PenController`.

## Plan

Done, in this order: `PenEvents`, `AtomicPen`, `PenController` with its refinement;
`WinTabBridge`; `PenPipeline`; `InkInjector`; `ScreenPreview`, `ScreenCapture`,
`ScreenPicture`; `BackendSwitch`; `PenStage`; the proofs of all of them.

Next:
1. An abstract mailbox that the bridge implements field by field.
2. The parts of `PenPipeline`'s argument that a page's reconnection would need, should
   `transport.ts` learn to connect again.
