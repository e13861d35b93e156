# Formal models of try-clavastack

try.clavastack.com serves hardware-wallet simulators and wallet applications
that run in the browser, and a few small servers beside them.  This directory
holds TLA+ models of the parts whose behaviour depends on order: TLC checks them
on small instances, TLAPS proves the most important properties for instances of
any size.

`PROJECT.json` lists, for each definition that models code, the lines it stands
for; for each run, its properties; for each property, a mutation of the code it
detects; the theorems; and the hazards, each at its line.

Run a model with `tlc -config <cfg> <module>.tla` and check a proof with
`tlapm <module>.tla`.

## 1. Inventory

### Parts, their state, what they do

| Part | State | Operations | Talks to |
|---|---|---|---|
| A/B build service (`pool/ab_builds.py`, `pool/ab_api.py`) | the dicts `jobs` and `jobs_by_key`, `build_queue`, the state file, artifact directories, usage markers | submit, fetch a job or a pointer, one worker thread, one cleaner thread, load at import | the A/B page over HTTP; the file system |
| Gallery (`simulators/site.js`) | `sdOwner`, `cardOwners`, `mediaFiles`, `ready`, `busy`, pending requests | detach, move, reset, edit, refresh, restart, Playground switch, 15 s timer | each simulator page by `postMessage` |
| Simulator page (`browser/site.js`) | the worker and its generation, `stateFiles`, what is inserted, `snapshots`, `restartPromise` | forward commands, snapshot with a 3 s timer, restart, reboot, crash recovery | the gallery; its Web Worker |
| Firmware worker (`browser/runtime-worker.js`) | `/state`, inserted media, QR and USB queues, the SD quota | start, media commands, snapshot, reboot | the page; the MicroPython runtime through files |
| Pool allocator (`pool/server.py`) | `sessions`, `running`, `idle_since`, `last_reset` | allocate, heartbeat, release, restart, the clean-up thread, start/stop/restart threads | systemd; browsers over HTTP |
| Site deployment (`deploy/deploy-site-release.sh`) | release directories, the `current` and `rollback` links, the note of the deployed release | fetch, unpack, switch, check, roll back, record, prune | GitHub releases; Caddy, which serves `current` |
| Electrum relay (`pool/electrum_relay.py`) | eight slots, a lock and a connection per server | query with one retry, broadcast without | the wallet backend of Specter Desktop (`browser-compat.py:291`) over HTTP; Electrum servers |
| BlueWallet and Keeper adapters (`bluewallet-web/electrum.ts`, `keeper-web/adapters/*`) | four request slots and their waiters, shared reads, a connection state | request, connect, disable, close | the Esplora API of blockstream.info over HTTPS |
| Virtual host bridge (`virtual-host/main.go`) | one browser socket, one host socket, the page's identity | attach, hello, forward, status | the simulator page; Specter Desktop on the host |
| Specter Desktop page (`specter-desktop/*`) | shared memory, the cable's answer, a queue of requests | a query over the cable and every way it can end, reset, restart | the Python worker; the simulator page |
| MemoryCard runtime (`browser/runtime/uscard.py`) | three slots: key, PIN hash, attempts, secret; the open channel | select, secure channel, PIN, read, write, card change | the firmware |
| Companion media (`browser/companion-media.js`) | IndexedDB files, localStorage owners, pending requests | detach, insert, edit, load again | one device page, one companion wallet |
| Demo import (`browser/demo-import.js`) | nothing of its own | ask, eject, write, insert, step by step | the gallery, the companion |
| Restart and health scripts, packaging, shims, Bull Bitcoin, Sparrow, the VNC pages, builds, static pages | little or none | see `components` in `PROJECT.json` | |

### What is hard

* **Asynchronous hand-over of state that exists once.**  A card is in one device.
  Moving it takes three asynchronous steps, each of which crosses two message
  channels, while the firmware writes, the user presses *restart* and the worker
  may crash (gallery, companion media).
* **Locks that are released between the decision and the effect.**  The
  allocator decides under a lock and calls systemd from a thread; the cleaner
  of the build service decides on a usage marker and then deletes.
* **Kill and restart at every step.**  The build service and the deployment
  script keep their state in directories, links and one small file, and must
  find their way from whatever a kill leaves.
* **Time-outs that race with a late answer.**  3 s in the page, 15 s in the
  gallery, 30 s for systemctl, the two-minute timer of the deployment.
* **Something must happen in the end.**  Queued builds, transfers, restarts,
  expiry of sessions, the deployment of the newest good release.
* **Bounded queues, slots and counters.**  Electrum slots, scanner and USB
  queues, PIN attempts.

### What makes each part correct

* Build service: no queued build is lost or started twice by a restart; an id
  handed out stays known; *ready* means the artifact is complete; the cleaner
  does not take an artifact in use; every build ends.
* Gallery, page, worker: a medium is in one device at most, one card in a
  reader; at rest the labels agree with the firmware; nothing written before a
  transfer or a restart is lost; transfers and restarts end.
* Pool: no instance has two sessions; an active user is not kicked; sessions
  without heartbeat end; the minimum of instances runs.
* Deployment: once a deployment is noted, what is served is a whole release at every
  moment; what stays served passed its check; pruning spares the newest; the note goes
  forward; the newest good release is served in the end.
* Relay and adapters: never more requests in flight than slots; a slot freed
  goes to the oldest waiter; nothing is sent after *close*; a broadcast is
  not repeated.
* Bridge and cable: an answer is one command's, acknowledgement and all; a page
  that waits is served; one tab owns the bridge, and the tabs come to rest; the
  tab learns whether a companion is there (late, or not at all when a status was
  overtaken: section 4).
* MemoryCard: attempts never go up without the right PIN; a channel or an
  unlocked flag of one card never serves another.

## 2. The modules

```
 BuildLedger   <---refines---  AbBuilds       <--- AbBuildsProofs
 SimulatorPage <--- Gallery    <--- MCGallery, GalleryProofs
 PoolAllocator <--- MCPoolAllocator, PoolAllocatorProofs
 SiteDeploy    <--- SiteDeployProofs
 UsbCable      <--- UsbCableProofs
 SlotQueue     <---refines---  WalletNetwork  <--- WalletNetworkProofs
 VirtualHost   <--- VirtualHostProofs
 ElectrumRelay <--- ElectrumRelayProofs
```

An arrow is EXTENDS, except the refinement.  The MC modules add only the
permutations for symmetry.  Definitions whose comment says *Mutation* are
variations of the definition that follows them; no specification uses them.

### AbBuilds

One action per request and per file system effect of a thread.  A *key* is one
`adapter:repository:commit`.  What the code does under `jobs_lock` is one step.

| Model | Code |
|---|---|
| `SubmitKnown`, `SubmitNew`, `SubmitRaises` | `submit`: a known job is answered, a new one saved, looked up, saved again and queued; either save may fail; the look at an existing build may raise |
| `Fetch` | `GET` of a job or a pointer, which marks the build used |
| `WorkerTakes` ... `WorkerFinishes`, `WorkerFails*` | the worker thread, with the removal of the old target, the rename and the last look as steps of their own |
| `Cleaner*` | the cleaner: its snapshot, the visit of each directory, `rmtree` in three steps |
| `Crash`, `Boot`, `BootFails` | a kill; `_load_jobs` at import, which may raise |

An artifact directory is *absent*, *good*, *torn* (`build-info.json` without
its artifacts) or a *stub* (no `build-info.json`).  Times are the classes the
retention window tells apart.  `answered` is history: the ids clients were given.

`BuildLedger` is what the service promises about an id: unknown, then pending,
then ready or failed, for good, except that a restart may find a failed build
complete.  `ImplementsLedger` maps it to the state file.

Left out: resolving a GitHub URL, parsing, and pruning the builder's private
work cache; none of them changes this state.

### SimulatorPage and Gallery

`SimulatorPage` is one page and its Web Worker for every device; `Gallery` is
the workbench that composes them.  A handler of an event loop is one step and
messages travel in order on four channels per device (`toPage`, `toParent`,
`toWorker`, `fromWorker`).  Messages of a terminated worker are never handled
(the generation check), so replacing a worker empties its channels.  The code retries
after one crash until the next restart resets that; in the model any crash may be
retried, which is more than the code does.

| Model | Code |
|---|---|
| `PageExports`, `PageForwards`, `PageSnapshot`, `PageTimeout` | the `snapshot` helper and its 3 s timer, the forwarding of commands |
| `PageRestarts`, `PageReboots`, `WorkerCrashes` | `restart` (single flight by `restartPromise`), the firmware's reboot, `failure` and `crashRecover`: a crash is retried after 250 ms or is given up |
| `PageStarts`, `PageProvided`, `WorkerReady`, `WorkerRuns` | the start-up handshake |
| `WorkerHandles`, `FirmwareWrites`, `FirmwareReboots` | the worker's commands; what the firmware does by itself |
| `Eject`, `Move`, `Reset`, `Edit`, `Refresh` | the workbench's operations; each is one `perform()`, which runs from `await` to `await` |
| `Saved`, `Cleared`, `Inserted`, `Read` | what follows each `await` |
| `Hears*`, `Expires` | the message handler; the 15 s timer |
| `RestartButton`, `Reboot`, `Crash`, `Reload` | interruptions, counted as *upsets* |

The bytes of one medium are a version number, 0 when it has no files; what the
firmware or the user writes gets the next number.  So "no bytes were lost" is a
comparison.  The firmware's own flash is left out, a factory reset is a restart.

Left out: the demo import, the load for the A/B page, the build version check,
feedback, inspector, drag and drop, display, camera and the virtual host.

### PoolAllocator

One pool.  What happens under `lock` is one step; a systemctl call is several, and any
other thread runs in between: the check, the call (a restart first ends the instance and
then brings it up), and the mark.  A call may run into its time-out, after which nothing is
marked, or exit with an error, which the code does not look at and marks as done.  At the
start of the server `detect_running` looks at one of an instance's two pid files, so what
it finds is every healthy instance and any others (`Detectable`).

| Model | Code |
|---|---|
| `Allocate`, `AllocateStarts`, `AllocatePlaces` | `allocate_session`: a free running instance, else one is started outside the lock, then the second look |
| `Heartbeat`, `Release`, `RestartAsked` | the requests; the restart is left to a thread |
| `Expire`, `Scale`, `ScanRaises`, `EnsurePicks`, `EnsureStarts` | `cleanup_and_scale`: expiry, health check, idle reset, scale-down, minimum; the unlocked look of line 514, which may raise |
| `ThreadGoesOn` (`Effect`, `Overrun`, `Fails`) | `start_instance`, `stop_instance`, `restart_instance_proc` |
| `ServerRestarts`, `Init` | `main` |
| `Dies`, `Lapse`, `TimePasses` | the world |

Times are ages: young or old against the thresholds.

### SiteDeploy

The script is sequential; what makes it hard is that it is killed at any step
and started again by a timer every two minutes.

```
 idle -> fetch -> install -> link -> switch -> check -> record -> list -> prune/remove -> idle
                                                  \-> undo -> restore -> idle
```

`links` holds the link being made for each name, because it is made beside the
old one and moved over it.  `inner` holds links made inside a release: `ln -s`
follows a left-over link to a directory, so a run after a kill between `ln` and
`mv` makes its link inside that release, and a second such kill blocks the
release for good (`Wedged`).  `Itself` stands for the path of `current` as a target:
that is what `readlink -f` prints before the first deployment (line 132), and a rollback of
that one makes `current` a link to itself (lines 142-144; `Resolved`, `Dir`).  `torn`
holds directories `rm -rf` began to remove.
`tested` and `exposed` are history: releases that passed their check, and
whether a kill has left an untested one served.  A release is *good*,
*unhealthy* (its check fails) or *corrupt* (its archive is refused).

### UsbCable

The virtual USB cable between Specter Desktop and a device: three event loops and
one thread that blocks.  The Python worker of the Specter page posts its command
and sleeps in `Atomics.wait`; the page passes the command on and collects the
lines that come back, which do not say what they answer.

| Model | Code |
|---|---|
| `QueryStarts`, `QueryReturns`, `SleepTimesOut` | `specterBrowserCableQuerySync` in the Python worker |
| `WorkerTakesMessage`, `JobStarts`, `RequestDone`, `Reset*`, `App*` | the worker's other life: requests, the reset, the start of the app |
| `QueueQuery`, `Receive`, `PageGetsTooMuch`, `Finish`, `QueryTimesOut` | the page's one pending query |
| `UpdateCable` and the `PageTakes*`, `Toggle`, `*Clicked` | the five flags, and what changes them |
| `DeviceTakes*`, `WorkerReplaced`, `DeviceRuns`, `DeviceCrashes`, `DeviceReboots` | the device's page |
| `FirmwareReads`, `FirmwareAnswers`, `Poll`, `UsbSwitched` | the firmware's side and the worker's poll of its mailbox |

A message of the firmware's worker and its forwarding by the device's page are one
step; what was not forwarded when the worker ends is dropped by the generation
check, as if it had never been polled.  `recovered` is history for `AnswerIsWhole`: a
crash from which the device's page recovers replaces its worker without a word to the
Specter page.  Half an answer of the old worker stays in the page's buffer, also past a
later restart, so nothing is promised about a query once that happened.

### WalletNetwork and SlotQueue

The adapters that stand for an Electrum server in the BlueWallet and the Keeper
page are one design with two ends of life: BlueWallet's can be disabled and
enabled, Keeper's is closed for good.  A behaviour is about one of them.

| Model | Code |
|---|---|
| `Enter`, `Release`, `Joins`, `Makes` | the slots and their waiters, and `pendingReads`, by which a read joins the same one under way |
| `Proceed`, `Answers`, `Fails`, `Done` | a request's life: slot, `fetch`, answer, failure or abort |
| `BeginConnect`, `Connect*`, `Ping*`, `ServerFeatures`, `FeaturesGetGenesis` | the three operations that read the network themselves |
| `Disable`, `Enable`, `ForceDisconnect`, `Boot` | the setting, dropped connections, the timer after loading |

A page finishes the promises one event has set off before it takes the next, so the
user's actions and the timers wait for `Quiet`.  An answer may be noted earlier
than the page would look at it, which only adds orders of the continuations.  `Done`
publishes, gives back the slot and forgets the shared read in one step; in the code the
read is forgotten a few promises later, and who asks for it in between gets the finished
answer, as in the model whoever asks just before `Done`.
Keeper reads the genesis block like any other path; BlueWallet asks for it to know
the chain.

`SlotQueue` is what the slots promise: at most `Slots` holders, the others served in
the order they came.  `ServedInOrder` is the refinement.

### VirtualHost

The local program that connects one browser tab with Specter Desktop, and the pages
that compete for it.

| Model | Code |
|---|---|
| `Open`, `Toggle`, `Retry`, `ConnectTimesOut`, `PageTakes` (`Opens`, `Hears`, `Loses`) | `connectVirtualHost`, its 2 s retry, what a socket's events do |
| `Program` (`Admit`, `Attach`, `Greet`, `Detached`, `Leave`) | a socket's goroutine, each step between two takings of the lock |
| `Connect`, `HangUp`, `Companion` (`TakesHost`, `Looks`, `SaysTaken`, `HostEnds`, `SaysGone`) | a companion connection: its attachment, the closing of the one before, its end, and `sendStatus`, which looks for the browser under the lock (`to`) and writes to it afterwards |
| `Restart` | the program is started again |

Sockets and companion connections that both ends have given up are used again; which
unused one is taken makes no difference.  A handshake the page abandoned after
10 s goes on in the program.  A tab is one that was opened with `virtual-host=1` or
has the panel open: only those retry.  The carried bytes are left out.

### ElectrumRelay

One thread per HTTP request, eight slots, and for each server a lock and a connection
that is kept for the next request.

| Model | Code |
|---|---|
| `Arrives`, `TakesLock` | the slot that is taken or refused with 503; the lock of the server |
| `Connects`, `Sends` | a missing connection is opened and greeted, then the calls are sent |
| `Reads`, `Complete`, `Fails`, `Closes`, `Retries`, `Recovers` | an answer is matched by its id; an error closes the connection; a read is tried once more, a broadcast is not |
| `Returns`, `Frees`, `Leaves` | lock and slot are given back, the thread ends |

Each request uses ids from 1 on, so what keeps an old answer from being taken for a
new one is that a connection is closed unless it is drained.  A server answers a
call once, in any order, late or never.

## 3. The runs

| Run | Instance | States | What it shows |
|---|---|---|---|
| `ab_cleanup` | 1 key, 3 jobs, cleaner, failing saves, 2 kills | 260k | no queued or running build is lost; a second build of a revision starts only beside a failed one; the cleaner spares a running build |
| `ab_ledger` | 4 keys (1 shipped, 1 bundled), 3 jobs, 2 kills | 26k | *ready* points to a complete artifact; the ledger is implemented; builds end, unless the service cannot start again |
| `gallery_transfers` | 2 devices, SD, 2 MemoryCards, 2 operations, 1 upset at rest | 228k | a medium is in one device; at rest the labels are true; bytes survive |
| `gallery_liveness` | 1 device, SD, 1 operation, 3 upsets at any point, an early timer of the gallery among them | 527k | transfers end; a device comes back, unless a restart is swallowed |
| `pool_sessions` | 2 clients, 2 instances, 1 upset | 5.7M | one session per instance |
| `pool_liveness` | 1 client, 2 instances, 1 death or failed call | 505k | sessions end, the minimum returns, the dead are restarted |
| `pool_kicked` | 2 clients, 2 instances | | **violation**: section 4 |
| `deploy_releases` | 3 releases, 2 retained, 2 upsets, 1 rollback by hand | 173k | once a deployment is noted the site is whole at every moment; it rests on a tested release; pruning spares the newest; the newest good release is served in the end |
| `usb_cable` | 3 commands, 1 request waiting, 2 interruptions | 223k | a sleeping worker is served or woken; an answer is one command's; queries end; the worker comes to see the cable |
| `wallet_network` | 3 requests on 1 slot, 2 switches, both wallets | 409k | one read per path; *connected* means a verified chain; nothing is sent after Keeper's *close*; the slots implement `SlotQueue`; requests and connecting end |
| `virtual_host` | 3 tabs (1 old page), 3 sockets, 2 companion connections, 3 events of tabs and faults, or 1 and 3 of companions | 289k | one tab is served, one companion is read; an unidentified page does not get back in; tabs settle, retries end; what a tab is to be told of companions comes to rest as the truth, unless a status is overtaken |
| `electrum_relay` | a read, a batch and a broadcast on 2 slots and 2 servers | 320k | slots are counted; an answer is its request's own; a broadcast is sent once; requests end |

The type invariant is a property of `gallery_transfers`; for the other modules it is a
theorem (section 5), which says more than a run.

### The bounds, and why they are enough

* *AbBuilds.*  Three jobs of one revision are a failed one, a retry and a
  duplicate, which is what `jobs_by_key` can confuse.  Two kills let a restart be
  interrupted by another: the first may let a duplicate be queued beside a failed job,
  the second may come inside the `rmtree` of the duplicate's build.  `ab_ledger` has one
  revision of each kind the service answers without building, and one more that is built
  behind another.  It is without the cleaner, which may delete what a job points to;
  with the cleaner, two revisions and two kills (147k states) builds end as well.
* *Gallery.*  A transfer involves a source and a target; two cards are what one
  reader must not hold; two operations let a transfer follow on another's
  remains.  Version 1 tells written from not written.  Ids are reused when free;
  a request waits when all `MaxIds` are in use, which does not happen in these runs:
  without that guard they reach the same states.  Devices
  and cards are interchangeable in `gallery_transfers`, a safety run, so symmetry is
  sound there; the liveness runs have none.  `gallery_liveness` needs three
  interruptions for a button, a crash and another button before the 3 s timer, which is
  how a restart is swallowed.  Its properties hold with the reboot as a fourth kind too
  (878k states), and without an operation with five interruptions of all four kinds (354k).
* *Pool.*  Two clients compete for two instances with one required, so that one
  is scaled up and down.  One upset per behaviour is what a single fault does: a death,
  a call that overruns or fails, a restart asked for over HTTP, a restart of the server.
* *UsbCable.*  Three commands are one that was given up, the next one that may get
  its answer, and one more whose order shows; two interruptions are what is needed
  for an answer to cross a restart of the side that asked.
* *WalletNetwork.*  With one slot, three requests give a holder and two that wait, so
  that order matters; two switches disable and enable again.
* *VirtualHost.*  Three tabs let a tab be replaced by one that is itself replaced
  before the first has noticed.  Three sockets let an abandoned handshake live beside
  the new one.  For the status it takes a tab and two companion connections, a probe and
  the query that follows it: *open, connect, hang up, connect*.  `MaxEvents` is spent by
  weight, 3 for an action of a tab or a fault and 2 for one of a companion, so that its 9
  are enough for these four and for three of the former, but not for four.
* *ElectrumRelay.*  Two of three requests meet at one server's lock while the third
  finds no slot; a batch of two calls can be answered half.
* *SiteDeploy.*  Three releases with two retained give one to prune while it may
  be the one served; two kills are needed to reach a blocked release.

`CHECK_DEADLOCK FALSE` is in every cfg because the bounds on operations, jobs and
upsets end every behaviour in a state without further steps; liveness
properties say what such an end must look like.

### Restrictions of the runs that hide known behaviour

They are parameters, so the behaviour is in the model; the hazards of
`PROJECT.json` quote each.

* `Stalls = FALSE`: a running worker answers within 3 s.  With a slower one the
  page answers from its cache and both the ordering and the bytes are lost.
* `GalleryExpires = FALSE` in `gallery_transfers`: an operation that gives up before the
  answer comes leaves a medium half moved (`simulators/site.js:247`).
* No `reload` in `gallery_transfers`: after a Playground switch the page is not
  told what is inserted.
* `Overlap = FALSE` in `gallery_transfers`: with a restart of the source during a
  detach the card is offered elsewhere while the replaced worker still has it
  (section 4).
* `Switches = FALSE` in `pool_liveness`: if the interpreter switches threads in the
  unlocked comprehension of `server.py:514` the clean-up thread may die, and every
  liveness property with it.  `pool_sessions` includes it.
* `Overlap = FALSE` in `deploy_releases`: an administrator who rolls back between
  the script's look at the link and its `rm -rf` is left without a site.

### Fairness

* `AbBuilds`: `WF(Worker)`, since the thread waits for nothing but the queue and
  every build has a time limit; `WF(Boot)`, since systemd restarts the service
  (`Restart=on-failure`).  Clients and the cleaner are not fair.
* `Gallery`: `WF(Bench(d))` and `WF(Device(d))`, the event loops; `WF(Expires)`,
  the timer, where no answer can come any more.  In `gallery_liveness` it may also beat an
  answer that is to come, which counts as an interruption, but nothing relies on it to: a
  transfer must end by the others' steps as long as an answer can come.  The user, the
  firmware's writes and the upsets are not fair.  A worker that starts gets ready or
  fails; one that runs answers or is given up by the 3 s timer, which belongs to `Device`.
* `PoolAllocator`: `WF` for the clean-up thread, the passing of time, the threads
  (systemctl has a time-out of 30 s) and an allocation that has begun.
* `SiteDeploy`: `WF(Script)`; the timer starts it every two minutes and curl has
  time limits.
* `UsbCable`: `WF` of the three event loops and the firmware.  No timer is fair:
  queries end without one.
* `WalletNetwork`: `WF(Progress(f))`, since `fetch` has an abort timer of 20 s (15 s in
  Keeper); `WF(GoesOn)`, the promises; `SF(Boot)`, the timer after loading, which
  fires when the page has time, and must again when it did not get a request.
* `VirtualHost`: `WF` of each goroutine, of the delivery of messages and of the retry
  timers.
* `ElectrumRelay`: `WF` of each thread and of taking a lock.  The lock is not first
  come, first served; each request holds it for a bounded time and requests are
  finitely many.  A server that sends something just before every socket time-out
  could keep a thread for ever; the fairness excludes it.

## 4. Findings

One run ends in a counterexample to what the repository says of itself.

`pool_kicked` (code bug).  Ending a session and restarting its instance are two
steps; the next client is given the instance between them and is thrown out, though
the code says that active users are never kicked (`server.py:457`).

Other disagreements between code and text were met while modelling.  They are noted as
hazards, at their lines; no run is kept for them.  Four of them are what a property of
a passing run has to except; the run shows that, within its bounds, nothing else does:

* First deployment, excepted by `SiteIsWhole`.  Before it there is no `current`;
  `readlink -f` prints its path all the same (`deploy-site-release.sh:132`).  When that
  release fails its check, the rollback finds the path to be a directory and makes
  `current` a link to itself (lines 142-144): the site is gone until a later run, though
  a failed check "leaves or restores the previous release" (`SETUP.md:48-50`).
* Build service, excepted by `BuildsEnd` (`Barred`).  A kill in the middle of an `rmtree`
  (lines 186 and 476) leaves `build-info.json` without its artifacts.
  `_manifest_pointer` raises on that (`ab_builds.py:314`), the load at import does not
  catch it (line 86), and the service fails at every start, against "Restore jobs and
  resume interrupted builds" (line 64).
* Restart of a device, excepted by `DevicesReturn` (`Swallows`).  A crash during a restart
  is retried and the new worker runs while the restart still waits for its snapshot; a
  second press of the button takes the device from `ready` and is answered with the
  pending promise (`browser/site.js:869`), which ends without a restart.  The gallery
  shows a device that runs as restarting, though a manual restart "starts a fresh
  sequence" (`STARTUP-VALIDATION.md:91`).
* Status of the companion, excepted by `CompanionIsShown` (`OutOfDate`).  The bridge writes
  statuses when it has left its lock (`main.go:141-146`, `169`): the hello of a tab that
  attached before a companion came may follow the news that it came, and so may the
  `host:false` of a probe follow the `host:true` of the query connection.  The page rests
  at "waiting for companion app" with a companion connected; the test at
  `test-virtual-host.mjs:27` expects a late status, not a wrong one.

The others:

* Build service: the cleaner deletes a build that was asked for between its look at
  the usage marker (line 161) and its `rmtree` (line 186).
* Gallery: a restart of the source during a detach (`simulators/site.js:335`).  The eject
  goes to the worker that is about to be terminated, its replacement starts with the
  card inserted, and the card is offered elsewhere as well, against the comment of
  line 247.
* Pool: scale-down counts instances its own threads have not yet stopped, and goes below
  the "min 2" of `server.py:3` (line 523).
* USB cable: after a crash of the device's worker the Specter page shows the cable as
  connected and a query waits for its whole time-out.  What arrives late for a query
  that was given up (timer, toggle, reset) is taken for the next one.
* BlueWallet: when the setting is switched off during a connect, the failing connect
  puts *disconnected* over *disabled* (`electrum.ts:464`; without a connect under way
  the test at `test-bluewallet-network.mjs:153` finds *disabled*).
* Virtual host: an older tab whose retry timer is due takes the bridge back from the
  newer one (`virtual-host/README.md:46-48`); a handshake the page abandoned after 10 s
  attaches after the new one.

## 5. Proofs

The eight `*Proofs` modules hold for every value of the constants that satisfies the
named assumptions of the modules.

**AbBuilds.**  `TypeCorrect`, `BuildsKept` (`NoBuildLost`), `IdsAreKept`
(`IdsSurvive`), `LedgerImplemented`, `DuplicatesOnlyBesideFailed`
(`DuplicateOnlyBesideFailed`), `RunningBuildIsSpared` (`RunningBuildSpared`) and
`ReadyHasArtifact` (`ReadyPointsToArtifact`).  `NoBuildLost` is not inductive: it does
not say that a process that is down has no queue, nor that the worker's own job is
the one it is building.  The inductive invariant is

    BuildInv == TypeOK /\ DownIsEmpty /\ WorkerHoldsJob /\ NoBuildLost

`IdsAreKept` and `LedgerImplemented` assume `SaveFails = FALSE`: when the state file
cannot be written an id is answered all the same and a restart forgets it.  They
rest on `FileInv`, which adds that memory and file agree while the process is up,
that `jobs_by_key` names known jobs, and that answered ids are saved.  The
refinement has one step per action: a submit is *Record*, the worker's end is
*Settle*, a restart is *Find*, everything else stutters.

`DuplicateInv` says for memory and file alike that a job beside another one of its key
has failed or is beside a failed one: a submit makes a second job only in that case, and
a failed job never changes again.  `SparedInv` is what the cleaner and the worker know
of each other: while a revision is built its marker is fresh, or this pass does not visit
it (any more), or its job was among the running ones the pass has noted.  Both hold for
every value of the constants.  `ReadyHasArtifact` assumes `Cleaning = FALSE`: the cleaner
removes the artifact of a job that stays *ready*, as the code means it to.

**PoolAllocator.**  `TypeCorrect` and `SessionsAreAlone` (`OneSessionPerInstance`).  The
second look of `allocate_session` is what makes the property inductive together
with the types: the instance an allocation brought up may have been taken in the
meantime, and only that look says so.

**SiteDeploy.**  Six theorems; `SiteStaysWhole` and `RestsAreTested` assume
`Overlap = FALSE`.  `SiteStaysWhole` says that the site is a whole release, except that
while no deployment is noted `current` may be absent or a link to itself: until a first
release has passed its check there may be no site, also after there was one (section 4).
The argument has four layers:

* `DeployInv`: the order of the note, the run and the releases (`OrderInv`), and
  `WholeInv`: the release of a run is whole once it is installed, and whatever is
  half removed or chosen for removal has at least `Kept` whole newer releases.
  `Surplus` counts directories, torn ones too, so this needs that tearing starts
  at the old end;
* `LinkInv`: a link waiting to be moved over `current`, the link waiting for
  `rollback`, and what the script remembers as the previous release all name
  whole releases, also when a kill left them from an earlier run;
* `NoteInv`: the note was tested and does not go back, since a run starts only for
  a newer release and a kill while it is written leaves it empty at worst;
* `RestInv`: between runs the site is tested, unless a kill exposed an untested
  one or none was ever tested.

**UsbCable.**  `TypeCorrect` and `SleepersAreServed` (`SleeperIsServed`).  That a
sleeping worker's command is on its way or is the one the page waits for is not
inductive: a command the page takes later must not displace it.  The invariant adds
that commands on their way are in the order of their numbers (`InOrder`), that the
page waits for an older one than any of them (`PendingFirst`), and that a sleeper has
sent one.  `NextIsStep` reduces the 34 actions to three kinds: one that leaves the
commands alone and settles at most the query the page waits for, the page's taking of
a command, and the worker's sending of one.

`AnswersAreWhole` (`AnswerIsWhole`) is about a line whose place alone says to which
command it belongs.  `Stream` follows the lines from the firmware's mailbox through the
notes to the page's buffer: wherever an acknowledgement ends what some place holds, the
next line that can reach the page from there is its answer (`Continued`), unless the
page is told in between that the device stopped, and then it drops what it holds
(`Deaf`).  A device that does not run has told so (`StoppedIsTold`); that is what a
silent recovery breaks, and why the property excuses what comes after one.  TLC finds
no exception with four events, and finds one there when the excuse ends at the next
restart.

**WalletNetwork.**  `TypesHold`, `SlotsHold` (a slot for each holder and none idle while
someone waits), `AdapterImplementsSlotQueue` (`ServedInOrder`), `ReadsAreShared`,
`ConnectionIsVerified` and `ClosedStaysQuiet`.  Every step is shown to be one of four
kinds: a request is made, one finishes, one moves, or none is touched (`Steps`), so
the slot lemmas and the refinement have four cases instead of one per action.
`VerifiedInv` needs `TipIsSecond`: *connect* asks for the tip only after the chain was
verified.

**VirtualHost.**  `TypesHold`, `OneTabServed`, `BridgeIsServed`, `OneHostRead` and
`LegacyNeverReturns`, from

    Inv == TypeOK /\ OneTabIsServed /\ BrowserIsServed /\ OneHostIsRead
           /\ LateLegacyWaits /\ LegacyStaysOut

`LateLegacyWaits` is what a goroutine knows between asking for admission and getting
it: once a page has identified itself, one without an id that comes later waits or is
over.

**ElectrumRelay.**  `TypesHold`, `SlotsHold`, `ConnectionsAreClean`, `OwnAnswers` and
`BroadcastsOnce`, from

    Inv == TypeOK /\ SlotsCounted /\ LocksHeld /\ KeptIsClean /\ OwnCalls
           /\ AnswersAreItsOwn /\ SentCounted

`KeptIsClean` is the heart: a connection nobody has locked has no answer to come.  With
the exclusion by `LocksHeld` it makes every answer on a connection one of the request
that holds its lock (`OwnCalls`).

**Gallery.**  `TypeCorrect` (`TypeOK`), `OneDevice` (`OneDeviceHasIt`), `TrueLabels`
(`LabelsAreTrue`) and `BytesKept` (`BytesSurvive`): every invariant of the run
`gallery_transfers`, for any number of devices, cards, transfers and interruptions.
The last three hold under the restrictions of that run: `~Overlap`, `~Stalls` and
`~GalleryExpires`, each of which hides a known violation (section 3).  `OneDevice`
includes every interruption, the Playground switch too, which the run leaves out;
`TrueLabels` and `BytesKept` leave it out like the run, because they are false with it:
a page loaded again is not told what is inserted, and is given the gallery's copy,
which may be older than what the device had.  The invariant of `OneDevice` is

    IInv == Types /\ Lives /\ OneCarrier /\ Removed /\ Agreement /\ Placed

Each part is there because the next one is not inductive without it:

* `Placed` is the property seen from the gallery: a medium is in no device but its owner
  and the one it is being inserted into.  A device that is not `Steady` is about to get a
  new worker with what its page remembers, so there the page and everything on its way
  must have forgotten the medium too (`Gone`).  `PlacedApart` derives the property: what
  is being inserted has no owner any more (`Planned`, a part of `Types`).
* `Agreement` is how a page comes to have forgotten: it agrees with its worker about the
  reader, and about the files of a medium the worker has not, or a message that will make
  it agree is on its way behind every message that would not.  At rest nothing is on its
  way, and without `Overlap` an interruption happens only then.
* `Removed`: while the operation waits for the second snapshot of a detach, an eject on
  its way has the removal of the files behind it, and when neither is on its way the
  worker has lost the medium.  The answer arrives behind both, so a detached medium is
  out of its device (`ClearedClean`); this is the comment of `simulators/site.js:247`.
* `OneCarrier`: the request an operation waits for is carried by exactly one message or
  one entry of the page's `snapshots`, every command sent before it is ahead of it, and
  every command under way is one this operation sends (`Fits`).  No other device has a
  command or a request under way (`Bare`).  So an answer is never stale (`NeverStale`)
  and the 15 s timer of `Expires` never needed (`NeverExpires`): with the three
  conditions, every step is a `Step` (`Possible`).
* `Lives`: what a device is doing, in five regimes: `Off`, `Up`, `Told` to restart,
  `Rebooting` at the firmware's wish, `Saving` for a restart; and that while an operation
  runs every device is `Steady`: up, known to be ready, and about to say nothing else.
  `Up` says that the ids of the requests differ and each has one carrier (`Carriers`).

About thirty actions touch a device.  They are reduced to five kinds (`Kinds`): a step
that orders nothing, the start of a worker, a command forwarded, a command handled, a
write of the firmware; `Placed` and `Removed` are shown kind by kind.

`TrueLabels` needs the other half of `Placed`: not only is a medium nowhere but in its
owner, it is there.

    LInv == IInv /\ OneEach /\ InsertedThen /\ Present

* `Present` says so from the owner's side: the worker sees the medium, or, when there is
  none, the page does and gives it to the next one; the page is never one that still
  waits for the gallery's media, which is where a reload would break it.
* `OneEach`: no two MemoryCards have the same owner, since inserting one makes the reader
  drop another.  It needs that the one in the target's reader is among those the
  operation detaches first (`ReaderFree`).
* `InsertedThen`: between the insert and its answer the command is on its way to the
  page or to the worker, or has been handled.  `OneCarrier` says that the answer comes
  behind it, so the gallery names a new owner only when the medium is there.

`BytesKept` follows the contents.  `base` is what each medium had when the operation,
the restart or the reboot began, and every copy that may become the medium's next
contents must be at least as new:

    BInv == LInv /\ NoneNewer /\ Lasting /\ Handed /\ Stored /\ Imported

* `NoneNewer`: no copy anywhere, in the page, the worker, the gallery or a message, is
  newer than the newest, so that a `base` that is set later is not ahead of them.
* `Lasting`: the owner's worker (or the page, when there is none) has at least `base`,
  and so has every answer on its way that the page will start its next worker with
  (`Restoring`).  The answer to a *refresh* is exempt, it restores nothing.
* `Handed` and `Stored`: the answer that *detach* saves, and the gallery's copy of what
  no device has any more.
* `Imported`: what is imported into the target is at least `base`, and until it is in
  the worker it is on its way there.

Both are shown with two more reductions of the thirty device actions: each leaves the
contents alone, starts a worker from the page's copy, lets the worker handle a command,
or is a write of the firmware; on the gallery's side an operation proceeds, saves,
clears or ends.

TLC was run on these invariants before the proofs, on small instances: on `IInv` with two
devices, the SD card and a MemoryCard, two operations and one interruption of any kind
(410k states), and on the parts of `LInv` and `BInv` also with two MemoryCards, and with
three operations and two interruptions other than a reload.

**Only model-checked.**  The liveness properties, since fairness and ENABLED are outside
the prover.  Every invariant and every action property of the passing runs is stated by
a theorem.  No module declares a RECURSIVE operator.

## 6. Not modelled, and why

The `components` of `PROJECT.json` name each part.  In short:

* *MemoryCard runtime* (`browser/runtime/uscard.py`).  A card applet called by one
  firmware, command by command: no concurrency.  Its cryptography would be modelled
  by who knows which key.
* *Companion media* (`browser/companion-media.js`).  The gallery's transfer again, with
  one device and an owner in `localStorage`.
* *Demo import* (`simulators/site.js:976`, `browser/demo-import.js`).  One more operation
  of the gallery.  It replaces the kept SD files by the device's without importing them
  first, and leaves a card's files in a device that is not shown as its owner: a model
  of it needs to tell a card's key from its secret.
* *QR and camera queues, the SD quota, display, inspector*: bounded buffers of one
  event loop.
* The allocator's HTTP front and feedback turn results into JSON and share no state
  with the pools; the restart and health scripts have the effect systemctl has in
  `PoolAllocator`; build, packaging and installation scripts are functions from sources
  to files.
* The Bull, Keeper-storage, BlueWallet-shim and Sparrow parts are other projects' code,
  of which this repository has adapters without state of their own.
* noVNC (`novnc/`), jsQR (`assets/jsQR-1.4.0.js`) and the static pages are vendored or
  content.  They are more than half of the repository's lines; the models are about the
  rest.

## 7. What comes next

1. **MemoryCard**: three slots, PIN attempts, the channel of one card never used with
   another.  Theorem: attempts never rise without the right PIN.
2. **CompanionMedia** and the **demo import**, which reuse `SimulatorPage`.
3. **The relay's client**: `BrowserElectrumSocket` (`specter-desktop/browser-compat.py:239`)
   composed with `ElectrumRelay`.
