# Formal models of esp32shell

TLA+ models of the esp32shell firmware, checked with TLC and, where a result
should hold for every size of the system, proved with TLAPS. Paths are relative
to the repository root; `src/` is where this directory sees the repository.

## 1. Inventory

esp32shell turns an ESP32-S3 into a small SSH-reachable device. Two images are
flashed one after the other. The Arduino image (`firmware/arduino/esp32shell`)
is the bootstrap: it has a shell on USB, through which scripts on the PC
(`tools`) store Wi-Fi profiles and SSH credentials. The ESP-IDF image
(`firmware/esp-idf/main`) is the runtime: its shell is on SSH. Both read and
write the NVS namespace `esp32shell`, and each has its own code for that.

| Component | State | Operations | Concurrency |
|---|---|---|---|
| App runtime (`idf_app_runtime`) | four app records: state, task handle, failure, heartbeat, restart count | `run`, `stop`, `start`, `supervise`, `taskThunk`, `list`, `status` | shell task, supervisor task and one task per app, on two cores, no lock |
| Log buffer (`idf_log_buffer`) | ring of 64 messages, `capturing` flag | `capture_vprintf`, `log_dump`, `log_buffer_install` | every task that logs; a spin lock and an unlocked flag |
| Wi-Fi station (`wifi_station`) | profiles, active profile, `connected`, `connecting`, attempt start | event handlers, failover task, `status` | event loop task, failover task, shell task, Wi-Fi driver |
| SSH server (`ssh_server`) | start flag, listening socket, one client at a time | start, initialise, accept, handshake, authenticate, serve shell or SFTP, close | one server task, started by the event loop |
| Shell session (`shell_session.h`; `loop()` of the sketch) | line buffer, CR flag | per-byte line editing, dispatch | runs in the server task, or in `loop()` |
| Command core (`command_core.h`) | none | parse and dispatch one line | the same |
| Command services (`idf_command_services.h`) | NVS keys, files on LittleFS, GPIO | Wi-Fi profile, configuration, file system, GPIO, reboot | runs in the server task; files and keys persist across resets |
| OTA (`idf_ota`) | two application slots, boot selection | validate at boot, status, apply a signed image | boot; nothing calls apply |
| Arduino sketch (`esp32shell.ino`) | NVS keys, two app tasks, LED | `setup`, `loop`, the commands of the toolbox | the `loop()` task and the tasks of the two apps |
| Arduino services | `WifiService`: profiles, retry time, turn; `AppSupervisor`: a record per app; `OtaService`, `BoundedLog`, `SshSessionManager`: unused | `configure`, `clear`, `tick`; `markStarting` ... `markStopped` | called by the `loop()` task |
| Host tools (`provision_ssh.ps1`, `build_flash_monitor.ps1`) | place in a sequence of commands | send a line, wait eight seconds for its answer, give up, be run again | the PC, over a serial line that loses what is sent while the device restarts |

How they interact. In the runtime image `app_main` mounts the file system,
installs the log hook and starts Wi-Fi; the got-IP event starts the SSH server
task once; a session feeds bytes to the shell session, which dispatches lines to
the command core, which calls the command services; these call the app runtime,
the log buffer, the Wi-Fi status and NVS. Apps outlive sessions. Nothing but the
log ring is protected by a lock. In the bootstrap image one task drains the
serial line, runs each command to its end, and ticks the Wi-Fi service; the host
tools are at the other end of the line. What ties the images together is what
NVS holds when the second one boots.

The hard behaviours are the unlocked sharing between tasks on two cores, the
events of the Wi-Fi driver racing with the failover task, the start-once gate of
the SSH server meeting failures of its own initialisation, input chunking and
overlong lines at the two prompts, power loss and failing calls between the
steps of a configuration change, an upload or an update, and provisioning that is
cut off and repeated over copies of a profile in RAM, under numbered keys and
under keys without a number. `PROJECT.json` lists each at its line.

### Component by component: what makes each correct

| Component | Correct when |
|---|---|
| App runtime | an app has at most one task; a record says "running" exactly when its task is alive; restarts are bounded and only stalled apps are restarted; an app that is down stays down until `app-run`; a silent app is noticed |
| Log buffer | one writer at a time; the ring holds the last messages in order; a dump shows one instant; no message is refused unless one is being captured |
| Wi-Fi station | `connected` tells the truth; every profile is tried again and again; a serving access point is reached |
| SSH server | no path keeps a resource; a client is served as it authenticated and as it asked; the next client gets its turn; the listener comes up |
| Shell session | the lines of the input, and nothing else, are dispatched, however the bytes are cut into chunks |
| Persistent state | what the device acknowledged survives a reset at any moment; uploads are whole; a failure is not reported as a success |
| OTA | whatever interrupts an update, an image that was approved boots; an acknowledged update is what boots |
| Provisioning | when the tool reports its end, the runtime image finds what was sent, whatever the user gave |
| Arduino sketch | RAM and store agree on the profiles; both images read the same ones where they fit; the two ways to ask for an app's state agree; a stopped app leaves the LED dark |
| Arduino Wi-Fi service | no profile is starved; the clock may wrap; the link never holds on to a profile that was removed |

## 2. Plan

Modules are written so that they can be proved about: parameters are CONSTANTS
with named assumptions, invariants are conjunctions of named parts, and no
module that has proofs reaches a RECURSIVE operator.

| Order | Module | Abstract specification | State |
|---|---|---|---|
| 1 | `AppRuntime` | none; the inductive invariant says what the code means | done, proved |
| 2 | `LogBuffer` | `LogRing`: the last messages, stored one by one | done, refinement checked and proved |
| 3 | `WifiStation` | none | done, safety proved |
| 4 | `SshServer` | none | done, safety proved |
| 5 | `ShellSession`, both prompts | the reference line discipline `Commands(front, typed)` | done, proved |
| 6 | `DeviceStorage` with the OTA slots | what the device told its operator (`told`); `AtomicUpdate` for the slots | done, refinement checked and proved |
| 7 | `NvsLayout`, `WifiService`, `BootstrapSketch` | what the tool sent (`script`), read with the loaders of the runtime image | done, safety proved |

Every invariant and action property that a passing run checks is a theorem; what
is left to TLC is liveness.

`LogBuffer` takes the deletion of a task from `AppRuntime` as its action
`Deleted`. `NvsLayout` holds the loaders of `wifi_station.cpp` and
`ssh_server.cpp`; `DeviceStorage`, which boots with them, and `BootstrapSketch`,
which fills the store for them, both extend it. `BootstrapSketch` extends
`WifiService` and composes it with the commands, the apps and the tool at the
other end of the line. `ShellSession` ends in the dispatch that starts the
commands of `DeviceStorage`, `AppRuntime` and `BootstrapSketch`. The other modules
meet at these interfaces and are checked one at a time: the product of their
states is out of reach, and no other state is shared.

## 3. The modules and the code

A definition stands for the lines `PROJECT.json` gives under "map". Operators
named `X_Something`, next to a definition `X`, are variants of it with a
plausible error; they are used only to confirm that the properties notice it.

### AppRuntime (`idf_app_runtime.cpp`)

Every app record is shared without a lock between the shell task, the supervisor
and the app's own task, on two cores. A step is therefore one access to a record
or one kernel call. `pc`, `target` and `seen` are the program counter, the
pointer and the tested handle of the shell and of the supervisor; `life` and
`owner` are the FreeRTOS control blocks, which are reused. `run()` is `Run` or
`RunSigned`, `stop()` is `Stop`, `Delete`, `Clear`, `StopMark`; `supervise()` is
`Wake`, for each record the three reads `ReadState`, `ReadTask` and
`ReadHeartbeat`, then `Delete`, `Clear`, `GiveUp` or `Restart`, `Recheck`; both end
in `start()`: `CreateFails`, or `Create`, `Publish`, `FirstBeat`. The task's loop
is `Beat` and `Pause`, left through `StackLimit`, `TaskClear`, `TaskExit`. Because the fields are plain,
the value that a call passes after its test is either the one that was tested or
the one there now; deleting through a handle that became null deletes the
caller, and through a stale one is recorded in `fault`.

`overlap` is a history variable: it becomes true once two parties have worked on
one record at the same time. The shell and a failing task work on a record from
their test of it; the supervisor from its first read of it, but only if it goes on
to intervene: `crossed` remembers that another party was in the record between the
reads, and counts when the third one condemns the app. A whole `app-stop` between
two of the reads is such an overlap. `SerialLifecycle` and `DownStaysDown` hold as
long as there was none, which is what the code relies on; `app_tasks` shows what
happens otherwise.

### LogBuffer and LogRing (`idf_log_buffer.cpp`)

`capture_vprintf()` is `Log`, then `Skip` if `capturing` is set, else `Test`,
`Mark`, `Enter`, `Store` and `Advance` (or `StoreNothing` for an empty message),
`Leave`, `Unmark`; `log_dump()` is `DumpEnter` and `Copy`. An app task may be
deleted anywhere outside the spin lock (`Deleted`). `LogRing` is the abstract
ring: a sequence that takes one message, drops the oldest beyond the capacity,
and can be shown. `Kept` maps slots, index and count to that sequence.

### WifiStation (`wifi_station.cpp`)

The event handlers (`Disconnected`, `GotIp`), each access of the failover task to
a flag or to the driver (`Poll` to `ConnectRefused`), `wifi-status` (`Ask`,
`Answer`, because it stores `connected` after the driver's answer), and the
driver, which is external (`Join`, `Lease`, `Fail`, `Drop`). Events are handled
in the order the driver posted them. Time passes in polls of the failover task.

### SshServer (`ssh_server.cpp`)

`esp32shell_ssh_start_after_wifi()` is `GotIp`. `ssh_server_task()` acquires
its resources one by one (`LoadAuth` to `Listen`), each with the failure path
that gives back the ones before, then serves clients (`AcceptClient` to `Close`),
with `serve_shell()` and `serve_sftp()` inside. `held` is what it owns. The
sockets block, so a step of a served client waits until the client has sent
something or has gone. What a client sends may be a request (`Send`), the shell
request whose callback writes the global (`ShellRequest`, in the handshake or in the
worker), something that wolfSSH takes for an error, or the end of its channel with
the connection left open: `WorkerFails` and `SftpEnds` end the service in any of
these cases. The clients are records of what they offer and want.

### ShellSession (`shell_session.h`, `command_core.h`, `loop()` of the sketch)

`front` tells the two prompts apart. At the SSH prompt, `ShellSession::run()`,
`Read` gives a chunk of any length, then each byte is a line end (`EndLine`, or
`Swallow` for the LF of a CR LF), a backspace, a character, or one character too
many (`Overflow`). `Write` may lose output, as `SshTransport::write` does. At the
serial prompt a backspace is a character, a second CR is swallowed like an LF,
the line holds one character more than the command core accepts, and what
follows is dropped without a word (`Drop`), so that the core refuses the line;
`exit` does not close anything. `Commands(front, typed)` is the reference: what a
line discipline finds in the whole input, line end by line end (`LineAt`), with the
backspaces of each line carried out (`Edited`). It knows nothing of a buffer, of
chunks or of the flag behind a CR. Both are recursive functions over positions of
the input, so that they can be reasoned about.

### NvsLayout (`wifi_station.cpp`, `ssh_server.cpp`)

The keys of the namespace, and `LoadProfile` and `LoadAuth`, which say what the
runtime image makes of them at boot: profile 0 falls back on the keys without a
number as a pair; SSH needs a string and two blobs, and a value of the other
type is not found. Nor is a value that does not fit the buffer it is read into:
`LongSsids`, `LongPasswords` and `LongNames` are the values over 32, 64 and 31
characters.

### DeviceStorage (`idf_command_services.h`, `idf_ota.cpp`, boot)

A command is the list of the library calls it makes (`WifiConfigCalls`,
`ConfigSetCalls`, `ConfigClearCalls`, `FsWriteCalls`, `OtaCalls`); each call is an
action that may fail as the code handles it: a set or a commit that fails ends the
command with an error; `config-clear` makes both its erasures whatever the first one
returns, and then commits only if neither failed (`NvsErase`, `NvsCommit`); the
results of fclose and rename are not looked at. A credential that is too long for its
buffer, or an image for its slot, is refused before anything is changed. `nvs` is what reads see and `flash` what was committed; `Reset` loses
any of the difference. `Boot` runs the loaders and the bootloader's choice;
commands need a device that can be reached, with credentials of both servers.
`wifi-profile-clear` is typed with the arguments the README gives and refused by
the code's own two tests (`ClearAccepted`), so that no erasure of it is reached.

`told` remembers what each answer promised, `command.was` what had been promised
before the command in progress (a failed `fs-write` leaves the old file), and
`ignored` that a result the code does not look at reported a failure.

`OtaApply` is `ota_apply_signed_image()`: the key is read and the signature and the size
checked before anything is written, then the slot that does not run is erased,
written, checked and selected. In this firmware nothing calls it; the model types
it like a command, which is the caller the API is written for. An image that
boots is assumed to behave like this firmware. `approved` remembers what was
verified.

`AtomicUpdate` is what an update promises, told in four images: the one that runs,
the one a boot would start, the one in hand and the one reported. Under the mapping
`Update` the slots, `boot` and the list of calls are gone: what a boot would start
is `slots[Chosen]`, and an image is in hand from its verification to the answer, the
first failure or the reset. Which call moves the choice depends on what came
before: on a fresh device it is the selection, but a second update without a reboot
in between erases the slot that is selected, which falls back to the image that
runs, and writing the new image there already selects it.

### WifiService (`wifi_service.h`)

`configure()` and the two `clear()` are the operators `Configure`, `ClearSlot`
and `ClearAll`; `tick()` is `Tick`, one disjunct for each of its exits. The
driver is external: `link` goes from `idle` to `joining`, `associated` and
`online`; `begin()` is refused while it negotiates, which `tick()` does not see
(`rejected`); `connecting()` answers only for an associated station. `now` wraps
at `TickMod`, as `millis()` does at 2^32. The buffers of a profile are as long as
those of the runtime image, but `configure()` cuts what does not fit (`Clipped`). The field `cooldown_` is written and
read without ever changing what happens, and is left out.

### BootstrapSketch (`esp32shell.ino`, `app_supervisor.h`, `tools`)

A line from the tool is executed as the device takes it apart (`Executes`), which
need not be as it was meant (`Meant`). The words of `wifi-config` are divided by
blanks and the SSID ends at the first of them, so that an SSID that holds a blank is
taken for another SSID and password: the constant `Parse` gives, for the words sent,
the slot and the credential they are taken for, or none; what is no profile, or an
SSID that is too long, is answered by the usage line or an error (`Accepted`,
`Refuse`), which the tool does not wait for. In the instances of the runs the SSID
`blank` is taken for `half`.

A command is the list of calls it makes, in the order of the code (`StoreProfile`,
`ProfileClear`, `ConfigSet`, `ConfigClear`, `AppRun`, `AppStop`); each call is a
step, `Reset` may fall between any two, and Preferences commits each change at
once, or fails without being looked at (`Store`). Values are stored in full, however
long. `Setup` loads the profiles with the sketch's own `loadWifi()`; `LoopTick` is
the call of `tick()` at the end of `loop()`, which is reached between commands only.
`Blink` is the task of led-blink, which runs between any two steps.

`Creds` stand for the SSIDs and passwords, `Secrets` for the values of the SSH
keys. A situation names who is at the line, what the tool sends (`ToolLines`: the
lines of the two scripts, in any number and order) and what NVS holds. That
store is one that the images leave behind when no command is cut short
(`WholeStores`): a numbered SSID stands next to its password.

At the line is one of three users: the provisioning tool (`ToolSends`, `Answer`,
`Timeout`, `RunAgain`), an operator who sets and clears profiles, or a tester of
the two apps. A line sent while the device starts is lost. Eight seconds are
longer than any command, so the tool gives up only when no answer can come. The
events of the driver and the clock are steps between commands: a command touches
the service in one call at most, and they commute with the others.

Four history variables say what a property excepts: `unsaved`, the keys whose
last change failed; `torn`, that some command was cut short or failed; `drift`,
that since boot a change failed or `config-set` wrote a Wi-Fi key, which the
service does not see before the next boot; `dark`, that the blinking was stopped.

## 4. What the runs check

| Run | Instance | States | Shows |
|---|---|---|---|
| `app_one` | one signed app, two control blocks, three ticks | 1,057,860 | types; restarts within their budget and an app given up only when it is spent; the inductive invariant; records and tasks agree, and an app that is down stays down, until parties meet on a record; a supervised app does not stay running with an expired heartbeat |
| `app_stale` | one built-in app | violation | a healthy app is restarted |
| `app_tasks` | one built-in app | violation | one app with two tasks |
| `log_ring` | three tasks, one of them deletable, two slots | 580,776 | mutual exclusion in the ring, no slot shown unwritten, and the ring implements `LogRing` |
| `log_deleted` | the same | violation | the flag stays set with nobody capturing |
| `wifi` | four contents of NVS, two profiles; the second access point serves, or none does | 52,593 | `connected` is true only while the link is up or its loss is in the queue; while nobody runs `wifi-status` the station gets online again and again where an access point serves; where none does, each configured profile is tried again and again, though one access point lets the station join without an address and the other is out of range |
| `wifi_ask` | two contents of NVS, one `wifi-status` | violation | a dead link and no attempt for ever |
| `ssh` | four clients, one failure anywhere | 25,801 | nothing leaked on any path; served as authenticated and asked; every waiting client accepted; the listener up unless something failed |
| `session` | six bytes, chunks of one or two, lines of two characters, both prompts | 403,156 | dispatched commands are those of the reference; the echo shows the line; nothing after exit |
| `storage` | three commands, one failing call, resets anywhere, values too long, four images, two contents of NVS | 1,440,927 | acknowledged profiles, settings, uploads and updates survive; no upload is cut short; an approved image always boots; an update implements `AtomicUpdate` |
| `sketch` | six situations: a tool run twice, or two commands of an operator or a tester; one reset and one failing call anywhere | 1,034,927 | what the tool provisioned, and the device took for what it meant, is what the runtime image finds where it fits; RAM, store and both images agree; the link is that of a configured profile; each profile is offered to the driver again and again; LED, records and tasks of the apps agree |
| `sketch_blank` | the tool, an SSID with a blank, nothing fails | violation | "Provisioning completed", and another SSID and password in NVS |

Each property of a passing run was also checked against a variant of the code
that breaks it ("mutants" in `PROJECT.json`).

### Bounds

- `MaxTick`, `Timeout`: three ticks against a timeout of one let an app beat,
  expire, be restarted and expire again; `TickMod` is larger than all of them,
  so that the only wrap is that of a negative difference, as in 32 bits.
- `Handles`: two control blocks are what two tasks of one app need; the third
  creation then exercises `CreateFails`. `MaxRestarts` is one instead of three:
  zero, one and none left are the cases that the code tells apart.
- `Capacity` two instead of 64 wraps after two messages; three tasks are enough
  for one in the section, one past the test and one that is refused.
- `AttemptTicks` and `CooldownTicks` keep the order of 10 s and 500 ms.
  `MaxEvents` bounds the event queue; `MaxRaces` bounds how often an event is
  overtaken by a poll or an attempt ends inside a pass of the failover task:
  without it the fairness assumed could be met by endless coincidences that the
  priorities and the 250 ms sleep rule out; `MaxAsks` is one because one
  `wifi-status` is enough to break what holds without.
- `Backlog` two lets one wait behind another while a third is served;
  `MaxAttempts` three instead of 300; `MaxFailures` one puts one failure at every
  place in turn.
- `MaxLine` two, `MaxInput` six: two full lines with line ends split over
  chunks, an overlong one, and edits in between.
- `DeviceStorage`: `MaxCommands` three: one to establish, one that is interrupted
  or fails and leaves something uncommitted, one that commits it by accident, or
  an update after an update; `MaxFaults` one. `Images` are one signed with the
  stored key, one with another, one that is signed and no application, and one that
  no slot has room for. One password is too long, and one user name: it is refused
  by `wifi-config`, accepted by `config-set`, and found in NVS at first, as the
  bootstrap image may leave it. Resets are unbounded.
- `BootstrapSketch`: the clock wraps after three units, with `Retry` two and
  `Cooldown` one in their order, so that a time ahead may lie behind the wrap.
  `Situations`: the two scripts, over a store provisioned before and over one
  with unnumbered keys only; the scripts with an SSID that holds a blank and with
  passwords and SSIDs that are too long, over a blank one; an operator over
  unnumbered keys; a tester over a blank store (the apps share nothing with the
  Wi-Fi service). Two runs of a script let a
  second follow one that was cut off anywhere; two commands of an operator are a
  change and one that meets what it left.

### Fairness

- `AppRuntime`: the supervisor and the tick. The supervisor has priority 2 over
  the apps' 1 and sleeps only by `vTaskDelay`. Nothing is assumed of the
  operator, of the heap or of the apps.
- `WifiStation`: weak fairness of the tasks and of time, because FreeRTOS runs
  every ready task. Strong fairness of the end of an attempt, of `Connect` to
  each profile, and of `Join` and `Lease` of a profile whose access point
  serves: the driver ends an attempt, does not refuse one profile for ever, and
  a working access point answers one of infinitely many attempts. The properties
  conclude nothing for access points that do not serve.
- `SshServer`: the event loop, the server task, an address some day, and that
  the served client leaves some day: the code gives the client no time limit
  once it is served, so without the last one the next client waits for ever.
- `BootstrapSketch`: weak fairness of `Setup`, of the calls of a command, of the
  clock and of the end of a negotiation that fails; strong fairness of
  `LoopTick`, because `loop()` passes many times within a unit of time, whatever
  the clock and the driver do in between. Nothing is assumed of users or access
  points. The property concludes nothing while the station is associated, with
  or without an address (see section 6).
- The other modules check safety only.

## 5. What is proved

`tlapm` checks every theorem below for all values of the constants that satisfy
the named assumptions of the modules: any number of tasks, clients, credentials,
files or bytes, and any bound on commands, failures and resets. Every invariant and
action property of section 4 is among them. The assumptions say no more than that
the values of different kinds are told apart and that a device starts with what the
tools can have stored; TLC evaluates them on every run.

The proofs have one form. A property that is not inductive is strengthened to an
invariant (`IInv`), which `TypeOK` is a part of or follows from; there is one lemma
for each action or kind of action; the theorems combine them. Before it was proved,
each invariant was checked by TLC on the instance of its run.

### AppRuntimeProofs

`Inductive == Spec => []IInv`, from which `TypeCorrect`, `RestartsBounded`,
`LifecycleCorrect` and `RunsOnlyByRequest` follow. `IInv` has three parts.

- `Shape`: types, and that whoever works on a record works on a registered one,
  a task that is not dead was created with a record, and only registered records
  name a task. `TypeOK` alone is not inductive: the value stored by `Create` goes
  to `target[c]`, which must be a name.
- `RestartBudget`: the count is at most `MaxRestarts`, and equal to it in a
  record that failed by "heartbeat timeout". It needs only `Shape`, and holds
  whatever the parties do to each other: only the supervisor writes the count.
- `overlap \/ Exclusive`: until two parties meet, the live tasks are exactly
  those the records name, save between a deletion and the store that follows it,
  and each program point knows whether its record has a task (`PointsKnow`). While
  the supervisor is between its reads and nobody else was in the record, what it
  has read still holds (`ReadsHold`); the third read turns that into what
  `PointsKnow` says of the deletion.
  `SerialLifecycle` is what remains of this for records nobody works on.

`ShapeStep`, `SweepStep`, `BudgetStep`, `ReadsStep` and `ExclusiveStep` have one step per action of `Next`
and below it one per conjunct the action can disturb. `RunsOnlyByRequest` is the
action property, from `PointsKnow`: at every point where the supervisor works on
a record without overlap, that record is running already.

### LogBufferProofs

`TypeCorrect`; `RingGuarded` (mutual exclusion, and every slot a dump would read
was written); and `KeepsLast`: the ring implements `LogRing` under the mapping
`kept <- Kept`. Two tasks may be past the unlocked test, but only one is in the
critical section (`Owned`), and only its step `Store` changes `Kept`; the lemmas
on `Window` say that storing at `nextEntry` and advancing drops the oldest
message if the ring is full and appends the new one, by cases on whether the
index wraps. All other steps leave `Kept` alone.

Two theorems say, for any set of tasks that may be deleted, where the finding of
`log_deleted` comes from and what it costs. `OnlyDeletionStrands`: the one step after
which `capturing` is set and no task is in its capture is the deletion of a task inside
it; several tasks past the unlocked test never leave it so. `SilencedForGood`: once it is
left so and no task is past the test, no message enters the ring again.

### WifiStationProofs

`TypeCorrect`, and `ConnectedAgrees`: as long as nobody has run `wifi-status`,
`connected` is true only while the link is up or the last event that waits is the
disconnection. The invariant adds what its types depend on: `applyProfile()` is
tried for at most two profiles (`TwoPasses`), so that the slot stays in the array.
The lemmas `Posted` and `Handled` say what a queue of any length has as its last
event after a step at either end.

### SshServerProofs

`TypeCorrect`, `Releases` (`NothingLeaks`) and `ServesAsAsked`. `Holdings` says for
each place of the server task what it holds, which makes `held` a function of the
program counter and the leak freedom of every failure path an instance. `Progress`
says what is known of the client at each place. The shell request is the hard part:
`g_shellRequestAccepted` is a global and may still be that of the client before when
the next one is accepted; only at the places of a session does it imply that the
present one has asked.

### ShellSessionProofs

`TypeCorrect` (no line outgrows its buffer), `ShowsWhatRuns`, `StopsAtExit`, and
`RunsWhatWasTyped`: the prompts run the commands of the reference, for every input.
`Discipline` relates the buffer to the reference: it is what the discipline makes of
the bytes behind the last line end (`AsTyped`), it is empty while the flag behind a
CR is set (`EmptyBehindCR`), and the flag is set at least when the last byte was a CR
(`SeesCR`). The converse of the last is false: a backspace leaves the flag, and an LF
behind it is swallowed where the reference sees a line end; nothing is lost, for by
`EmptyBehindCR` the line is blank.

What the two recursive functions of the reference compute is proved by induction
over the positions of the input. The library's induction theorems cannot be
instantiated here, but its statement that the numbers are well-founded can be used:
a set of positions has a least one (`Least`), so that a set which holds 0, and with
each number the next, holds all (`Induction`). From it follow that the functions
exist (`EditsExist`, `CollectsExist`) and what one byte more adds (`EditedOneMore`,
`CommandsOneMore`).

### DeviceStorageProofs

`TypeCorrect` and the seven other properties of `storage`. `InProgress` has one part for
each command: the calls that are left are the end of its list (`Rest`), the item it
changes is not promised meanwhile, and each call already made has left its mark in
`nvs`, `flash`, `disk` or the slots. When the last call is made, the part says that
what the answer promises is true. `Promised` says that everything else that was
promised stands: in RAM and on the medium alike, so that a reset which loses any of
the difference loses none of it. `ProfilesKept` is stronger than `ProfileKept`: a
promised profile is in its own numbered keys, for profile 0 could otherwise come
from the keys without a number. `SlotsKept` says that a slot holds an approved image
or none, and that the image which runs is whole; from it follows `AlwaysBoots`.

`UpdatesAreAtomic` is the refinement of `AtomicUpdate`. `WhatStarts` says that the
bootloader starts the other slot than the one that runs only if it is selected and
holds a whole image. With it each call of an update is one abstract step: the
erasure is `Revert`, the write `Revert` or `Switch`, the selection `Switch`, a failure
`Abandon`, the answer `Report`; `Report` needs the part `Updating` of the invariant,
that the slot which was selected still holds the image in hand. Every other command
is a stutter, for only the update is about the item `"ota"`.

Assumed: what NVS holds at first is typed (`Provisioned \subseteq Stores`), the
temporary name of a file is another name, and paths, items and images are told apart.

### BootstrapSketchProofs

`TypeCorrect`, `RamAgrees`, `ImagesAlike`, `HoldsConfigured`, `StaysDark`,
`AppsAgreed` and `ReadyWhenDone`. The properties speak of the moments between two
commands, and none of them holds in the middle of one. The invariant therefore
speaks of what the rest of the command will make of the state: `NvsAfter(calls,
nvs)` and `ProfilesAfter(calls, profiles)` are store and profiles once the calls that
are left are made, in closed form, because no command does one thing twice
(`Command`). A call then leaves `RamWillBeStored` and `StaysWhole` as they are
(`NvsTail`, `ProfilesTail`), a failing one is excepted by `torn` and `drift`, and only
the beginning of a command has to establish them. `AtApp` enumerates the places
within the two commands on apps, with what each says of task, record and LED.

`ReadyWhenDone` needs the history of a script. `Delivered` says of every value that
the present run has sent: the store will hold it when the command is done, or its key
is known to be unsaved, or a later command of the script has written the key again
(`KeepsWhatWasSent`, a theorem of its own). What earlier runs sent need not be known,
for a run that reaches its end has sent everything again. A script is any nonempty
sequence of `ToolLines`, over any store of `WholeStores`, and the tool may be run
and cut off any number of times. `Parse`, `Clip` and the sets of values that are too
long are any: the theorem concludes nothing for a script of which a line was not taken
for what it meant, for a profile with a password that does not fit and for a user name
that does not (`sketch_blank` shows the first of these); that an SSID fits need not be supposed, because the sketch refuses it otherwise (`ShortSsids`).
`ImagesAlike` supposes of the values of a slot that they fit (`Roomy`).

### Only model-checked

- Liveness under fairness: `HeartbeatSupervised`, `OnlineUnlessAsked`,
  `EachProfileTried`, `NextClientServed`, `ListensUnlessFailed`,
  `EachProfileOffered`. The prover does not reason about ENABLED, on which
  fairness rests.
- The five runs that expect a violation: a counterexample is a behaviour, and TLC
  exhibits it.

## 6. Findings

The five runs that expect a violation each reproduce one disagreement between the
code and what the repository says of it; `PROJECT.json` has the quotation and the
line.

- `app_stale`: the supervisor's tick is older than the heartbeat it is compared
  with, and the unsigned difference wraps: a healthy app is restarted.
- `app_tasks`: `app-run` between the supervisor's null store and its restart
  gives an app two tasks, one in no record.
- `log_deleted`: deleting an app task that is capturing a message disables the
  ring until reboot.
- `wifi_ask`: `wifi-status` stores `connected` after the link was lost or before
  it has an address, and the failover task sleeps on it for ever.
- `sketch_blank`: the provisioning tool sends SSID and password divided by a blank,
  and the sketch ends the SSID at the first one: an SSID such as "home net" is stored
  as "home" with the password "net ...", accepted, and reported as provisioned.

Seen while modelling, without a run of their own. In the runtime image:

- `app-stop` may delete the task that the supervisor's restart has just created,
  and `start()` then stores `Running` over `Stopped`: the app is shown running, has
  no task and cannot be stopped (`FirstBeat`);
- of the two tests that `wifi-profile-clear` makes of its argument, one wants a
  blank behind the slot and the other the end of the string; no argument passes
  both, and no profile can be removed (`WifiProfileClear`);
- messages logged while another task is capturing reach the UART but not the
  ring (action `Skip`);
- a start of the SSH server that failed is not retried at later addresses, for
  the gate is never reopened (`GotIp`);
- the characters behind an overlong SSH line are run as a command (`Overflow`);
- `wifi-config` that fails or is cut off after its first set leaves the new SSID
  with the old password, and the next boot uses the pair, although the answer
  was "error: Wi-Fi profile save failed" (`NvsSet`);
- `fs-write` reports "upload=complete" when `fclose` or `rename` failed
  (`CloseFile`, `RenameFile`), and its temporary name may be another file's; the
  directory /apps is created by no code;
- `config-set ssh_password` stores text under a key that the SSH server does not
  read, and `config-set ssh_host_key` stores a string where it reads a blob, so
  that it does not start at the next boot (`Typed`, `LoadAuth`);
- `config-clear` erases `app_public_key`, while the runtime reads
  `app_signing_pub`;
- `config-list` reads values into two bytes and lists longer ones as unset;
- `ota_boot_validate()` marks the image valid before anything else has run, and
  the rollback it answers is not switched on in `sdkconfig.defaults`: an image
  that starts and crashes later is kept;
- a second update before the reboot erases the slot that the first one selected
  (`EraseSlot`); the bootloader then falls back on the running one, and
  `BootsApproved` holds.

In the bootstrap image:

- `tick()` stores `Offline` at the first pass after `begin()`, because the driver
  has not associated yet, so that the attempt is not ended before the next one:
  the driver refuses the second `begin()`, `activeSlot_` names a profile that is
  not being joined, and clearing that one leaves the station joined (`rejected`
  in `LinkIsConfigured`); for the same reason `wifi-status` says offline during
  most of an attempt;
- a station that is associated and gets no address is never given up:
  `connecting()` has no time limit (`TickConnecting`);
- the retry time may lie up to 49.7 days ahead when the clock wraps during a long
  connection (`TickWaits`);
- `wifi-config` accepts a password of any length and `config-set` an SSID of any, and
  the sketch goes on with the value cut, while the runtime image finds no profile
  (`Clipped`, `Fits`, `Roomy` in `ImagesAgree`); a user name of more than 31
  characters is stored too and does not fit the buffer of `load_auth_config()`, so
  that the SSH server never starts (`LoadAuth`); a digit before a blank at the
  beginning of an SSID is taken for the slot (`Parse`);
- the results of the stores are ignored: "accepted and persisted" and the tool's
  completion are reported although NVS took nothing (`Store`);
- `loadWifi()` falls back key by key and `loadProfiles()` pair by pair: after an
  interrupted change the sketch may join a new SSID with an old password that the
  runtime image would not use (`torn` in `ImagesAgree`);
- `config-set wifi_ssid` has no effect while the numbered keys exist;
- `config-clear` of the sketch erases the credentials too, while
  docs/ARCHITECTURE.md says that clearing configuration preserves them;
- an app whose task could not be created once is refused from then on
  (`AppRun`), and led-blink leaves the LED lit, with `app-stop` answering that it
  is stopped already;
- a line that begins with blanks and is too long is run without its end, for the
  dropped characters are not counted (`Drop`, `Runs`); what arrives while `tick()`
  blocks in the driver may overflow the serial buffer.

## 7. What is not modelled

- Of the Arduino image: the file commands, which write in place and have no
  counterpart in provisioning; the GPIO commands; the reports; the output of the
  diagnostics task; `OtaService` and `ota_policy.h`, `BoundedLog`,
  `SshSessionManager` and the policies, which the sketch does not call or which
  are predicates on strings.
- wolfSSH and its port, lwIP, the Wi-Fi drivers, NVS, LittleFS, FreeRTOS and the
  bootloader are external and modelled by what the code uses of them. SFTP runs
  inside wolfSSH; its effect on files is not in `DeviceStorage`.
- The LED driver of the runtime image (`set_rgb()`), GPIO, reports and
  formatting.
- The bytes of signed bundles and images: their verdicts are the constants
  `SignedNames` and `Signer`.
- Parsing of arguments, where it decides nothing but the wording of an error:
  commands are given valid arguments; invalid ones answer with an error and
  change nothing. Where it decides, it is there (`ClearAccepted`, `Runs`, `Parse`).
- Host tools beyond what they send and how they wait; building, flashing, and
  the tests, which search the sources for strings.
