# Verification of the NXP UWB HAL of `device_xiaomi_odin`

The repository is the device tree of the Xiaomi MIX 4 (odin). Most of it is
data: build files, overlays, sepolicy, audio and sensor configuration. The
program with logic of its own is the NXP UWB HAL in `src/uwb`; next to it are
a few small parts (under-display fingerprint, lights, doze settings, boot-time
properties). These TLA+ modules model the UWB HAL; TLC checks them on small
instances, and TLAPS proves, for every value of the constants, every safety
property that the passing runs check.

## The system

### Threads and what they share

| Thread | Code | Keeps and changes |
| --- | --- | --- |
| API thread (one binder thread: `service.cpp` sets the pool to 0) | `uwb_chip.cpp`, `phNxpUciHal.cc`, `phNxpUciHal_ext.cc` | `nxpucihal_ctrl` (status, callbacks, `ext_cb_data`, flags of the current command), `mClientCallback` |
| client thread | `phNxpUciHal_client_thread` | takes every message of the queue: read and write completions, timer callbacks, open/close announcements; runs `read_complete` |
| TML reader | `phTmlUwb_TmlReaderThread` | `tReadInfo`, its semaphore, the static receive buffer |
| TML writer | `phTmlUwb_TmlWriterThread` | `tWriteInfo`, its semaphore, `gWriterCbflag` |
| expiry threads (SIGEV_THREAD) | `phOsalUwb_Timer_Expired` | one per expiry, posts a message to the queue |
| UWB chip | external | answers a command once, late, several times or never; sends notifications |

They are joined by one message queue (`phDal4Uwb_messageQueueLib.cc`), by
counting semaphores (`phNxpUciHal_Sem_t`) and by plain global fields that no
lock protects.

### Components

| Component | State | Operations | Interacts through | Correct when |
| --- | --- | --- | --- | --- |
| Transport (TML) | read and write requests, two binary semaphores, `gWriterCbflag`, receive buffer | init, read, write, reader and writer loops, deferred completions | message queue, completion callbacks | every write completes once, packets arrive once and in order, a response after the completion of its write, buffers stable while in use |
| UCI command | `ext_cb_data`, retry counters, response timer, `hal_ext_enabled`, `ext_cb_waiting` | `process_ext_cmd_rsp`, `send_ext_cmd`, `write`, `read_complete`, timeout callback | transport, timer, host callback | bounded retransmission, a result that is that of this command, responses to their owner |
| Life cycle, AIDL service | `halStatus`, client thread, queue, TML context, timers, monitor, `mClientCallback`, death links | open, close, host death | every thread is created and ended here | nothing used after release, everything released, the host told in order |
| Core initialisation, binding | device and binding status, four notification semaphores, `uwb_device_initialized`, retry count | `coreInitialization` and the init part of `read_complete` | UCI command, firmware download, host callback | initialised only when the chip is, binding only when due, it returns and tells |
| Firmware download (HBCI) | chip mode, image offset | status queries, segmented transfer | SPI directly | the image in order and whole; the download mode left |
| Country code, calibration | caps map, runtime settings, remembered tx power | `handle_set_country_code`, `extcal_*`, `applyCountryCaps`, tx power of the host | UCI command, configuration, the loops of UCI rewriting | settings and answer are those of the country or of its region's first code, the chip has what the files give, whatever was set before |
| Configuration | cascade of files, region map, current region | load, load for a country, lookup, unload | country code, every `NxpConfig_Get*` | the most specific file that has a parameter answers |
| UCI rewriting | command buffer, `input_map`, `conf_map`, antenna pairs | `phNxpUciHal_parse`, `handlingVendorSpecificAppConfig`, `parse_get_capsInfo`, `process_ext_rsp` | write path and client thread | bytes, counts and lengths agree; denied channels are refused and masked |
| OTP calibration | one semaphore with a pointer to a stack frame | `otp_read_data`, its part of `process_response` | UCI command, client thread | the read ends; nothing goes to a frame that is gone |
| Thermal recovery | a timer per error, two flags | the rest of `process_response` | client thread | not modelled, see below |
| Under-display fingerprint, lights, doze | a few flags | sensor, screen and panel events | Android services | not modelled, see below |

### What is hard

Interleavings of five kinds of threads over unprotected fields; responses that
overtake the completion of their write; a timeout that races with the answer
it stands for; a notification that arrives when its waiter has gone; counting
semaphores that keep the tokens of earlier events; a close that orders its
releases by sleeping; hosts that die at any time; retries that meet answers to
earlier tries. In the parts that handle data: settings that survive a close and
an open; files that are read again only when the region changes; commands of
which one fails and the next is sent all the same; packets rewritten in place
with lengths of eight bits, and pointers carried from one turn of a loop to the
next. PROJECT.json lists these hazards at their lines.

## Modules

| Module | Models |
| --- | --- |
| `UciLink` | abstract specification: what the transport promises (one completion per write, packets once and in order) |
| `Tml` | `phTmlUwb.cc`, with the SPI driver's failures and the write-busy wait |
| `UciCommand` | one UCI command at a time: `phNxpUciHal_process_ext_cmd_rsp`, `read_complete`, the timer |
| `UciService` | abstract specification: what the callers of the command loop rely on (each command answered or given up, never both, and its caller told which) |
| `HalLifecycle` | open, close, host death, client threads and every object created and released |
| `CoreInit` | `phNxpUciHal_coreInitialization` and the init part of `read_complete` |
| `Hbci` | `phNxpUciHal_fw_download` and its retries, against the chip's boot ROM |
| `NxpConfig` | `phNxpConfig.cc`: which configuration files are read, when they are read again, and which one answers a lookup |
| `CountryPolicy` | abstract specification: what setting a country promises |
| `CountryCode` | `phNxpUciHal_handle_set_country_code`, the country caps and restrictions, the calibrations of the files and of the host |
| `UciPackets` | the bytes of the packets the HAL changes on their way |
| `TmlProofs`, `HbciProofs`, `CoreInitProofs`, `LifecycleProofs` | theorems about `Tml`, `Hbci`, `CoreInit`, `HalLifecycle` |
| `UciCommandProofs` | theorems about `UciCommand`, with any timer and with a timely one, and `UciService` |
| `UciPacketsProofs` | theorems about `UciPackets`, and what its loops compute for any packet |
| `CountryProofs`, `PolicyProofs` | theorems about `CountryCode`: types, UWB and DDFS; what the files say, and `CountryPolicy` |
| `MC*` | sets for the TLC instances |

`Tml` implements `UciLink` through `Link == INSTANCE UciLink WITH ...`;
`UciCommand` uses the transport as `UciLink` promises it and implements
`UciService`, when `Timely`, through `Service == INSTANCE UciService`, whose
variables are those of `UciCommand` with the same names; `CoreInit` uses commands
as `UciService` promises them (answered, refused, or failed at the end of the
retries). `CountryCode` extends `NxpConfig` and implements
`CountryPolicy` through `Policy == INSTANCE CountryPolicy WITH ...`.
`CountryCode` keeps a set of allowed channels where `UciPackets` has the bytes
of `conf_map`; `UciPackets` in turn takes any set of restricted channels for
granted. `HalLifecycle` is about what is alive, not about what
packets mean. `Hbci` is the inside of `CoreInit`'s download, which there is
one step that succeeds, fails or finds no file.

### Tml and UciLink

`tReadInfo`, `tWriteInfo`, `gWriterCbflag` and `wait_busy_flag` are the fields
of the code, `rxSemaphore` and `txSemaphore` its binary semaphores, `reader`,
`writer`, `client` and `api` the control states of the threads. A step is what
happens between two points at which another thread can interfere: waking,
the SPI transfer, setting the flag, posting the message. `onChip` and `pkts`
record what the chip got and sent; `expired` are the packets whose wait for the
write was cut short by the one second of `phTmlUwb_WaitWriteComplete`.

### UciCommand and UciService

`api` walks through `phNxpUciHal_process_ext_cmd_rsp`. The kinds of command are
`internal` (`send_ext_cmd`), `host` (`write`), `chained` (no response expected)
and `parsed` (answered inside the HAL). `retryCnt` and `lenCnt` are the two
retry counters; `status`, `sem` and `live` are `ext_cb_data`. The timer has its
slot state (`eState`), the kernel timer (`armed`), expiry threads on their way
(`expiring`) and messages in the queue (`timeouts`). `Timely` selects whether
the response time-out may fire while the reply is still under way.

`UciService` keeps of this the command in progress, how often it was sent, its
verdict (`answered`, `refused` or `reported`), what the host received and what the
caller was told. Its steps are sending, the answer, giving up at a limit, returning
and the delivery of a response to the host, each allowed only in the order the
callers rely on: nothing is sent after a verdict, there is one verdict, and the
caller is told that one. A lost write, a late packet or a race of the timer is no
step of it.

### HalLifecycle

Resources are flags or counts: the queue (`allocated`, `nClientId`), the TML
`context`, the pending read, the `timers` taken from the pool, the `monitor`.
Each session has its own detached client thread; using a released object is
recorded in `faults` and may crash the process. `Prompt` selects whether the
threads finish their work during the sleeps of close, which is what the code
relies on.

### CoreInit

`api` walks through the call; `Waits` and `Commands` are its tables: which
semaphore is waited for, which device states are accepted, where the thread
goes on success, failure or time-out. `tokens` are the semaphores' counts and
`live` whether they are initialised. The client thread takes a packet (state
read and written at `read_complete`'s beginning) and finishes it (post, hand
over, forward, request the next) in two steps. The chip boots, reports, answers
and notifies; `Mishaps` says what may go wrong: a failed download, a missing
image, a refused command (`nak`), a lost command (`silent`), an answer that is
lost after the chip has carried the command out, so that the command is sent and
carried out once more (`unheard`; when the second try is lost as well the first
one stands), a lost (`mute`) or repeated (`twice`) notification, a device error
(`crash`), a wait that ends although its notification is under way (`late`). The low power mode
is the command whose failure the code ignores. `otp_read_data` is a command
with a timed wait of its own: `cookie` says whether its stack frame waits, has
its data, or is gone; a packet that is stored after that (`calib_data_ntf_wait`
keeps its pointer) counts as a dead post.

### Hbci

`api` is the exchange the host is in, in the order of the code: `lc` and `id`
(`phHbci_GetDeviceLcInfo`, `phHbci_GetChipIdInfo`, each a query and the read of
its data taken as one exchange), `open` (`init`, the file and its size),
`ready` and `mode` (`phHbci_Master`), `status` (the loop of
`phHbci_MasterHIFImage`), `header` and `payload` (`phHbci_PutCommand`), `retry`
(the recovery in `phNxpUciHal_coreInitialization`). An exchange is a write
(`PutApdu`), the chip's handling (`ChipHandles`) and a read with the decision on
it (`GetApdu` and the two queries); `bus` says whose turn it is. `miso` is the
class and instruction in `gphHbci_MisoApdu`: since `phHbci_GetApdu` tests only
for a negative result, a short read leaves what an earlier exchange, or an
earlier download, put there. The buffer of the two queries is not initialised,
so what a short read of them yields is any value. The image is a sequence of
numbered bytes of one kind, so a gap, a repetition or the wrong file shows.
`Mishaps`: a refused write, a failed read, a read of nothing (`empty`) or of the
class only (`partial`), a refusal, a payload whose LRC is wrong (`garbled`), a
chip that asks for the image once more (`again`), a file that cannot be read.
`DownloadReturns` is therefore about counted attempts: the loop over status queries
(`phNxpUciHal_fwd.cc:554`) has no bound, and a chip that asks for ever would keep
the host in it, which no run shows.

### NxpConfig, CountryCode and CountryPolicy

A file is a function from parameter names to values: `readConfig` stands for
what the text parser makes of a file, and for the empty map it leaves when there
is none. `mMainConfig`, `mUciConfig`, `mExtraConfig`, `mCapsConfig` are the
layers of `phNxpConfig.cc`, `Layers` their order, `NxpConfig_Init`, `_Deinit` and
`_SetCountryCode` its operations: which caps file has the highest version, which
regions the map adds, and which files are read again when the region changes.

`CountryCode` walks through `phNxpUciHal_handle_set_country_code` in the steps
between which its commands are sent: `load` (the choice between caps and
restrictions), `caps` (one entry of `phNxpUciHal_applyCountryCaps` at a time),
`offset` (the remembered tx power), `power`, `shape`, `tone`, `baseband` (the
calibrations of the files), `answer`. `Open` and `Close` are in the model because
`isCountryCodeMapCreated`, `conf_map` and `gtx_power` survive them. A command
that fails may have been carried out or not, since it may have been lost on
either way. `asked`, `sent`, `country` and `governing` are history: what the host has
set since, whether every command was answered well, which country was the last,
and which was loaded last. The two differ because a code of the region in force
loads nothing (`phNxpUciHal_ext.cc:1327`): the first code of a region governs until
another region is set. `Says`, `RegionOf` and `PolicyOf` say what the files mean
without a cascade, a reload or a scan; `CountryPolicy` is the machine that simply
answers with what they say of the governing country.

### UciPackets

A packet is a sequence of bytes. `Walk` is the loop over TLVs that several
functions share, with the two things in which they differ: which first bytes
start a two-byte tag (E0 to E2 in the maps and where parameters are removed, E0
and E3 in `parse_get_capsInfo`, none in the scan for channels) and how
many bytes must follow the length. `p_cmd_data` is the command buffer, of which
a command overwrites only its own length; `channelBlocked` scans it with the
eight-bit arithmetic of the code, beyond the command when a length says so.
`input_map` is global: what an attempt has read before it failed stays for the
next. `inPlace` and `rebuilt` are the two ways `parse_get_capsInfo` treats a
response, without and with `UWB_VENDOR_CAPABILITY`.

## Runs

Passing runs:

| Run | Shows | Bounds |
| --- | --- | --- |
| `tml` | ordering, stable buffers, no busy write; refinement of `UciLink` with its fairness: writes complete, packets are delivered | 2 writes, 3 packets: one packet more than writes, and a write and a read queued at once; the proofs cover every number |
| `command_timely` | results, ownership and bounds of commands of every kind, with every answer and with lost ones, no post on a destroyed semaphore; refinement of `UciService` | 3 commands, so that a stale answer can meet the next and the next but one; retry limits 3 and 2, as small as lets both counters mix; 1 notification |
| `command_live` | every command returns although time-outs and answers race | 2 commands, so that an old time-out can meet the next command; one retry |
| `lifecycle_prompt` | two sessions, every failure of open, packets, an expiry, host deaths: nothing used after release, everything released, the host told in order | 2 hosts (symmetric), 2 opens: what one session leaves meets the next; 1 expiry |
| `lifecycle_live` | announcements and the release after a death, with every failure of open | as above, without expiries |
| `coreinit` | initialised means initialised; a good chip always comes up; binding only when due; no post on destroyed semaphores; the call returns, a success and a device error are told; with commands carried out twice because an answer was lost | 1 configuration command and calibration, 2 mishaps of any kind, 1 download retry |
| `hbci` | success means the whole right image; segments in order; retries suffice; the download ends | 2 mishaps and 2 retries, so that two attempts fail in any two ways; segments of 2 bytes, files of 0, 2, 4, 5 and 6: none, one whole segment, two, one broken and as large as the buffer, too large; 2 kinds of chips and files |
| `country` | refinement of `CountryPolicy`; UWB on for valid countries only; capabilities within the restrictions; DDFS with a tone; the chip has what the files give | 4 devices: two caps files with versions beside a main file with other caps, where two codes of one region have caps of their own, files per country under a region map that two codes share, files with a malformed and a missing parameter, no main file at all; 4 codes of which one is invalid; 2 opens, so that the globals meet another device state; 4 tx powers, so that offsets of 2 and -2 wrap and are cut |
| `packets` | app configurations, capabilities and refused configurations against reference definitions | 2 packets, so that one meets the buffer and `input_map` of another; every sequence of up to two of four parameters (channel, value that looks like a channel, vendor tag, two-byte tag), longer ones, a packet beyond 255 bytes, every cut-short one; 3 chips, any restriction of channels 5 and 9, 3 antenna blocks |

The bounds are on what the environment does (how many commands, packets,
mishaps, sessions) and on retry limits; every program step is unbounded.
`country` and `packets` bound opens and packets only: countries, calibrations and
restrictions are set without limit.
The pool of timers keeps its real size (5). Runs say `CHECK_DEADLOCK FALSE`
because a HAL with nothing to do, or whose environment has used up its bound,
stops.

The types of `UciCommand` are proved (`TypeCorrect`); no run repeats them. That no
command is sent beyond the limits or after its verdict is part of `CommandService`.

Violation runs. Each shows a statement of the repository that the code does
not keep; PROJECT.json quotes it under "findings".

| Run | What the code does |
| --- | --- |
| `command_success` | a late answer to one command makes the next one succeed |
| `lifecycle_late` | close frees queue and context under the client thread |
| `packets_aoa` | the angle of arrival goes into the parameter before its tag |

Not the subject of a run, though the models reach it: after a lost answer the
notification of a command that is carried out again may be posted when the call
has released its semaphore; a tx power or a pulse shape that the files give for one
country stays in the chip when they give the next one none, since nothing is sent then
(`phNxpUciHal_ext.cc:1174`, `1192`) and nothing resets the chip, although both are
called per-country (`config/README.md:140`, `149`): `ChipMatchesFiles` is about what
the files give; on a device with caps and a region map, the second code of a region is
answered with the settings of the first, and the capabilities keep its mask, since
nothing is loaded while the region stays the same (`phNxpUciHal_ext.cc:1327`), although
the caps hold settings for each country code (`config/README.md:17`), and
`CountryPolicy` says what the code does; a packet handled
while the host is told of a device error gets the length of that notification
(`rx_data_len`, `phNxpUciHal_ext.cc:454`); a refused device information command
ends `coreInitialization` without a word to the host, its semaphores still
alive (`phNxpUciHal.cc:1608`); the binding status told as the original one is
that of the check (`phNxpUciHal.cc:1474`, `1481`); the tx power of the host is adjusted
for the country when it is remembered and again on its way
(`phNxpUciHal_ext.cc:548`), also one remembered before a reopen; between a reopen and
the next country the capabilities are masked with the map of the last session;
an empty last parameter of a capability response makes `get_input_map` give up, so that
the response goes to the host unmasked; a two-byte tag in a configuration makes the scan
for denied channels lose its way; when caps are loaded, none of the calibrations of the
other files is applied, although `config/README.md:8` speaks of the priority of a
parameter given by both; its examples (`config/README.md:187`) write
`cal.restricted_channel` for the parameter the code reads as
`cal.restricted_channels`.

Met while proving: when several caps files have the highest version the first is
taken, and one whose version is negative never (`CapsFile`); when the caps have several entries about UWB for a country the last
decides, while a channel once denied stays denied (`Disabled`, `RestrictedBy`).

Met while reading, and not the subject of a run: `HalLifecycle` reaches a queued
timer message that points into a slot `phOsalUwb_Timer_Cleanup` has cleared
(`"timer"` in `faults`); an expired timer whose message is queued still has its callback run after `phOsalUwb_Timer_Stop`; the
fragments of one response can each post `ext_cb_data` (the models have one
packet per response); `phNxpUciHal_write` returns the length of a command that
SPI refused; an open whose client thread cannot be created returns success;
opening an open HAL informs nobody; closing a closed HAL returns a failure;
each failed open keeps a timer until the next close; a host that died before
its death was linked keeps the HAL; a firmware file that is missing, or a chip that
cannot be identified, leaves the chip in forward mode.

### Fairness

Weak fairness of the threads: a thread that can run does, which the scheduler
gives. The timed waits of the code end, so their end is part of the fair
actions. `Tml` has strong fairness for a successful SPI read: the reader tries
again after each failure, and a driver that fails every read for ever delivers
nothing. `HalLifecycle` has strong fairness for the death notification, since
binder delivers it but it waits for the one binder thread. In `UciCommand` and
`CoreInit` the chip answers, or is known to have lost the command: there is no
fairness that forces an answer. In `Hbci` the chip answers or the driver ends
the read with an error, since the code reads without a time-out of its own.
`CountryCode` and `UciPackets` have safety properties and need no fairness.
Nothing is assumed of the host, of mishaps or of crashes.

## Proofs

Assumptions: only those stated in the modules. Most say that constants are
numbers and flags. Those of `NxpConfig` and `CountryCode` are about the files:
`CodesAssumption` (a code of two upper-case letters is valid), `DisksAssumption`
(no parameter and no region is named like an invalid code, and a file of one
country holds no table of all), `PowerAssumption` and `ValuesAssumption` (values
have the type of their parameter) and `NamesAssumption` (other files are named by
the main file, as the documentation of the configuration says, and no code is
empty). Codes may share regions in any way. TLC evaluates them on the devices of
`country`. In `UciPackets`,
`PacketAssumption` says that the host's configurations have parameters the
loop can read (fewer than 253 bytes, two-byte tags from `E0` to `E2`), that they
fit the buffer (`UCI_MAX_DATA_LEN`, 4200) with less than 256 parameters, that a
channel parameter has a value, and that a command cut short lacks bytes of its
last parameter. `DeviceAssumption` says of a chip (`Fitting`) that its capabilities
and the configured ones fit one response (`uint8_t` lengths) and repeat no tag,
that the last value is not empty (`get_input_map` gives up at the end of a packet),
that channels and the angle of arrival have one byte and protocol versions two,
that the angle of arrival comes after a parameter with a value (the code writes
through the pointer that one left, `phNxpUciHal.cc:734`),
and that `UWB_VENDOR_CAPABILITY` has tags of one byte and no channels, as the loop
that counts them and the mask take for granted; and that a device has a pair of
receiving antennas or more: for none the code leaves an old byte where it is. `UciCommandProofs` and `LifecycleProofs` have theorems whose hypothesis
is the flag `Timely` or `Prompt`; that the properties fail without it is what the
runs `command_success` and `lifecycle_late` show.

Proved with tlapm, for every value of the constants:

* `TmlProofs!TypeCorrect`, `ResponsesAfterCompletions`, `BuffersStable`,
  `WritesNeverBusy` and `Refinement` (`Spec => LinkSafety`). The properties are
  not inductive: that no second read message is queued depends on where the
  reader, the semaphore and `tReadInfo` are. `IInv` adds `ReadCycle` and
  `WriteCycle`, which say that the read request (and the write request) is at
  exactly one of the places unarmed, requested, in the thread's hand, queued, or
  being handled, and `ChipBound`, which relates the chip's and the reader's
  counts of packets to the writes. The refinement maps each step to a step of
  `UciLink` or to a stutter under `IInv`.
* `UciCommandProofs!TypeCorrect` and `TransmissionsBounded`, for any limits, any
  number of commands and any delays. `LoopCount` relates the number of
  transmissions to the sum of the two retry counters at each control state;
  `CommandInProgress` says the loop runs for a numbered command.
* `UciCommandProofs!TimelySuccess`, `TimelyFailure`, `TimelyResponses` and
  `TimelyNoDeadPosts`, when `Timely`, for any limits, commands, replies, losses
  and notifications. A property about a result is not inductive, because the
  semaphore of a command does not say what posted it. `TimelyInv` has `OneAnswer`:
  the transmissions the chip holds, the packets on the wire that can wake the
  caller, the one in the client thread, the expiries and the posts nobody has
  taken are together at most one, and none when nobody waits. With `OwnPackets`
  (no packet answers an older command), `StatusReal` (from the time an answer is
  taken `status` says what it was), `AnsweredOnce` (a response ends the loop) and
  `Given` (what went to the host agrees with what the chip answered) this is
  inductive. A late time-out breaks `OneAnswer`, and with it all the rest.
* `UciCommandProofs!ServiceImplemented` (`Spec => CommandService`), when `Timely`:
  every step is a step of `UciService` or leaves its variables (`ServiceStep`; the
  lemmas `Sending`, `AnsweredStep`, `Returning` and `Delivering` are the cases that
  do something). `Served` adds to `Inv` what the abstract guards ask: that the loop
  waits for internal and host commands only (`ServedKind`), that what was reported is
  over, and reached a limit first (`ReportLast`), that an answer the status shows
  was counted (`HostAnswered`), and that no command has two verdicts (`OneVerdict`).
* `LifecycleProofs!TypeCorrect` with any threads, which includes that the pool
  of timers suffices however often open fails; and `PromptNoUseAfterRelease`,
  `PromptClosed` and `PromptEventOrder`, when `Prompt`, for any number of hosts,
  sessions and expiries and any failures of open. The binder thread releases
  what other threads use, so `Inv` says where each object is in the life of a
  session: `OneThread` (only the current session's client thread can be alive),
  `Built` (what it uses exists while it runs), `ThreadState` (the thread ends
  when, and only when, it has handled the close message), `MessageOrder` (the
  announcement of the opening comes first in the queue, and the close message
  is there once at most, and only while closing),
  `HeardSoFar` (what the host has heard by then) and `NothingLeft`.
* `CoreInitProofs!TypeCorrect`, `InitialisedIsReal`, `NominalRunSucceeds`,
  `PostsAreLive` and `BindingIsRequested`, without an assumption on what goes
  wrong, for any number of configurations, retries and mishaps. The waits are
  counting semaphores, so the argument counts: what the chip has still to send
  for a semaphore, what is on its way to it and what was posted is what the call
  still waits for. `Once` says *at most*, as long as no notification is sent
  twice and no command carried out twice, and with it `InitIsReal`; `Balanced`
  says *exactly* for the device state when notifications are neither lost, doubled nor late, no answer is lost and the
  chip does not crash, and `StateKnown` what the state is then; where the chip is
  (`ChipState`) and what it owes (`DueState`) is known while all its answers are
  heard (`AllHeard`); `Nominal` adds that commands
  are answered (`Answered`) and that no failure is on its way to the host
  (`Untold`); `Binding` follows what the HAL may know of the chip's binding
  (`Knows`) from the reset to the request, whatever goes wrong.
* `HbciProofs!TypeCorrect`, `SuccessTruthful`, `SegmentsOrdered`,
  `RetriesEnough` and `FilesClosed`, for any size of segments, images and
  buffers, any retry limit and any number of mishaps. None is inductive: that
  the image is complete when its status is asked for depends on every segment
  before. `IInv` has `Turns` (whose turn it is, and what each exchange knows of
  the image's size), `FilesOpen`, `Verdict` (only the chip's answer can be read
  as a success) and, while reads are complete, `RightImage` (the file is the one
  for this chip), `BeforeImage`, `Sending` and `AfterImage` (where the chip is
  in each exchange, and that it has the bytes the host counts as sent), and
  `Paid`: the failed attempts, and the one an unexpected answer is about to end,
  never outnumber the mishaps.
* `CountryProofs!TypeCorrect`, `OnlyValidCountries` and `ToneBeforeDdfs`, for any
  devices, codes and calibrations and any number of opens. The first needs what
  a lookup may return: `LayersShape` and `Lookup` say that it is the value of
  one of the files read. That UWB is on only for a valid country is not
  inductive for two reasons: a code of the same region is not loaded again, and
  restrictions are not applied while a caps map of an earlier country exists.
  `CountryInv` adds that the region determines whether a code is valid
  (`SameRegionValid`), and that whoever has UWB on and a caps map has caps, for
  every country (`CapsKept`: setting a country changes no file that may hold caps).
  `ToneInv` relates what the API thread is about to ask of the chip to the tone
  the chip has.

* `PolicyProofs!CountryCodeImplementsPolicy` (`Spec => PolicySpec`),
  `CapsAreTheCountrys` and `ChipHasWhatFilesSay`, for any devices, codes,
  calibrations and opens. They relate the loaded files, the settings and the
  chip to what the files say without a cascade (`Says`, `PolicyOf`).
  `LoadInv`: the loaded files are those of the disk for the region of the last
  country; opens that failed leave their extra files in front, which repeat the
  ones behind. `SaysWhatIsFound`: then the cascade answers what `Says` says.
  `Scanned`: at each entry of the caps, the settings are what the entries of the
  country before it make of them. `PolicyInv`: outside the scan the settings are
  the policy of the country loaded last; a code for which nothing is loaded is of
  that country's region (`InRegion`, `SameRegion`); the capability map is that
  country's too and outlives the session, and one exists only on a device whose
  caps are there for every country (`Mapped`, `CapsEverywhere`). `CalibInv`: what the API thread
  has passed on its way through the handler is in the chip, and stays there.
  Each step is one of `CountryPolicy` or leaves its variables (`PolicySteps`).

* `UciPacketsProofs!AppConfigRewritten`, `BlockedAsAsked` and `RefusalsCounted`,
  for any configurations, cut short or not, any number of commands and whatever
  they left in the buffer. Here the invariants are short (`PacketInv` and
  `BlockInv` add to the property that the buffer holds numbers) and the loops are
  the work: TLA+ says nothing of a recursive function until one satisfying its
  equation is shown to exist. `WalkIsDefined` extends a longest partial function by
  one value; `Refused` gives the function; `LoopIsDefined` is for the scan
  of `phNxpUciHal_parse`, whose eight-bit index may go round for ever, where the
  positions from which a denied channel is reached are a fixpoint. `Flat` says
  what `FlattenSeq` concatenates and where, so that `EncodedAt` and `Starts` find
  each parameter in the bytes, `ReadMany`, `WalkReads` and `WalkFails` what a
  walk makes of whole parameters and of a last one cut short, and `ScanStep` that the
  scan goes from one parameter to the next. Induction over positions is replaced
  by a least position of which the claim would not hold (`Least`).
* `UciPacketsProofs!CapsAsPromised`, for any chip and configuration that fit, any
  blocks of antennas, and whatever countries were set and responses came before.
  The invariant, `CapsInv`, is short: `CapsState` says that no tag is left in
  `input_map` between two responses and that the bits of `conf_map` are those of
  the restricted channels. The work is what one response becomes. `Bears` relates
  the bytes of a response to the parameters it carries, and `ReadsBack` is that a
  walk finds them again. `Prepared`: after `phNxpUciHal_parse_get_capsInfo` the
  response carries the chip's parameters and the configured ones (`Gathers`),
  rightly counted. `Took` and `Ordered`: the map has each of them under its tag, and
  writes each once. That the new length is the length of what is written needs that
  the map, in another order, has as many bytes (`AsLong`, `NotLonger`: parameters
  that are picked one to one from others are not longer together), that the order of the tags
  by rank is one to one (`Ranked`, `Lists`), and that a mask does not change a
  length. `Masks` is about bits: what the mask of the country's byte leaves is what
  `Promised` removes. `Delivers` and `Concluded` are the property itself.

Only model-checked:

* everything under fairness: `LinkSpec` beyond its safety part, `CommandsReturn`,
  `Announced`, `LinkedDeathReleased`, `InitReturns`, `CrashTold`, `DownloadReturns`;
* the properties of the violation runs, which do not hold.

## Not modelled

* The text of configuration files (`readConfig` stands for what parsing gives),
  the SKU in a path, logging.
* Calibrations beyond one number per parameter and one antenna per channel; the
  crystal and antenna delay calibrations, which have no effect on other state,
  are the commands of `CoreInit`.
* Parameters of 253 bytes and more in a packet: `param_len` has eight bits and
  wraps with the header added.
* An angle of arrival that is the first parameter of a capability response, or
  follows an empty one: `p_caps_value` then points nowhere, or past it. `Fitting`
  excludes such chips.
* Commands inside a command: the calibration commands of a country are sent
  from within the write of `ANDROID_SET_COUNTRY_CODE`. `CountryCode` has their
  order and effects; in `UciCommand` that write is a `parsed` command like others.
* A second `coreInit` on an open HAL, and session initialisation.
* The thermal recovery. The pool of five timers loses one for every thermal
  error, which the upper layers' close gives back; no code waits for `mCondVar`
  or reads `isThermalRecoveryOngoing`, so nothing else depends on it.
* Patch ROM mode of the firmware download, its capture files and
  `phHbci_QueryInfo`: the default options never use them.
* The SPI driver's `phTmlUwb_spi.cc` beyond success and failure.
* The fingerprint handler. `mAuthSuccess` is cleared by a thread that every
  success starts anew, so that the pause of a second success within half a
  second ends early; the rest are writes to files of the kernel.
* Lights, doze settings, boot-time properties and the data of the device tree:
  tables and assignments without behaviour over time.

## Plan

Done: all modules above; the refinements of `UciLink` (safety), of
`UciService` and of `CountryPolicy`; a theorem for every safety property the passing
runs check.
Left, in this order:

1. A second `coreInit` with `HalLifecycle`.
2. The thermal recovery's timers, and the fingerprint handler's flag.
