# Verification of the RFID reader daemon

TLA+ models of the reader daemon in `src/llrpreader`, TLC configurations that
check them on small instances, and TLAPS proofs of what matters most.
`PROJECT.json` is the machine-readable index: the components, the runs, one
mutant per property, the source lines of every definition, the findings, the
hazards and the theorems.

Contents: 1 the system, 2 the modules and the code, 3 what the runs show,
4 fairness, 5 bounds and modelling choices, 6 what is proved, 7 findings,
8 what is not modelled, 9 the plan, 10 how to run.

In this text paths are relative to `src/llrpreader` unless they begin with
`LTK/` (`src/LTK/LTKCPP/Library`), `cgi-bin/` (`src/cgi_project/cgi-bin`) or
`project/` (`src/project`).

## 1. The system

The daemon drives an RFID reader module and an antenna multiplexer over one
serial line and offers the tags to network clients. It is a set of POSIX
threads in one process, wrapped by small classes (`OwTask`, `OwMutex`,
`OwSemaphore`, `OwTimer`). Around it are an LLRP toolkit (message codec and
connection), CGI programs that a web server starts and that speak the daemon's
binary protocol, and SCGI servers.

```
  LLRP client ──┐                     ┌─> LLRP_MntAgent ──> LLRP_ROSpecExecutor ─┐
  binary client ┼─> LLRP_MntServer ───┼─> IAgent ───┐                            │
  SCGI client ──┘   (accept, pools)   └─> SAgent ───┤ start/stop, handlers       │
                                                    v                            v
                     PWM gate <── IAgent_CallBack ── IAgent_Executor ──────> IReader API
                     (OwTimer)                        │                 (mutex, GPIO, serial line)
                                                      v                          │
                                                  CSqlite                multiplexer, reader
```

Outside the daemon: an LLRP client uses the toolkit (`LTK/ltkcpp_connection.cpp`)
against the LLRP agent; a web server starts `cgi-bin/main.cpp`, which is the
binary client, or speaks SCGI to the `SAgent` or to one of the stand-alone
servers (`project/scgi`, `project/scgi-arm`).

### 1.1 Inventory

| Component | Source | State | Operations | Correct when |
|---|---|---|---|---|
| Tag-streaming executor | `llrp-new/iAgent_executor.cpp` | `executor_start_flag`, `clientFd[4]`, `moRegistry`, a semaphore, a mutex | reading loop, `start_executor`, `stop_executor`, `Set/RemoveCallbackHandler`, `Do_Callback` | no start is slept through; a slot follows its owner; a handler called is live; reading stops when nobody listens |
| Binary-protocol agent | `iAgent.cpp` | its socket, `idle` | one handler per opcode, `iAgent_CallBack` | its slot is released by its stop; its antenna count is the multiplexer's; an answer is what was asked for |
| SCGI agent and CLI | `sAgent.cpp`, `CCLI.cpp` | its socket, receive buffer, `done`, `idle`, its handler | receive and check a request, `startstreamtag`, `stopstreamtag`, `seltag`, `getsearchtimeout` | only whole requests run; its handler leaves the registry before its socket closes |
| Gate servo | `pwm.cpp` | `duty`, semaphore, mutex, close timer | `semaphoreGive`, open, close, cancel and restart of the timer | every request opens; the gate closes at last; the servo stays in range |
| One-shot timer | `wrapper/src/OwTimer.cpp` | `mbIsStarted`, `suspended`, `running`, semaphore, mutex, condition | `start`, `cancel`, `suspend`, `hasRun`, `hasSuspended`, the thread | a cancel cancels; a start starts; it never stays started |
| Reader API | `iReader/iReaderapi.cpp` | `m_hMutex`, handle table | its calls: fixed programs of module selections and commands | calls exclude each other; the line points to the right device; the mutex is given back; tags come from the antenna named |
| Drivers and serial line | `iReader.cpp`, `muxdev.cpp`, `muxserial.cpp` | receive state machines, input of the port | send, receive, resynchronise, retry, check | an answer is complete, undamaged and belongs to its command |
| Connection server and pools | `llrp_MntServer.cpp` | `socketState`, `bill_out`, three pools, `mpMutex` | create, bind, listen, select, accept, deliver, `showAgentStatus` | a connection is served once and closed by who served it; agents are reused |
| LLRP agent | `llrp_MntAgent.cpp`, `llrp_MsgProcessor.cpp` | ROSpec list, keepalive counter, settings, executor | receive loop, add/enable/start/stop ROSpec, configuration, keepalive, reader failure | ROSpecs follow the LLRP states; no ROSpec is used after it is deleted; a silent client is given up |
| ROSpec executor | `llrp_ROSpecExecutor.cpp` | tag table, `idle`, ROSpec pointer | inventory loop, reports, events | reports what it read, once; stops when told |
| Tag database | `CSqlite.cpp` | `sql_buff`, `parm`, `zErrMsg`, the tables | insert, update, look up, list | one row per tag and antenna; the action found is that of the tag |
| LLRP toolkit | `LTK/*.cpp` | receive buffer, message queue; encoder and decoder | open, close, transact, receive; encode, decode; XML text | a message arrives as it was sent, once, and answers its request |
| CGI programs | `cgi-bin/*.cpp` | two receive buffers over one socket | one request, its answer, its rows | what is shown is what the daemon held |
| Wrappers | `wrapper/src` | a mutex, a semaphore | take, give | ordinary semantics |
| Watchdog, GPIO, console, start-up | `CWatchDogFeeder.cpp`, `gpio.cpp`, `cli.cpp`, `llrp.cpp` | none of interest | I/O | - |

`AkMsgProcessor.cpp` is not in the build (`Release/subdir.mk`); the ROSpec and
receive functions inside `LLRP_MntServer` are unused copies of those of
`LLRP_MntAgent`.

### 1.2 How the parts interact, and what is hard about it

* **Shared plain integers.** `executor_start_flag`, `clientFd` and the antenna
  count are read and written by every agent and by the executor without a lock.
  Start, stop, claim, drop and the executor's "nobody left" are all
  check-then-act sequences.
* **Callbacks into other tasks' objects.** The executor calls the handlers of
  SCGI connections while those connections end.
* **Descriptors as identities.** A slot is a bare descriptor number. The kernel
  hands the lowest free number to the next connection.
* **One serial line for two devices and many tasks.** A GPIO pin selects the
  device. Commands are retried, answers carry little identification, and the
  receive buffer is shared by consecutive calls.
* **A timer with shared flags.** Start, cancel and suspend race the expiry, and
  the handler runs with the timer's mutex held and takes another mutex.
* **Pools.** Agents are reused once their `idle` flag is up; server, agents and
  CLI touch the pools with a "lock" that does not wait.
* **Failures.** System calls fail, commands are lost, slaves report errors,
  clients disappear without a stop.
* **Pointers across threads.** The agent owns the ROSpec messages, the executor
  keeps plain pointers to them; only two sleeps are between the end of an
  inventory and the deletion of its message.
* **Bytes in pieces.** Every protocol here is put together from what `recv` or
  `read` happens to return: LLRP frames, the two serial protocols, the binary
  protocol behind two buffers, SCGI requests.
* **Time limits and repeated requests.** An answer that comes after its limit
  stays somewhere (in a queue, on the line, in a socket) and meets a later
  request.
* **Buffers of one object used by all.** `CSqlite` prepares statements and
  collects results in members that every thread shares.

The hazards in `PROJECT.json` list each of these at its line, with the property
that watches it or the reason why there is none (yet).

## 2. The modules and the code

| Module | Models | Actors | Extends / uses |
|---|---|---|---|
| `IAgentExecutor` | executor, start/stop, registry, the agents' side | executor, IAgents, SAgents | |
| `MCIAgentExecutor` | symmetry for TLC | | `IAgentExecutor` |
| `IAgentExecutorProofs` | theorems on types, starts, handlers and slots | | `IAgentExecutor` |
| `OwTimer` | the timer, access by access | its owner, its thread | |
| `PwmGate` | the gate composed with its timer | PWM task, timer thread, requests | extends `OwTimer` |
| `PwmGateProofs` | theorems | | `PwmGate` |
| `MCDaemon` | instances of the pools and of the gate, one per behaviour | | extends `AgentPool`, `PwmGate` |
| `ReaderApi` | the API's programs, the drivers' retries and checks | tasks, two devices | |
| `ReaderApiProofs` | theorems | | `ReaderApi` |
| `ConnService` | what the server promises (abstract) | | |
| `AgentPool` | server, pools, agents' lives, CLI | server, agents, CLI, clients | implements `ConnService` |
| `AgentPoolProofs` | theorems, and the steps of the refinement | | `AgentPool` |
| `RospecService` | the life of ROSpecs as a client sees it (abstract) | | |
| `LlrpAgent` | LLRP agent, its processor, its executor threads | agent, threads, client | implements `RospecService` |
| `LlrpAgentProofs` | theorems, and the steps of the refinement | | `LlrpAgent` |
| `LlrpReports` | settings, ROSpec copies, the table of tags, reports | agent, executor thread, client | |
| `LtkExtract` | `CFrameExtract` and big-endian integers, which codec and connection share | | |
| `LtkFrame` | the binary codec, on real bytes | | extends `LtkExtract` |
| `LlrpMailbox` | what an LLRP connection promises (abstract) | | |
| `LtkConnection` | the toolkit's connection | client, reader, the wire | extends `LtkExtract`, implements `LlrpMailbox` |
| `LtkConnectionProofs` | theorems, and the steps of the refinement | | `LtkConnection` |
| `MCLtkConnection` | the codec, samples of messages and of broken frames | | `LtkConnection`, `LtkFrame` |
| `XmlText` | the toolkit's XML text, and a reader for it | | |
| `ReaderLine` | the two serial protocols, byte by byte | host, devices, the line | |
| `WebSession` | one run of a CGI program against its `IAgent` | program, agent, executor | |
| `ScgiRequest` | one SCGI connection | server, web server | |
| `TagDb` | the database under its users | executor, agents | |
| `MCTagDb` | one gate tag and one more | | `TagDb` |
| `MCDataPath` | instances of the five data modules, one per behaviour | | extends `ScgiRequest`, `WebSession`, `LlrpReports`; instantiates `ReaderLine`, `XmlText` |
| `DataPathProofs` | theorems on requests, web programs and reports | | `ScgiRequest`, `WebSession`, `LlrpReports` |
| `SequenceLemmas` | lemmas on least numbers and on sequences of sequences, which proofs share | | |

### 2.1 `IAgentExecutor`

One action per access to shared state. `xpc` says where the executor is:
`take` (its semaphore), `while` (the flag), `for` (the antenna loop),
`clients`, `zero`, `flagcheck`, `slots`, `send`, `drop`, `callback`,
`handlers`, `writing`, `found`. `apc[a]` is the same for each agent.

| Code | Actions |
|---|---|
| `IAgent_Executor::main`, outer loop | `Take`, `While`, `ForEnds`, `SkipAntenna`, `ReadNoTags`, `ReadTags` |
| its checks after a read | `HasClients`, `ZeroFlag`, `FlagCheck`, `FoundCheck` |
| its send loop | `ReadSlot`, `CallBack` (`iAgent_CallBack`, with its sentinels), `DropSlot` |
| `Do_Callback` | `DoCallbackTake`, `TagEventCallback`, `DoCallbackGive` |
| `start_executor` | `StartExecutor` or `SetFlag` (flag), `ScanSlot`, `ClaimSlot`, `Give` |
| `stop_executor` | `StopExecutor` (flag), `StopScan`, `StopClear` |
| `iAgent_GetAntBitMap` | `AntMapBegin` (count to 0), `AntMapEnd` (the new count) |
| connection life | `Accept`, `CloseConnection`, `CloseSocket` |
| SCGI commands | `StartStreamTag`, `StopStreamTag`, `SelTag`, `GetSearchTimeout`, `RemoveCallbackHandler` |

`asked` and `stale` are history variables: which agents have a start in force,
and which slots were claimed by connections that have closed since.

### 2.2 `OwTimer` and `PwmGate`

`OwTimer` has two program counters: `opc` for the owner inside a call, `tpc` for
the timer thread. Each assignment to `mbIsStarted`, `suspended` and `running`
is a step, because the two sides share no lock for them. `suspended` and
`running` start with an arbitrary value: the constructor does not set them.
`pthread_cond_timedwait` is split into wait, deadline or signal, and taking the
mutex back, so that a cancel can fall between the deadline and the return.

`PwmGate` extends it with `PWM::main` (`mpc`), `do_close` in the timer's thread
(`hpc`), the request semaphore and the servo mutex. `handleTimeout` is what
happens between `ExpireRunning` and `CloseReturns`. Its specification is
`GateSpec`, so that `MCDaemon` can extend it together with `AgentPool`.

### 2.3 `ReaderApi`

Every call of the API is a *program*: a sequence of module selections and
commands. `ReadTagsMetaDataRSSI` is
`MUX, antport, READER, power, inventory, fetch`; `GetAntList`, `SyncChannel` and
`EquipTempGet` are shorter. A task walks its program with `step`; `Send`,
`Timeout`, `ReadError`, `Receive`, `ReceiveInventory`, `ReceiveTag`,
`TagsMissing` and `JumboMessage` are what can become of a command. `port` says
whether the serial port is there; once it has gone (`Unplug`) every `read()` is
-1. The reader's receive loop hands that on (`ReadError`); the multiplexer's
ends only at a 0 (`muxdev.cpp:56`) and turns for ever with the mutex held
(`Hangs`), so that no action of the call follows. `Return` is
`IF_ERROR_RETURN`, with the two codes that keep the mutex. The devices are
external: they handle a command or never get it, answer or have the answer
lost, and with `Late` they may do so after the line's timeout. What tags are is
abstracted to where they come from: the antenna that was switched in and the
antenna whose power was set when the inventory ran.

### 2.4 `AgentPool` and `ConnService`

`AgentPool` has the server's thread (`socketState`, `spc`), with one action per
state function and, in `socketDeliver`, one per access to the pool: `TakePool`,
`SearchPool` (one agent per step), `Assign`, `GivePool`, `Run`. An agent's
thread is `CloseConnection` then `GoIdle`. The CLI's `showAgentStatus` is
`CliTake`, `CliWalk`, `CliGive`. `take(0)` is a timed lock whose deadline is
already over: it succeeds if the mutex is free and else returns at once, and
nobody looks at the result. Faults are the system calls that may fail; each
has the consequence it has in the code (start over, `bill_out`, a thread that
does not come).

`ConnService` is the promise: a connection waits, is served once or lost, is
closed by who served it; as long as the server is up, nobody waits for ever.
The refinement mapping `life` computes a connection's stage from the backlog,
the server's hands, the pools and the threads; `up` is `~ bill_out`.

### 2.5 `LlrpAgent` and `RospecService`

The agent's thread is `apc` (`pool`, `hello`, `recv`, `start`, `failed`,
`sleep`), each executor thread `tpc[t]` (`init`, `begin`, `read`, `report`,
`check`, `round`, `end`, `exit`); `run()` may be called on the executor object
while an earlier thread is still alive, so there are several.

| Code | Actions |
|---|---|
| `LLRP_MntAgent::main` | `Hello`, `StopAll` and the sleep, `EndSession` (`ClearList`, whatever the threads are at), `NewSession` of the client |
| its receive loop | `RecvFails`, `TimeoutKeepAlive`, `TimeoutGivesUp`, `TimeoutFailed`, `CloseFailed` |
| its handlers | one action per message and outcome, each with `Receives`: `ConfigOpens`, `ConfigNoAntennas`, `ConfigRefused`, `AddRospec`, `EnableRospec`, `StartRospec` then `RunExecutor`, `StopRospec`, `AddRefused`, `EnableRefused`, `StartRefused`, `StopRefused`, `KeepAliveAck`, `GetReaderConfig`, `GetCapabilities`, `GetAccessSpecs`, `OtherMessage` |
| `LLRP_ROSpecExecutor::main` | `ThreadInit`, `ThreadBegin`, `ReadTags`, `ReadFails`, `Report`, `CheckStops`, `CheckGoesOn`, `RoundFailed`, `RoundStops`, `RoundAgain`, `ThreadEnd`, `ThreadExit` |
| `IReaderApiInit`, `IReaderApiClose` | `InitTakesSlot`, `InitDeletes`, `ApiClose`: the handle table has one entry, and an initialisation that finds it taken deletes the `IReader` |

An ADD_ROSPEC message is an object (`obj`) that the agent deletes; the executor
keeps pointers (`xmsg`, `tspec`). The agent sleeps 500 or 1000 ms before it
deletes them; one read of an executor thread may take longer (it waits for the
reader's mutex and then for up to three tries), so the deletion may come at any
point of a round. Two history variables tell the two cases apart: `owes` says
which threads are still in the round they were in when the agent stopped its
ROSpecs, `overtaken` that ROSpecs were deleted before such a round had ended.
What the code reads from a deleted ROSpec then may be anything (`Freed`); that
it may also crash is left out. `PhaseOf` maps list, objects and threads to the phase of a ROSpec
in `RospecService`: a ROSpec is `active` only while a thread serves it, and
`stopping` while a thread still does after its state has changed; `broken` is
`overtaken`.

### 2.6 `LlrpReports`

The agent thread is one action per message (`SetReaderConfig`, `AddRospec`,
`GetRospecs`, `EnableRospec`, `StartRospec`, `StopRospec`, `GetReport`,
`NewSession`) and `KeepAlive`, the executor thread is where `thread` says.
Both send with `sendMessage`, in two steps: the message is encoded into the
one `m_Send` of the agent (`Encode`), and what is in it is sent from there
(`Send`). Nothing locks it: in between, the other thread may encode too, and
then what it holds is either message or neither (`Torn`). `send()` may fail or
take a part of a frame, after which the stream carries no frame any more
(`stream`); nobody looks at its result. `untold` and `lost` are history: reads
the client was not told of, and why some may never reach it.
`ReportSettings` and `AntennasSettings` are the settings that SET_READER_CONFIG
and ADD_ROSPEC write: the code goes over the configurations one by one, which
leaves at each antenna the power of the last one that names it or all of them.
`RospecCopy` is the deep copy that GET_ROSPECS sends;
`AddRead` is the table of tags (one row by tag and antenna, the count, the
full table); `ReadTags`, `SendTagsReport`, `GetReport` and `ReadFails` are
the executor, which reports once `total` reaches the N of the settings unless their
trigger is `None`. A report is `BeginReport` then `SendReport`, which empties
the table whether it could be sent or not (`ReportKeepsRows` is the mutant of
that emptying); one whose rows do not fit the send buffer is not sent at all.

### 2.7 `LtkExtract`, `LtkFrame`, `LtkConnection` and `LlrpMailbox`

`LtkFrame` works on real bytes. A type is a record of fields and members, as
the style sheet generates them from the LLRP definition; `encodeElement` and
`decodeMessage` do what `CFrameEncoder`, `CFrameDecoder` and `CTypeRegistry`
do (`FrameExtract`, in `LtkExtract`, does what `CFrameExtract` does), with TV and TLV headers, custom types, lengths of 16 bits,
unknown parameters and every error code. The sample of types has each kind of
field and member.

`LtkConnection` takes the codec as a parameter (`Encode`, `Decode`, and `Reply`
for the messages the reader answers with); `CodecAssumption` says what it
relies on: a message comes out of the decoder as it went into the encoder, and
its frame says how long it is. `MCLtkConnection` gives it the codec of
`LtkFrame`, for which TLC evaluates the assumption. Its actions are
`openConnectionToReader`, `closeConnectionToReader`, `transact`, `TransactFails`, `recvMessage`; a call in
progress takes a queued message (`TakeFound`), looks further (`SearchMore`) or
advances the receive state machine, one action per outcome of `recvAdvance`
(`FramingError`, `Timeout`, `Receive`, `ReceiveFails`, `DecodeFrame`,
`DiscardFrame`). The reader answers requests in order whenever it likes
(`Answer`), notifies (`Notify`), sends what is no message, or closes
(`PeerCloses`). `LlrpMailbox` is the promise: one box of messages in the order
sent, from which a call takes the first that answers it. The box is the queue
followed by what the frames not yet decoded contain.

### 2.8 `ReaderLine`

`RxStateMachine` (the multiplexer's escaped packets) and `FrameByte` (the
module's `A5 5A` frames) take one byte each; `SendCmdToUart` and `Frame` build
the commands. A call starts (`StartCall` empties the input), bytes become
available (`Arrive`), are read (`GetChar`), or do not come (`Timeout`). A
damaged or missing answer makes the call send again (`Again`), three times at
most. One fault may happen: a byte lost or changed, an answer after the time limit
(`LateAnswer`), the port gone (`Unplug`, `GetCharGone`). A device may answer a
command with more than one status (`Statuses`), so that two answers to the same
command can be told apart; `mine` are the answers to the present call, `late`
those to earlier ones that were still under way when it began.

### 2.9 `WebSession`

A CGI program is a process that makes one request. `Start` sends it,
`AgentServes` is the handler of the `IAgent` with what it answers,
`iAgent_CallBack` pushes tags in between, `GetCharReceives` and `ReadAnswer` are
the answer through the first buffer, `AnswerTimeout` sends again or gives up,
`GetCharsReceives`, `GetCharsFull` and `ReadStream` are the rows through the
second buffer. A frame is two pieces, so that it can be cut. `WebAssumption`
says what holds of the runs because of the commands they come from (`Run`, the
`process_` operators): which answers a value or a list is read from, and that a
page has 30 rows (`process_seltag`).

### 2.10 `ScgiRequest`

`Sends` and `PeerCloses` are the web server. `ReadLength`, `ReadHeaders`,
`GivesUp`, `ReadsBeyond`, `CheckHeaders`, `ReadBody`, `RunCommand`, `WaitEnd`,
`NoQueryString`, `Failed` and `Close` are `SAgent::main` and, with
`server = "standalone"`, the programs it was made from. `process_cli_command`
is the table of `CCLI`: the two stream commands register the handler and
return, `seltag` registers it and polls for ever a database call that is
commented out (`pc = "turning"`), and reads past its argument list when it has
no arguments. A request without QUERY_STRING ends the process (`strcmp` with
NULL, `pc = "crashed"`). What is in a buffer is said by operators on the
bytes and their number (`Colon`, `Number`, `NetstringEnd`, `Headers`, `Value`);
`Netstring` says when a request is well formed, by its bytes alone, and
`ScgiAssumption` that `good` and `query` of a request say the same.

### 2.11 `TagDb`

A call of one of the four operations goes `Call` (its `sprintf`s),
`WriteSelect`, `ClearParm`, `Find` (`sqlite3_exec` with what `sql_buff` holds
by then), `Decide` (on what `parm` holds by then), `Store`, `Act`; `SelectTag`
and `ListRows` are the listing, `Commit` ends the open transaction. The
buffers are single variables; the operations are per thread.

### 2.12 `XmlText`, `MCDataPath` and `MCDaemon`

`putElement` is the text of an element as a sequence of pieces, one per
`appendFormat` call; `XmlNext` writes them into a buffer of `nBuffer`
characters. `ReadBack` is the reader of that text, which the repository does
not have: it says what the text is for. `MCDataPath` puts five modules together that share no
state and chooses one (`part`) at the start of a behaviour. It extends
`ScgiRequest`, `WebSession` and `LlrpReports`, so that their assumptions are
evaluated, and instantiates the others. `MCDaemon` does the same for
`AgentPool` and `PwmGate`, with the fairness of each.

## 3. What the runs show

| Run | Kind | Properties | States |
|---|---|---|---|
| `executor_safety` | pass | `TypeOK`, `NoLostWakeup`, `SlotPerStart`, `CallbackLive`, `RegistryLive`, `DatabaseSlotReserved` | ~660 000 |
| `executor_live` | pass | `Parks`, `ServedAgain`, `IdleStops` | ~430 000 |
| `executor_stale` | violation | `SendTellsClosed` | |
| `daemon`, pools | pass | `TypeOK`, `AgentServesOne`, `HeldOnce`, `PoolBounded`, `ServiceSpec` | ~300 000 |
| `daemon`, gate | pass | `GateTypeOK`, `MoversExclude`, `DutyInRange`, `NoRefusedStart`, `OpensOnRequest`, `GateCloses`, `TimerNotStuck` | ~13 500 |
| `timer_cancel` | violation | `CancelCancels` | |
| `reader_api` | pass | `TypeOK`, `OneCallAtATime`, `RightModule`, `MutexGiven`, `ReadsNamedAntenna`, `CallEnds` | ~450 000 |
| `reader_late` | violation | `ReadsNamedAntenna` | |
| `llrp_agent` | pass | `TypeOK`, `ExecutorPointersLive`, `OneInventory`, `SilentDropped`, `FailureTold`, `RospecLife` | ~357 000 |
| `llrp_slow_read` | violation | `ExecutorHasExit` | |
| `llrp_wire` | pass | `InStep`, `MailboxKept` | ~242 000 |
| `data_path` | pass | `AnswerTrue`, `ShownTrue`, `ReadsAccounted`, `WellNested`, `CommandWhole` | ~706 000 |
| `gate_race` | violation | `GateByAction` | |

What each passing property says about the code:

* **NoLostWakeup** - `start_executor` raises the flag first and gives the
  semaphore last, the executor tests the flag after it took it: it never waits
  with the flag up and no give on its way.
* **SlotPerStart** - for clients that start once and stop before they close, a
  stop finds what the start claimed, whatever the others do to the table.
* **DatabaseSlotReserved** - sockets search the first slots only, so the stream
  to the database never collides with them, however many search at once.
* **CallbackLive, RegistryLive** - the registry mutex and the order
  remove-then-close keep the executor from calling into a closed connection,
  with one command per SCGI connection.
* **Parks, IdleStops, ServedAgain** - the executor parks after a stop and with
  no clients, and one client's trouble does not starve another.
* **MoversExclude, DutyInRange, NoRefusedStart** - the servo is driven by one
  thread at a time and within a step of its range, and the ignored result of
  `start()` is always good.
* **OpensOnRequest, GateCloses, TimerNotStuck** - no interleaving of request,
  cancel, suspend and expiry loses an opening, leaves the gate open or the
  timer unusable; in particular the two mutexes do not deadlock.
* **OneCallAtATime, RightModule, MutexGiven** - the API serialises its users;
  no failed call leaves the line on the wrong device for a later one; the mutex
  stays taken only after a status byte that looks like one of the two codes
  that keep it.
* **ReadsNamedAntenna** (without late answers) - the tags a call returns were
  read on its antenna at its power, whatever is lost and whoever else calls.
* **CallEnds** - every call that has the mutex ends, whatever is lost, refused
  or unplugged, but one: a command to the multiplexer after the port has gone
  never ends and keeps the reader from everybody.
* **AgentServesOne, HeldOnce** - an agent turns idle only after it has closed,
  so it never has two connections and no connection has two agents.
* **PoolBounded** - the pool grows with the connections open at a time, plus
  one, not with the connections served.
* **ServiceSpec** - server, pools and agents implement `ConnService`, liveness
  included.

* **ExecutorPointersLive, OneInventory** - no thread of the executor uses a
  deleted ROSpec or a closed reader, and two threads never share the executor's
  tables, in the next session either; for a client that runs one ROSpec at a
  time and waits for its End events, and until the agent's sleep is once over
  before the round of a thread. That the sleep is not always long enough is
  finding 5.
* **RospecLife** - agent, message processor and executor threads together
  implement `RospecService`: a stop is completed, a started ROSpec stays active
  until it is stopped or the reader fails, nothing that runs is removed. A sleep
  that is over too early is a step `broken` of the service, which promises
  nothing from then on.
* **SilentDropped, FailureTold** - a client that hangs is given up, and a
  failure of the reader reaches the client or ends the session, again until a
  deletion overtakes a round.
* **InStep** - however frames are cut, skipped, discarded or interrupted by a
  time limit, the decoder never starts within a frame.
* **MailboxKept** - the connection implements `LlrpMailbox`: no message is
  changed, lost, repeated or overtaken, and a call gets the answer to its own
  request even when the answer to an earlier one, given up, is still to come.
* **AnswerTrue** - with one fault on the serial line, a call that succeeds
  returns what a device has answered, whole and undamaged. It is an answer to
  this very call, or else to an earlier one that was still under way when this
  one was sent: a call that does not compare the code takes any such answer, one
  that does takes those with its code, so a `SetAntPort` succeeds on the answer
  to the selection of another antenna. Never is it the other device's. For the
  tags of a read the property says nothing while an answer was under way.
* **ShownTrue** - what a web program shows is true of the daemon; rows are rows
  of the page asked for, in order, none twice. They are all of them unless the answer
  came in one `recv` with the rows (which then stay in the first buffer) or a
  frame met the end of the second buffer: the code loses rows in these two
  cases, and the property says exactly when.
* **ReadsAccounted** - every read since the start is in exactly one report that
  has reached the client or in the table, unless one of four things happened:
  the table was full, a report did not fit the send buffer, a `send()` failed or
  was short, or agent and executor met in `m_Send`. Only the last can report a
  read twice. The count that decides when N tags are due is the number of reads
  since the table was emptied, and a ROSpec restored from GET_ROSPECS walks the
  same antennas and makes the same settings as the original.
* **WellNested** - text that the encoder calls complete reads back to the
  element, for elements whose strings have no markup.
* **CommandWhole** - a command runs only on a whole, well-formed request; only
  such a request without a query string, or a `seltag` without arguments, can
  end the process; a good request that arrives whole is served by the agent; and
  no handler of a closed connection stays registered. Only `seltag` keeps its
  handler, because it never comes back.

Every property has a mutant of the code (in the module, marked `Mutant of`)
that it catches under its own configuration.

## 4. Fairness

* `IAgentExecutor`: weak fairness of the executor's thread. It blocks only at
  its semaphore, at the registry mutex (held for a bounded time) and in reader
  calls, which end as long as the serial port is there (`CallEnds`). Nothing is
  assumed of clients or agents.
* `PwmGate`: weak fairness of the PWM task and of the timer's thread; a deadline
  passes. Each takes a mutex the other uses only for a bounded time and lets it
  go long enough.
* `ReaderApi`: weak fairness of every task that is in a call, and of the devices
  (with `Late = FALSE` they handle what reached them before the line's timeout).
  A task in the endless loop after a loss of the port has no step that could be
  fair (`Hangs`). The port may disappear and need not.
  No fairness of the mutex between tasks, so nothing is claimed about how long
  a task waits for it.
* `AgentPool`: weak fairness of the server's thread only. That it does not
  depend on agents, clients or the CLI is the point of `ServiceSpec`.
* `LlrpAgent`: weak fairness of the agent's own steps, of the refused `select`
  on Linux and of each executor thread, whose sleeps end, and whose reader calls
  do as long as the port is there (`CallEnds`); how long they take is open.
  Strong fairness of the agent's timeout: a client that is never quiet for a
  second keeps the agent from looking at the failure flag, so the client is
  taken to pause again and again. A hung client only has pauses.
* `RospecService`: weak fairness of the end of a stop, which `RospecLife` shows
  to follow from the above.
* The other modules state safety only. A blocking receive of the toolkit waits
  for ever if the reader is silent, which is what its caller asked for.
* Real-time priorities are outside an interleaving model. With the flag up and
  no antenna the executor's loop spins without a sleep at a high `SCHED_RR`
  priority; the model shows the spin, not what it starves.

## 5. Bounds and modelling choices

| Run | Bounds | Why they are enough |
|---|---|---|
| `executor_safety` | 2 IAgents, 1 SAgent, 2 descriptors, 3 slots, 1 antenna, 2 pending gives, 2 handlers | two agents race for one slot and against the executor; the last slot is the database's; with 2 descriptors for 3 agents numbers are reused; agents and descriptors are symmetric |
| `executor_live` | 1 IAgent, 1 SAgent, 2 slots | liveness needs one slot, one sentinel and one handler against the loop; double starts and unclean closes are allowed; no symmetry |
| `executor_stale` | as `executor_live`, without fairness | the shortest counterexample needs no more |
| `daemon`, gate | duty 1..3 by 1, 4 requests | a close can be interrupted at each of its steps and each phase of the timer; the theorems lift the range and the number |
| `timer_cancel` | 2 unseen starts | one start and one cancel suffice |
| `reader_api` | 2 tasks, 2 antennas, statuses 0, 1, 5, 2 tags | a status that keeps the mutex, one that does not, tags that are missing, another task in every gap; the port may go at any point, once and for good |
| `daemon`, pools | 3 connections, 2 ports, 1 fault | one agent reused while another is busy, a fault anywhere; ports only differ in what their agents do, and the CLI walks the first |
| `llrp_agent` | 2 threads, 2 ROSpecs, 2 sessions, 1 antenna, 1 unanswered keepalive instead of 2, no unasked acknowledgement, both kernels, reader opened before or not, antennas all or listed, null trigger | a second thread starts while the first is on its way out; a session ends and the next finds the executor as it was left; the count of keepalives only lengthens the silence; a ROSpec with another trigger never stops by itself, which the client of this run avoids |
| `llrp_slow_read` | as `llrp_agent` | |
| `llrp_wire` | encoder buffer 130, pieces of 24 bytes or all, 3 calls, 2 notifications or broken frames, 1 wait | a request given up, a later one with the answer of the first still to come, and a frame in the middle; frames are longer than a piece; a bounded wait includes what blocking and peeking do |
| `gate_race` | 1 agent, 2 keys, 2 calls | one lookup and one insert suffice |
| `data_path`, line | each of the calls, two of them the same with another argument, 2 statuses, one fault, 1 answer under way | faults are rare; a second one after the first meets the same code |
| `data_path`, web | every command of the programs, 2 antennas, 3 rows, a buffer of 3 pieces, 2 pushed frames | a buffer that is met in the middle of a frame; a push before, in and after an answer |
| `data_path`, reports | 2 tags, 2 antennas, 2 rows, send buffer 130, 3 reads, 6 messages | a table that is full with rows over, and a report that does not fit once a row has every field, as in the code (8192 bytes, 1024 rows); two threads and one buffer, any failure of a send |
| `data_path`, XML | 3 elements, buffers of 30, 130, 350 pieces, 2 name spaces, depth 3 | overflow at several places, none at last, and more name spaces than fit |
| `data_path`, SCGI | 8 good requests (among them a stream command, `seltag` with and without arguments, no query string) and 4 broken ones, buffer 20, 5 bytes without a colon | every check refuses one; every split into pieces happens |

`CHECK_DEADLOCK FALSE` stands where the system may really stop: requests run
out (`PwmGate`), a kept mutex or a lost port blocks every task (`ReaderApi`), connections run
out or the server has ended (`AgentPool`), sessions, calls and messages run out
(`LlrpAgent`, `LtkConnection`, `MCDataPath`, `MCTagDb`).

Choices a reader should know:

* `StartOnce` and `CleanClose` are assumptions about clients, used only where a
  property names them. `MaxReq = 1` is SCGI's one request per connection;
  `CallbackLive` and `RegistryLive` need it, and say so.
* `MaxSem`, `MaxReg`, `MaxGives`, `MaxPosts`, `MaxFaults` bound counters in
  guards of the environment's actions, never the code's.
* Locals of the executor that are dead are reset to their initial values, to
  keep equal states equal.
* A slot argument of `start_executor` may be read again by the compiler; both
  outcomes are behaviours. Two agents may claim the same slot; the second wins.
* In `OwTimer`, timeouts and sleeps of at least 100 ms are assumed to outlast
  the few assignments of `start()` (`NotInStart`). Without it the timer thread
  could expire inside `start()`, which needs a thread to be held up that long.
  Spurious wake-ups and the destructor (which the daemon never runs) are left
  out.
* In `ReaderApi`, an answer that belongs to another command may carry any
  number in the place of the tag count, since the code does not look at its
  opcode. `TempProtectSet` has the same program as `EquipTempGet`.
* In `AgentPool` the client descriptor, which `socketAccept` resets before its
  next use, is reset when it has been handed over. After `bill_out` the CLI
  does nothing: the code then uses a deleted object, which is listed as a
  hazard and not given a meaning.

* In `LlrpAgent` the `Patient` client is a precondition of the properties: it
  runs one ROSpec at a time and waits for its End events. A client that does
  not can put two threads on one executor object (hazards). The sleeps of the
  agent may be over at any time. After `overtaken` the program has used memory
  it has freed, which is undefined; the model goes on with any value in the
  stop trigger, leaves out a crash, and no property promises anything then.
* In `LtkConnection`, `CleanReuse` lets a client open again only with an empty
  receive buffer: the code keeps buffer and queue over a close, and half a
  frame left there puts the next connection out of step (hazard). Frames fit the
  receive buffer (`CodecAssumption`). A notification
  may carry the message ID of a request. A wait is over when the model chooses.
* In `WebSession`, `Connected` is not set by the code (the connect call of
  `cgi-bin/main.cpp:56` is under `#if 0`), so both values are tried.
  A page is at most 30 rows behind its offset; the tables of the run are shorter,
  so that the limit itself is covered by the theorem only.
* In `XmlText`, a piece has length 1 whatever it formats: where the buffer
  ends changes, what happens there does not. `Printable` excludes strings with
  markup, which the encoder copies as they are. The local time of a DATETIME is
  taken to be invertible, which it is not in the hour a clock is put back. The
  error text that the encoder copies into the caller's buffer on an overflow
  (`ltkcpp_xmltextencode.cpp:1148`) is longer than a very short buffer: a buffer
  at least as long as that text is assumed.
* In `TagDb`, a call of `sqlite3_exec` is one step, since the library
  serialises them. A statement with more columns than `parm` has entries
  (`wild`) writes behind them, which is undefined: no operation goes on from there.
* In `ReaderLine` the devices' packets are made with the program's encoder. A
  payload whose escaped length plus one reaches 128, or whose length byte or its
  complement is the start byte, cannot be received; no call of the daemon has
  one.

Facts about the code that no property covers, each at its line:
`OwTimer.cpp:173` takes a spurious wake-up for a cancel, `:199` makes the
destructor's join wait for ever, `:242` publishes `mbIsStarted` before it clears
`suspended`; `iAgent_executor.cpp:58` spins at real-time priority with the flag
up and no antenna, `:126` zeroes a flag that a start may just have raised;
`llrp_MntServer.cpp:94` leaves `spInstance` pointing to a deleted server, `:228`
forgets the sockets opened before one that fails, `:508` ignores a `take(0)`
that did not take; `llrp_ROSpecExecutor.cpp:261` shares `idle` between threads;
`LTK/ltkcpp_connection.cpp:860` lets unclaimed messages grow the queue;
`llrp.cpp:459` starts server and agents before the reader's port exists, with
nothing but a sleep in between.

## 6. What is proved

All theorems hold for every value of the constants that the named assumptions
admit. `Spec` of `AgentPool` and `LlrpAgent` carries the assumption of its
module (`PoolAssumption`, `ConstantsAssumption`).

| Theorem | Property | Assumption | Argument |
|---|---|---|---|
| `TypeCorrect` | `IAgentExecutor!TypeOK` | `ConstantsAssumption` | `TypeOK` is inductive as it stands: it carries the facts that bound slot indices where `clientFd` is written (`send`, `drop`, `claim`, `stopclear`); one lemma for the executor, the IAgent and the SAgent each |
| `NoStartSleptThrough` | `NoLostWakeup` | `ConstantsAssumption` | inductive with `TypeOK`: the executor returns to `take` only from `while` with the flag down, and an agent that raises the flag stays in `Starting` until it gives |
| `LastSlotIsDatabase` | `DatabaseSlotReserved` | `ConstantsAssumption` | strengthened to `SlotInv`, which adds `ClaimsFit`: only a socket searches, and between search and write the index an agent holds is the last slot exactly if its argument is the database's |
| `HandlersOfLiveConnections` | `RegistryLive` | `ConstantsAssumption` | strengthened to `HandlersInv`: `Registered`: no handler is in the registry twice, and each belongs to an agent that has a connection and has handled its request, so a second `push` would need a second request |
| `NoCallIntoClosed` | `CallbackLive` | `ConstantsAssumption` | the other half of `HandlersInv`, `Calling`: while the executor is in `Do_Callback` it has `hMutex` and the handler it calls is in the registry, and an open connection has its socket |
| `OneSlotPerStart` | `SlotPerStart` | `ConstantsAssumption` | strengthened to `ConnInv`: each connection in progress has a descriptor of its own and a socket in the table is that of one in progress (`SocketsOwned`); for the step a start or stop is at, which slots are its own and which its search has passed (`OneSlotOf`); one lemma for an agent that does nothing while others empty and fill slots |
| `GateTypeCorrect` | `GateTypeOK` | `PwmAssumption` | inductive; the timer's part is a lemma about the timer's own steps |
| `OpenCloseExclude` | `MoversExclude` | `TimerAssumption` | strengthened to `MoverHoldsMutex`: who is in a loop has `m_hMutex` |
| `ServoInRange` | `DutyInRange` | `PwmAssumption` | inductive with `TypeOK`: each loop tests before it steps; no exclusion is needed because the model's step is atomic, which is what `OpenCloseExclude` justifies |
| `StartNeverRefused` | `NoRefusedStart` | `PwmAssumption` | strengthened to `CancelledBeforeStart`: where `main` is during each call to its timer, and that the timer is not started from the return of `cancel()` to `start()` |
| `ReaderTypeCorrect` | `ReaderApi!TypeOK` | `ReaderAssumption` | inductive with `Shape` (whoever has left `idle` has one of the programs); every step of a call takes the mutex, goes on, or ends (`StepKinds`), and the rest is proved for these three |
| `CallsExcludeEachOther`, `MutexKeptOnlyAfterTwoCodes` | `OneCallAtATime`, `MutexGiven` | `ReaderAssumption` | together inductive over `Shape`: a task that comes back with the mutex finds no one else in a call |
| `LineOnItsDevice` | `RightModule` | `ReaderAssumption` | strengthened to `Selection`: `module` is the last module in the running program before its present step; `ProgramShape` says of each program that this module is the one its next command is for |
| `TagsOfNamedAntenna` | `ReadsNamedAntenna` | `ReaderAssumption`, `~ Late` | strengthened to `LineInv` over `Shape` and `OneCallAtATime`: a command is under way only while its call waits for it (`UnderWay`, else `Quiet`), the buffer holds answers to the last try only, and what a read has been answered has been done at the device (`Done`); retries repeat what was done |
| `PoolTypeCorrect`, `AgentsServeOne`, `ConnectionHeldOnce`, `PoolsBounded` | `AgentPool!TypeOK`, `AgentServesOne`, `HeldOnce`, `PoolBounded` | `PoolAssumption` | one inductive invariant, `PoolInv`: where the server is and which descriptors it has in hand (`ServerPhase`, `ClientsInHand`), the agent it has chosen has no thread (`ChosenAgent`), a thread has its agent's connection and each agent one thread (`ThreadsServe`), places are apart (`WaitsOnce`, `PlacesApart`), and what a search has passed was busy when it began (`SearchSeen`), which bounds the pool |
| `ServerImplementsService` | safety of `ServiceSpec` | `PoolAssumption` | with `PoolInv`, one lemma per action: it changes the stage (`life`) of one connection as `ConnService` allows, or of none |
| `LlrpTypeCorrect` | `LlrpAgent!TypeOK` | `ConstantsAssumption` | inductive with `AntennaRead`; groups of variables by who writes them |
| `PointersLive`, `InventoriesApart` | `ExecutorPointersLive`, `OneInventory` | `ConstantsAssumption`, `PatientClient` | strengthened to `SpecInv`: one thread at most still has events to send, its message is the one the executor points at and is in the list, the client waits for just the events that remain (`OneWorker`), so that it starts no other; in the agent's sleep every thread still owes its round, and none runs outside a session (`SleepOutlasts`), nor after a failure (`FailureStops`). Inductive is `overtaken \/ SpecInv` (`LastsOrInv`), since `overtaken` never becomes false again (`OvertakenStays`) |
| `AgentImplementsService` | safety of `RospecLife` | `ConstantsAssumption`, `PatientClient` | with `SpecInv`, one lemma per action: what it makes of `PhaseOf`; a step after which `overtaken` holds is the step `broken'` of the service |
| `DecoderInStep` | `InStep` | `ConnectionAssumption`, `CodecAssumption`, `CleanReuse` | strengthened to `WireInv`: the buffer never reaches beyond the first frame (`Within`) and an empty buffer without a socket belongs to no frame (`Connected`); so the buffer is the beginning of the first frame (`Begun`), what is asked for never exceeds its rest (`NeverTooMuch`), and a frame that is ready is the first one, whole (`Whole`) |
| `ConnectionIsMailbox` | `MailboxKept` | the same | with `WireInv`, one lemma per kind of action: a frame sent is a message posted or nothing, a frame decoded moves its message from the wire to the queue's end, a call takes the first match of queue and wire (`RemoveAtFront`), a close loses the last messages |
| `CommandOfWholeRequest` | `CommandWhole` | `ScgiAssumption` | strengthened to `ScgiInv`; the lemmas say that what a server finds in the first n bytes it finds in more of them (`FirstColon`, `MoreCame`), and that it is what `Netstring` says of the whole request (`FoundNetstring`, `CommandOfRequest`, `GoodNotRefused`); the handler is registered only while the connection waits or a `seltag` turns (`HandlerTaken`) |
| `ShownIsTrue` | `ShownTrue` | `WebAssumption` | strengthened to `WebInv`. For one answer (`AnswersHonest`): every frame on its way that passes for the answer is one to a request carried out, with what the daemon holds (`OneReply` goes over the handlers); it stays so through repeated requests, since a value is read by requests that change nothing. For a page (`ListingOrdered`): the second buffer and the socket together are always a rest of the page's pieces, what is shown has rows before that rest only, in order, and all of them as long as nothing was left in the first buffer or given up (`Listing`) |
| `ReadsAllAccounted` | `ReadsAccounted` | `ReportsAssumption` | strengthened to `ReportsInv`. For the table (`TableCounts`): its rows are well formed, no two are of the same tag and antenna, and, while no read was refused, each key is owed what its row counts; one entry of a read changes one count (`OneRead`), a whole read as many as it has entries of the key (`WholeRead`), and the reads owed grow by the length of the read (`WholeReadOwed`), so that the count of reads is that of the reads held. For the client (`ClientTold`): what `m_Send` holds while a report is being sent is that report, unless it was overwritten, so that what arrives is told once (`SendTells`). For the list (`ListsTyped`): its ROSpecs are well formed, those restored from copies included; then a copy has the AISpecs and configurations of the original, in order (`AISpecsOfCopy`, `RospecConfigsOfCopy`), and the last configuration that names an antenna is the same (`SameSettings`, `CopyWorks`) |

The `ReaderApi` theorems but the last hold with `Late = TRUE` as well: only
what an answer means goes wrong then (finding 3), never the mutex or the line.
`PatientClient` is the client of the run: it runs one ROSpec at a time, waits
for its End events, and its ROSpecs have the null stop trigger. The code does
not check that (hazards), and without it the two properties are false. They
also end where a deletion overtakes a round, which the code does not exclude
(finding 5): the theorems say that nothing else breaks them.

In the refinements the initial state and every step are proved. `LlrpMailbox` has
no fairness, so that its refinement is proved as a whole; the fairness of
`ServiceSpec` and `RospecLife` is left to the runs. `CleanReuse` is what the code
does not check: a client that opens again with half a frame in the buffer puts
the decoder out of step (hazards), and the two theorems do not speak of it.

Four proofs reach over data. `FlattenSeq`, which puts the frames' bytes and
messages, or the configurations of a ROSpec, one after the other, is a recursive function in the community
modules: that it exists, and what one more frame at the end or one less at the
beginning makes of it, is proved by the least length at which it would fail
(`UpTo` in `SequenceLemmas`). A read of several tags goes into the table by a
recursive function too, and is treated in the same way (`AfterExists`,
`WholeRead`). `Number` (the value of a digit string) is a
recursive function; that it exists and is a natural number is proved by the
least length at which it would not be (`Least`, from the well-foundedness of
`<` on the naturals, since an induction theorem takes an operator as a
parameter). The counts of `PoolBounded`, of the registry and of the reads to be
reported use the library's
facts on finite sets.

Only model-checked:

* liveness, everywhere: it needs fairness and `ENABLED`, which the prover does
  not treat (`Parks`, `ServedAgain`, `IdleStops`, `OpensOnRequest`,
  `GateCloses`, `TimerNotStuck`, `CallEnds`, `SilentDropped`, `FailureTold`, and
  the fairness of `ServiceSpec` and `RospecLife`);
* `CodecAssumption` of the codec of `LtkFrame`, on the messages and frames of the
  run: encoding and decoding are recursive in the depth of a message;
* `WellNested` of `XmlText`, recursive in the same way;
* `AnswerTrue` of `ReaderLine`: its checksums need `Bitwise`, which takes the
  SMT backend away.

All other safety properties of the runs are proved.

## 7. Findings

Each is a run with expected result "violation"; the exact texts are quoted in
`PROJECT.json`.

1. **A send does not tell that a socket was closed** (`SendTellsClosed`). A
   client that closes without a stop leaves its descriptor in `clientFd`. The
   next connection may get the same number; then the send succeeds and the
   stream goes to a connection that never asked for it.
2. **A cancel can be lost** (`CancelCancels`). Between the thread's test of
   `mbIsStarted` and its wait, `cancel()` signals nobody; the timeout then
   elapses. The gate copes with it: `PwmGate` has this behaviour and
   `OpensOnRequest`, `GateCloses` and `TimerNotStuck` hold nevertheless.
3. **Late answers are believed** (`ReadsNamedAntenna` with `Late`). A late
   answer to an earlier `antport` passes for the answer to the present one; the
   tags come from another antenna.
4. **The gate opens for another tag's action** (`GateByAction`). The executor's
   lookup and an agent's insert share the statement and result buffers of
   `CSqlite`; between the executor's `sprintf` and its `exec` the agent's
   statement takes the place of its own.
5. **The sleep does not wait for the executor** (`ExecutorHasExit`). "to make sure
   executor has exit before clearling and deleting all the ROSPEC" the agent
   sleeps 500 or 1000 ms (`llrp_MntAgent.cpp:228`, `:315`), but a read may wait for
   the reader's mutex and take three tries: the ROSpec is deleted under the
   thread that serves it, and a next session can start a second inventory beside
   it. The code says of itself that it "should Check the idle flag instead".

Met while modelling, and in the models where it changes state, without a
property of its own:

* A second `IReaderApiInit` deletes the reader object under all its users,
  although `cli.cpp:134` says it is never closed.
* On Linux the LLRP agent's `select(-1, ...)` is refused, so that a session
  ends as soon as it has begun; `Kernels` keeps both behaviours.
* START_ROSPEC is answered with success when `run()` failed; a failed
  `GetAntList` leaves the handle set and no antennas; STOP_ROSPEC always
  succeeds; a ROSpec with listed antennas sends its End event twice; a refused
  ADD_ROSPEC leaks; requests the agent does not know (DELETE_ROSPEC,
  DISABLE_ROSPEC, CLOSE_CONNECTION and others) are never answered.
* A report of more rows than the send buffer takes, or whose `send()` fails, is
  lost silently; the agent's and the executor's messages share one send buffer
  without a lock.
* After the serial port has gone the first command to the multiplexer never
  ends and keeps the reader's mutex (`muxdev.cpp:56`).
* `seltag` of the SCGI interface never ends and leaves its handler registered
  (`CCLI.cpp:432`); a request without QUERY_STRING ends the daemon
  (`sAgent.cpp:326`).
* A request of a web program that the daemon answers late is carried out up to
  three times.
* In the toolkit a framing error is permanent, lengths wrap at 16 bits, and
  answers nobody waits for any more stay in the queue.
* The XML encoder copies strings without escaping and answers `RC_OK` for an
  element that lacks what it requires, with a warning in the text. Nothing in
  the daemon calls it.
* The web programs ignore refusal codes and never get an answer to opcodes
  0x81, 0x82, 0x85, 0x89, 0x8a and 0x2c; their SetAntScanMap has the daemon's
  opcode for SetTxPower; a listing hangs if its last frame is lost.

## 8. What is not modelled, and why

* `AkMsgProcessor.cpp` with `OwQueue` and `OwErrand`: not in the build
  (`Release/subdir.mk`), and nothing else uses the two wrappers.
* The legacy client of the `iReader` directory (`muxutils.cpp`, `muxapi.cpp`,
  `muxClient.cpp`, `client.cpp`), `iReader.cpp` below its `#if 0` (line 680) and the `0xff`
  frames of a module no longer used.
* Code after an early return or under `#if 0`: most of `cgi-bin/main.cpp`,
  commands of `CCLI.cpp`, most of `cli.cpp` and `llrp.cpp`; the ROSpec and
  receive functions of `LLRP_MntServer`, copies of those of `LLRP_MntAgent`.
* Reader API calls and `IAgent` opcodes that no caller in the repository uses.
* Uploads, the event stream and web pages: copies of input without state.
* `sqlite3` (headers only; external) and the type tables generated from the
  LLRP definition (data; `LtkFrame` has a sample).
* Watchdog feeder (not started), GPIO and sysfs writes, system time, port
  set-up, name resolution, SSL: thin I/O.
* Allocation failures, real-time priorities, the destructor of `OwTimer`.
* Memory management in general; where an object is used after its deletion it
  is a state of the model (`LlrpAgent`) or listed as a hazard.

## 9. Plan

Done: `IAgentExecutor`, `OwTimer` and `PwmGate`, `ReaderApi`, each with its
proofs; `ConnService` and `AgentPool`; `RospecService` and `LlrpAgent`;
`LtkFrame`, `LlrpMailbox` and `LtkConnection`; `ReaderLine`, `WebSession`,
`LlrpReports`, `XmlText`, `ScgiRequest` and `TagDb`.

The proofs of `AgentPool`, `LlrpAgent`, `ReaderApi` without late answers, the
slots of the executor, `LtkConnection`, `ScgiRequest`, `WebSession` and
`LlrpReports` are done too, with the safety part of the three refinements.

What would come next: a codec whose types have a bounded depth, so that
`CodecAssumption` and `WellNested` need no recursive operator; the checksum of
`ReaderLine` as a parameter with the assumption that it tells one damaged byte,
for `AnswerTrue`; the legacy client, should it come back into the build.

## 10. How to run

In this directory:

    tlc -workers 2 -config ExecutorSafety.cfg MCIAgentExecutor
    tlc -workers 2 -config ExecutorLive.cfg IAgentExecutor
    tlc -workers 2 -config Daemon.cfg MCDaemon
    tlc -workers 2 -config ReaderApi.cfg ReaderApi
    tlc -workers 2 -config LlrpAgent.cfg LlrpAgent
    tlc -workers 2 -config LlrpWire.cfg MCLtkConnection
    tlc -workers 2 -config DataPath.cfg MCDataPath
    tlc -workers 2 -config GateRace.cfg MCTagDb
    tlapm IAgentExecutorProofs.tla
    tlapm PwmGateProofs.tla
    tlapm ReaderApiProofs.tla
    tlapm AgentPoolProofs.tla
    tlapm LlrpAgentProofs.tla
    tlapm LtkConnectionProofs.tla
    tlapm SequenceLemmas.tla
    tlapm DataPathProofs.tla

The other configurations are run with the module `PROJECT.json` names for them.
