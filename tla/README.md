# Verification of simple-snmpd

simple-snmpd is an SNMP agent daemon in C++: one process that opens a UDP socket, answers GET, GET-NEXT, GET-BULK and SET
requests from a management information base (MIB), and logs traps. This directory holds TLA+ models of it, TLC
configurations that check them on small instances, and proofs for every value of the constants. Paths below are relative to
the repository's root.

## The system

    datagram                                    signals
       |                                           |
    server thread  ------ running_, socket ----- stop() <--- main(), ~SNMPServer(), signal_handler()
       | parse()                                   |  joins
       v                                           v
    process_snmp_request() --> MIBManager       server thread, worker threads
       |       \--> SecurityManager, SNMPConfig    |
       v serialize(), sendto()                     v
    datagram                                    Logger (its mutex), used by every thread

| Component | State it keeps | Operations | Talks to |
|---|---|---|---|
| Process: `src/main.cpp` | `g_running`, `g_server` | options, `signal_handler()`, `main()`'s loop | calls `SNMPServer`, is called by the kernel on any thread |
| `SNMPServer`, threads (`src/core/snmp_server.cpp`) | `running_`, `server_socket_`, `server_thread_`, `worker_threads_`, `connections_` | `initialize`, `start`, `stop`, `server_loop`, `worker_thread` | shared flags and joins |
| `SNMPServer`, requests | none of its own: one request and its response | `process_snmp_request` and a handler per PDU type, `send_response` | calls the MIB, security, the codec |
| `SNMPPacket` (`src/core/snmp_packet.cpp`) | the members of one packet | `parse`, `serialize`, setters | octets in, octets out |
| `SNMPConnection` | descriptor, `connected_`, `last_activity_` | `receive_request`, `send_response`, `close`, timeouts | the server only makes one per datagram, for its address |
| `SNMPConfig` | eight members with their widths | `load`, `parse_config_value`, setters | read once by `main()` |
| `Logger` | level, file, `mutex_` | `initialize`, `log`, `set_level` | every thread |
| `ErrorHandler` | two counters | `handle_error` ... | nobody calls it |
| MIB, security | objects; access tables and request counts | headers and tests only, no source | called for each request |
| SNMPv3, thread pool, memory pool, metrics, health checks | - | headers only | nobody calls them |
| Windows service (`deployment/windows/simple-snmpd-service.cpp`) | status, stop event, the child's handle | `ServiceMain`, `ServiceWorkerThread`, `ServiceCtrlHandler`, `--console` | three threads; told what to do by the service control manager (SCM), starts and ends the daemon as its child |
| init.d, systemd, launchd | PID file and lock file | start, stop, status | start and end the process |
| Manager and network | outside the repository (`snmpset`, `snmpwalk` in the docs) | requests, retries | datagrams to and from the server thread |

What is hard in it, and what would make each part correct:

- **Process and threads.** Plain `bool`s shared by threads; `stop()` reachable from `main()`, the destructor and a signal
  handler on any thread at any statement, so nested in itself, in `start()` and in `log()`; joins that rely on `close()` ending
  a `recvfrom()`; thread creation that may fail half way. Correct means: stopped once, closed once, no thread left behind,
  alive means serving, a requested shutdown ends.
- **Requests.** Eight ways out of a switch, a loop per PDU type with several ways round it, an error status that later
  bindings overwrite, a SET that fails half way and undoes nothing. Correct means: the response tells the truth about each
  binding and about what the tables hold afterwards, a walk misses nothing, only authorised requests write, the thread comes
  back.
- **Codec.** Nested lengths that may contradict each other, lengths cast to eight bits on the way out, an object reused for
  several packets, messages cut or glued together by the transport. Correct means: never outside the enclosing element,
  always progress, a packet arrives as it was sent or not at all.
- **Configuration.** A value is stored before it is tested and narrowed before it is compared; a complaint is logged and
  forgotten. Correct means: each member comes from the last line that gives it one, what is wrong is reported, what is right
  is taken as it stands.
- **Requests over a network.** The agent remembers nothing of what it served; a SET is carried out as often as it arrives,
  and whenever. Correct means: what a confirmation says is so, and a walk gets through.
- **Connection.** A descriptor, a flag and a time stamp that can disagree, over a stream that knows no messages. Correct
  means: the descriptor is the object's own until closed, once; requests come out in order and no part of the stream twice,
  whole until something could not be parsed; nothing revives a connection but an exchange.
- **Windows service.** Three threads share a status, an event and a handle with no lock; a stop may overtake a start.
  Correct means: the SCM hears of the states it ordered, a stop completes, no daemon stays behind.

`PROJECT.json` lists every hazard at its line with the properties that would catch it.

## Modules

| Module | What it is |
|---|---|
| `ServerLifecycle` | the process: one program counter per thread and per delivered signal |
| `DaemonContract` | what a supervisor may rely on: opens once, serves until asked, is gone after its last thread |
| `ServerLifecycleRefinement` | how the state of the first is read as that of the second |
| `ServerLifecycleProofs` | proofs about `ServerLifecycle`, signals landing anywhere |
| `ShutdownProofs` | proofs about it where signals land as the design supposes, and of the refinement |
| `SnmpAgent` | `process_snmp_request()`, binding by binding |
| `SnmpAgentProofs` | proofs about `SnmpAgent` |
| `SnmpPacket` | `SNMPPacket::parse()`, element by element |
| `SnmpPacketWire` | `serialize()` at one end, `parse()` at the other |
| `SnmpPacketProofs` | proofs about `SnmpPacket` and `SnmpPacketWire` |
| `SnmpConfig` | `SNMPConfig::load()`, line by line, and what `main()` does with its result |
| `SnmpConfigProofs` | proofs about `SnmpConfig` |
| `SnmpExchange` | composes `SnmpAgent` with a manager and a network that loses and reorders |
| `WalkContract` | what `snmpwalk` asks of an agent: every object once, in order, then the end |
| `SnmpExchangeProofs` | proofs about `SnmpExchange` |
| `SnmpConnection` | one `SNMPConnection` from constructor to destructor, over a stream |
| `SnmpConnectionProofs` | proofs about `SnmpConnection` |
| `WindowsService` | the service wrapper: main thread, worker, control handler, child, console mode |
| `ServiceContract` | what the SCM may rely on: states as ordered, a stop never taken back |
| `WindowsServiceRefinement` | how the state of the wrapper is read as that of the contract |
| `WindowsServiceProofs` | proofs about `WindowsService` and the refinement |
| `MC...` | the instances TLC checks, each with its `.cfg` files |

### ServerLifecycle

An execution context is a thread or one delivery of a signal. `pc[c]` is the statement a context executes next; a delivery
sits on top of a context (`on[h]`), which does not run until the handler returns. There is one action per statement that
reads or writes shared state: `StopCheck`, `StopLowerFlag`, `StopTestSocket`, `StopCloseSocket`, `StopUnsetSocket`, the joins
one thread at a time, the connections' lock, `StopReturn`; the same for `main()`, `start()`, the handler and the two thread
functions. `ret[c]` is where `stop()` returns to. A call of `Logger::log()` is two actions, taking and releasing the mutex, so
that a signal may land in between. `std::thread::join()` throws for the thread itself and for one that another context is
joining; out of `main()`'s `try` this ends with code 1, out of a handler or a destructor with `std::terminate()`.
`DestroyServer` and `DestroyMembers` are the static destruction after `main()`: `~SNMPServer()` calls `stop()`, then the
members go, and a joinable `std::thread` among them terminates the process.

Six constants say which world the process runs in: `Targets` (the threads a handler may run on), `Masked` (statements where no
signal lands), `SpareLogger` (none lands inside `log()`), `CloseWakes` (whether `close()` ends a blocked `recvfrom()`; it does
on BSD and macOS and does not on Linux), `Verbose`, `SpawnMayFail`. The unrestricted world is Linux.

Abstracted: the contents of datagrams (a datagram is ignored, logged or answered), connections (nothing ever adds one), the
options parsed before `setup_signal_handlers()`. The flags are plain `bool`s; the model gives a racing read the old or the new
value, which is what aligned byte accesses with a system call between two reads produce, and does not model a compiler
that hoists the read out of a loop. Not modelled: the Winsock variant, allocations inside the handler.

### SnmpAgent

`step` is where `process_snmp_request()` is; `request`, `source` and `response` are its argument, the client's address and
the response under construction; each loop action appends one binding. Receiving is three actions by the outcome of the
checks (`DropOverRate`, `DropDenied`, `Admit`), which charge the rate limit in the order of the code; the switch is
`EnterGet`, `EnterGetNext`, `EnterSet`, `RefuseSet`, `LogTrap`, `Reject`; sending succeeds or fails. GET-BULK's loop does
what GET-NEXT's does, as in the code, which reads neither non-repeaters nor max-repetitions.

The MIB and the access tables are external. An object identifier is a number, because the code only looks one up and asks for
the next; a value is a model value. `Tick` lets a scalar's getter return something new at any time. `set_value()` may fail.
A SET may carry NULL (type 0x05) like any other value: `parse()` takes it, and no code tests it before `set_value()` gets it. A
failed binding is answered NULL too, so once a SET of NULL is answered NULL in a response that reports an error, nobody can tell which it
was (`Unclear`); `SetAccountsForMib` says that this is the only doubt a response leaves. `before` is a history variable: the tables
when the request in hand was admitted.

### SnmpPacket and SnmpPacketWire

`at` is the element `parse()` comes to next, or its result; `pduEnd`, `listEnd` and `bindEnd` are the three
`start_offset + length` that bound the nested helpers. `Header`, `Start` and `Length` are `parse_length()`; a length of more than
two significant octets is `Beyond`, 65536, which no datagram reaches since the callers of `parse()` receive 4096 octets. An
object parses again and again and keeps its members in between, also after a failure. `SnmpPacketWire` adds `serialize()`,
whose lengths take one octet (`Len % 256`), and the history variable `sent`. What arrives without having been serialized is
octets, and not more of them than the callers receive (`WireAssumption`).

`WholeOrNothing` (neither a part of a packet nor a packet with something behind it is accepted) is about packets whose contents
fit their length octet. It is false of longer ones: the octet holds the length modulo 256, so a packet with 277 octets of
contents announces 21, and if its community begins like a PDU its first 23 octets are a packet of their own. The instance holds
that packet (`Carrier`) and its part.

### SnmpConfig

One action per way through the loop of `load()`: a blank line, one without `=` or with an unknown key, a number that
`std::stoi()` reads or does not, a text, a level. A line is its key and what the conversion makes of its value: the int of
`stoi()` or `Unreadable` where it throws, whether a switch's text is one of the three for true, a level after `tolower()`.
`config` holds the members; `Narrow` is the assignment to 16 bits, and a 32-bit member is written as the int with the same bits,
which the code's only test of it (`< 1`) tells apart just as well. `Levels` are the levels that `load()` takes, `DocLevels`
those that the documents list; a line with one of both is valid, and about "warning" and "warn" the properties take no side
(Findings). `reported` collects the numbers of the lines complained of. `test` is the option `-t`.

### SnmpExchange and WalkContract

`SnmpExchange` extends `SnmpAgent`: each of its agent actions (`AgentDrops`, `AgentAdmits`, `AgentWorks`, `AgentStores`,
`AgentAnswers`, `AgentSendFails`) is one or more of `SnmpAgent`'s, conjoined with what it does to the network, so everything
shown of the agent holds of this one (`AgentRuns`). Manager and network are external: requests and answers under way are
sets, from which any may be taken next and any may vanish whenever one is sent (`Under`). The manager sends each SET up to
`MaxTries` times and gives up, then walks with GET-NEXT, asking again until the answer to the place it is at comes; it takes an
answer by the request's identifier, as SNMP managers do. A network that makes copies is not modelled as such: the retries
bring the same request to the agent several times. `applied` and `repeated` are history variables.

### SnmpConnection

The members are variables (`socket_fd_`, `connected_`, `last_activity_`) beside the process's descriptor table, the socket's
options and the stream. Each method is an action; `receive_request()` is two, so that the peer, the clock and the rest of the
process move while `recv()` waits. A message is two fragments, and `recv()` takes any number from the front of the stream.
`parse()` accepts one whole message, and nothing that begins with one or is the beginning of one (`WholeOrNothing` of
`SnmpPacketWire`, for messages that fit their length octet, the only ones the peer sends here). What begins in the middle of a
message is another matter: the value of an OCTET STRING may be a packet, and if the stream is cut in front of it, what is left
is accepted. `Strays` are the rows of fragments of that kind, any set of them. `handled` holds the fragments each request was
parsed from; the history variable `torn` says that `parse()` has refused something. A peer may send, stop sending, or break the
stream, which `recv()` or `send()` reports once, after what had arrived is received or lost; `main()` ignores SIGPIPE
(`main.cpp:62`), so `send()` on a broken stream is an error like others. The other descriptors of the process take any free
number (`OtherOpens`). One thread owns the object. The server itself makes connections without a socket; the instance with one
is the class as its interface lets it be used.

### WindowsService

`pc` holds the next statement of the three threads: `ServiceMain()`, or `wmain()` with `--console`; the worker; the dispatcher,
which runs `ServiceCtrlHandler()`. Each assignment of `g_ServiceStatus.dwCurrentState`, each `SetServiceStatus()`, each test, use,
closing and reset of the child's handle is a step. `Report` hands the SCM whatever the shared structure holds by then.
`CreateProcess()` is two steps: the child runs before its handle is stored. The SCM is external: it delivers a control only
to a service it holds to be running or paused (in the pending states `ControlService()` fails with
ERROR_SERVICE_CANNOT_ACCEPT_CTRL), only one that the service accepts, and one at a time. `Accepted` is what
`dwControlsAccepted` names; the code never assigns it, so as built it is empty and only INTERROGATE arrives. The runs and
proofs cover every other value too, since that is what the handler was written for. `missed` is a history variable: a stop
came before the handle was stored.

## Runs

| Run | Instance | Shows |
|---|---|---|
| `lifecycle_main_signals` | two workers, SIGINT and SIGTERM on `main()` outside thread creation and `log()`, one datagram, `CloseWakes` | `KeepsContract`: the process refines `DaemonContract`; `StopOnce`, `ClosesOnce`, `NeverAborts`, `LoggerOutlivesUse`; every requested shutdown completes |
| `lifecycle_any_thread` | one worker, both signals on any thread at any statement, thread creation may fail, `close()` wakes nobody | what holds even so: `ExitMeansQuiescent`, `UpMeansServing` and the inductive invariant `IInv` |
| `signal_in_log`, `blocked_receive` | one signal each | two ways a shutdown hangs (Findings) |
| `agent_requests` | 4 objects (scalar, two instances, an empty column), 2 non-objects, 2 communities, 2 addresses, up to 3 bindings, SETs of NULL before and after another value, 2 requests per window | a response says what was done: `IInv` (with `Aligned` and `GetIsCurrent`), `StatusIffFailure`, `SetAccountsForMib`, `NextIsNext`; who may write; and that the thread returns |
| `packet_wire` | packets with contents around 128 and 256 octets; two small ones cut at each octet, extended, doubled, altered in each octet; one whose length wraps and its part; long length forms | where `parse()` is, what comes out of it, and that each step uses up octets |
| `packet_long` | the same | packets of 128 octets and more are lost |
| `config_load` | every file of up to two lines out of 31, and of three about the port; with and without `-t` | `LastReadableWins`, `ZeroIsReported`, `ValidIsTaken` and the members' widths |
| `exchange` | two SETs of one object, the second of NULL, sent up to twice, then a walk over a column with a value and an empty one; two requests and one answer under way; one request per rate window | `AnswerTellsWhatWasStored`, `ConfirmedValueStands`; the walk implements `WalkContract`, liveness included (`WalksTheMib`) |
| `snmp_connection` | two descriptors; three messages, one of them nonsense; three strays, of a tail, a head, and a tail with the next head; one response, possibly cut; timeouts 0 and 1; times 0 and 1 | `IInv` (every descriptor accounted for, timeouts that agree unless one failed), `InOrderAtMostOnce`, `LeavesOthersAlone`, `QuietAfterEnd`, `RevivedByExchange`, `ReceiveReturns` |
| `windows_service` | every control accepted; every start may fail at every point; the daemon may end by itself; console mode | `IInv`, `EventIsOpen`, `ExitedMeansGone`, a stop completes, and the wrapper refines `ServiceContract` |
| `windows_crash` | as built, no control accepted | the SCM never hears that the daemon ended |

Bounds, and why they are enough. *Workers*: they differ only in their place in the vector; two show a join that waits for the
second while the first is gone. *Deliveries*: two nest a `stop()` in a `stop()`, and a third would land where the second does.
SIGHUP, whose handler only returns, is in no run; the proofs include any number of them. *Datagrams* (`MaxDatagrams`): one
already takes every branch of the loop. *Bindings*: three let a SET fail between two successes and name one object twice.
*Objects*: each kind the handlers tell apart, one before and one behind another. *`MaxRate`*: two lets a second request follow
on a first and a third be dropped. *Packets*: sizes on both sides of each place where a length changes its form or wraps, and
one whose wrapped length cuts a packet out of it. *Lines*: the numbers around 0, 65535, 65536 and the ends of an int, and every
other kind; two lines show one overriding, or failing to override, the other, three a rejected one between two. *Exchange*: two
SETs of one object are what it takes for a late one to overwrite a newer value, two tries for an answer to one to be taken for
the other's, two requests and one answer under way for either to overtake, and one request per window makes the rate limit drop
retries. *Connection*: three messages let two be glued, one of them be nonsense, and a third follow; a stray lies within the
first message, within the nonsense and across two; two descriptors let a number come back as somebody else's; one second lets a
connection time out and be revived. *Service*: there is nothing to bound: the state space of three threads and a child is
finite.

A deadlock is allowed where the code really may stop or rest: `lifecycle_any_thread` and the lifecycle's violations, where it may
hang; `snmp_connection`, whose destroyed object does nothing more; `exchange`, whose manager is through in the end; and the two
runs of the service, which rests once it could not register or once its process is gone.

### Fairness

`ServerLifecycle`'s `Fairness` is weak fairness of each context's steps: the kernel runs every thread that can run, and a mutex
that stays free is taken in the end (a holder of the Logger's mutex releases it in its next step). Signals and datagrams need
not arrive. `SnmpAgent`'s `FairSpec`: the server thread goes on with the request it has. `SnmpConnection`'s: the kernel
completes a `recv()` that has something to report; the owner, the peer and the clock need do nothing. `WindowsService`'s:
each thread goes on while it can, the dispatcher returns when the service is stopped, and a process that was told to terminate
does; controls need not come. `SnmpExchange`'s: the agent's thread goes on, a rate window ends, the manager tries again or gives
up (weakly fair), and what is sent again and again is not lost for ever: a walk's request that the agent could admit time
and again is admitted, an answer sent time and again gets on its way, and is heard (strongly fair). The SETs need no
luck at all. The other specifications state no fairness, since no property of theirs needs any.

### Findings

Each is a run that ends in a counterexample:

- The handler logs; landing inside `log()` its thread waits for its own mutex (`signal_in_log`).
- `close()` is expected to wake the receiving thread; on Linux it does not (`blocked_receive`).
- Packets with contents of 128 octets or more are serialized with a length no reader accepts (`packet_long`).
- When the daemon ends by itself the service wrapper tells the SCM nothing, and the failure actions that
  `deployment/windows/install-service.bat:105-106` sets never fire (`windows_crash`).

The models show more that has no run of its own. By component:

- *Process:* no thread blocks SIGINT or SIGTERM, so the handler may run on the server or a worker thread, which then joins
  itself (`main.cpp:43`); a signal handled between `running_ = true` and the end of `start()` lets `stop()` run to its end,
  after which `start()` creates threads that nobody joins; in both cases the process dies in `std::terminate()`.
  `lifecycle_main_signals` leaves both out, `NeverAborts` and `KeepsContract` with it; `lifecycle_any_thread` takes them in,
  and what it shows holds of them too.
- *Requests:* traps are answered, although their handlers say they are not (`snmp_server.cpp:492`); refusals leave as GET
  requests, the default PDU type; the end of the MIB is a NULL where the comments say "return endOfMibView"
  (`snmp_server.cpp:369` of GET-NEXT and `:408` of GET-BULK), which a manager cannot tell from an object whose value is NULL
  but by the OID that does not increase: `NextIsNext` asks for that OID and for no value of any object, and leaves open which
  marker it is; a SET of NULL is stored and echoed (`snmp_server.cpp:461-467`), and in a response that reports an error the
  NULL it is answered with reads like a failure (`Unclear`); a late or repeated SET overwrites a newer, confirmed value.
- *Codec:* a packet with 256 octets of contents or more is not always lost whole: cut where its wrapped length ends, it may be
  taken for another packet (`WholeOrNothing`).
- *Configuration:* a port of 65537 or -65535 silently becomes port 1; the configuration test passes on lines that `load()`
  complained of (`main.cpp:136`); `docs/configuration/README.md:188`, `docs/user-guide/cli.md:97` and
  `docs/reference/README.md:537` list `warn` among the values of `log_level`, which `load()` reports as invalid and does not
  take: it knows that level as `warning` (`snmp_config.cpp:142-143`), as `config/examples/advanced/high-performance.conf:16`
  writes it.
- *Connection:* a stream that is cut where the value of an OCTET STRING begins may hand over that value as a request that
  nobody sent (`snmp_connection.cpp:98` parses whatever `recv()` returned); a partial send returns true; two requests that one
  `recv()` returns together are both lost; `set_timeout(0)` means no timeout; on Windows the milliseconds wrap
  (`snmp_connection.cpp:168`).
- *Service:* `dwControlsAccepted` is never assigned, so `sc stop` (`deployment/windows/README.md:136`) is refused; the daemon
  knows no option `--service` and ends at once; a worker's STOPPED is lost when `ServiceMain()` assigns RUNNING before it is
  reported; a stop that comes before the child's handle is stored leaves the child behind (`missed`), as does Ctrl+C before
  the console's handler is set; a child that the handler terminates may be logged as one that "exited unexpectedly".

## Proofs

All proofs are checked by TLAPS for every value of the constants that the named assumptions allow (`LifecycleAssumption`,
`AgentAssumption`, `DatagramsAssumption`, `WireAssumption`, `ConfigAssumption`, `ExchangeAssumption`, `ConnectionAssumption`,
`ServiceAssumption`): any number of workers, signals and datagrams; any MIB, tables and requests; any octets, any packets with
any number of bindings; files of any length with any numbers; any SETs, tries and network capacity; any descriptors, messages
and timeouts; any set of accepted controls.

**ServerLifecycleProofs.** `TypeCorrect` and `Invariant`. `ExitQuiescence` and `Serving` follow from `IInv`, which holds in the unrestricted
world. Neither property is inductive. `ExitMeansQuiescent` needs `LiveIsJoinable` (a live thread's handle is joinable: a join
ends only at the thread's exit) with `OwnCode`. `UpMeansServing` needs the chain of a shutdown: a handler is in `stop()`
only after it lowered `g_running` (`AskedFirst`); so while `g_running` holds nobody but a returning `main()` lowers `running_`
or closes the socket (`ServingUnlessAsked`, `SocketWhileAsked`), whatever was running before `start()` (`FreshUntilFlag`),
and the loop is reached only with all threads made (`AllSpawned`).

**ShutdownProofs.** The unrestricted world breaks four properties (Findings), so each theorem here has a hypothesis about signals, as
weak as it could be made: `OnMain` (they land on `main()`, at any statement), `Undisturbed` (and not while `start()` creates the
threads), `Sheltered` (and the threads can be created). All are weaker than the run's world: signals may land inside `log()`,
`close()` need not wake anybody, and there may be any number of signals, of each kind.

- `StopIsExclusive` and `ClosedOnce` need `OnMain` only. The test of `running_` in `stop()` and its assignment are two steps and
  handlers nest, so two calls may both have passed the test. What saves them is that the handlers form one stack (`Stacked`,
  `OneTop`, `Rooted`): a call runs only while nothing is above it. The invariant `StopInv` says that whoever is past the
  assignment has above it only handlers that find `running_` lowered (`Above`, `Alone`), and that the field agrees with the
  descriptor but inside `close()` (`Socket`).
- `Graceful` needs `Undisturbed`. `JoinInv` says who joins whom and that before and after the shutdown there is nothing to join;
  it covers the start that fails half way and the unwinding of `main()`.
- `LoggerLast` and `ContractKept` need `Sheltered`. `KeepInv` says that `main()` returns only after the shutdown and that
  threads serve while `running_` is up. With it every step of the process is a step of `DaemonContract` or a stutter under the mapping of
  `ServerLifecycleRefinement`: `Open` is the step that raises `running_`, `Request` the first to lower `g_running`, `Close` the one
  that lowers `running_`.
- `LoggerIsFree` is the reverse of `signal_in_log`: signals may land on any thread at any statement but on the holder of the
  Logger's mutex, and no handler waits for a mutex that its own thread holds. `LogInv` says that each thread's handlers
  are one stack and that the holder is on top of its own, so that run shows the only way into that hang.

**SnmpAgentProofs.** `Invariant`: `IInv` is inductive. It adds to the properties what each step means (`StepFits`), the status
of a response under construction (`StatusSoFar`). Objects may hold NULL, so that a binding answered NULL says nothing by itself:
`SetAccountsForMib` is carried through a SET by the last binding that was answered with a value, and behind that one by a NULL
that was asked for. From it `SetIsAccountedFor`, `StatusIsTrue`, `AnswersInOrder`, `AnswersAreCurrent`, `WalksMissNothing`;
`AuthorisedWrites` is the action property, from the invariant and the one action that writes a table.

**SnmpPacketProofs.** `StaysInside`: `TypeOK` and `Inside` together are inductive; one lemma about headers (`HeaderFacts`) and
one about accepted elements (`AcceptsFacts`) carry the arithmetic. `Progress`: each step moves `offset` or is the last.
`TypeCorrect`: the members' widths hold for any octets.

About the wire, `WireInvariant`: while `parse()` reads a serialized packet, the octets ahead of it are the serialization of what
it has not read (`Ahead`, `Position`), what it has read is in the members (`HasRead`), and it fails only on a packet of 130
octets or more (`Ending`). From it `Faithful` and `ShortArrives`. The list of bindings is a fold, about which no induction can
be done here; the proof has its one equation (`ListCons`: the octets of a list are those of its first binding and those of the
rest) from the least index at which two ways to concatenate would differ (`LeastNumber`, `FlattenCons`). `ElementParse` is the
lemma that an element is read back as it was written, for any tag and contents below 128 octets; `LongIsRefused` and
`HeadLength` do the others. `NoPart` rests on `Checked`: once the first length is accepted, it ends exactly where the datagram
does, and what was accepted before is not looked at again. Its proof found the limit of `WholeOrNothing`.

**SnmpConfigProofs.** `Invariant`: `TypeOK`, `LastReadableWins`, `ZeroIsReported` and `ValidIsTaken` are inductive together. One
lemma for a line that gives its member a value (`ValueInv`) and one for a line that does not (`NoValueInv`) stand for the six
ways through the loop; `NarrowFacts` says what 16 bits keep. From it `TypeCorrect`, `MembersAreTheFiles`, `ZerosAreNoticed` and
`ValidLinesCount`.

**SnmpExchangeProofs.** `ExchangeInvariant`: `ExchangeInv` is inductive. Neither of the two properties about confirmations is:
they need that nothing under way is forged (`RequestsFit`), that a SET sent once is in one place only, as a request, in hand or
as an answer (`OneOfEach`), that one in hand that went well has been stored and stands (`StoredInHand`), and the same of each
answer under way (`AnswerFits`). It rests on `AgentRuns`, each step being one of `SnmpAgent` or a stutter, which brings `IInv` of
the agent along. From it `AnswersTellTheTruth`, `ConfirmedStands`, and `WalkImplements`: each step of the walk is one of
`WalkContract`, because an answer under way leads to the very next object or nowhere.

**SnmpConnectionProofs.** `Invariant`: `IInv` is inductive; `CallFits` (nobody takes the socket away during a call) and
`StreamInOrder` carry it: what is in the stream is the rest of what the peer sent, everything handled comes from before that
(`Gone`), and while nothing was refused or lost the two add up. So before `parse()` has refused something a stray
can begin only with nonsense of the peer's. From it `Accounted`, `InOrder`, `Timed`, and
the action properties `Quiet`, `Revived`, `OthersKept`.

**WindowsServiceProofs.** `Invariant`: `IInv` is inductive. `OneStop` says that once a stop is under way no state is assigned or reported
that would let another control through, which is why the event is set once (`OneStopRequest`); `StatusLags` says how far the SCM
may be behind the shared status and which thread is to blame; `HandleFits` and `StoppedIsSettled` tie the child to its handle
and to whoever may report the end, from which `OpenHandle` and `NothingLeftBehind` follow. `Implements`: the wrapper refines
`ServiceContract`, step by step from the invariant.

Model-checked only: liveness (`ShutdownCompletes`, `ReturnsToIdle`, `StopCompletes`, `ReceiveReturns`, the liveness half of
`WalksTheMib`), which is out of the prover's reach. Every other property of a passing run is the statement of a theorem,
or a conjunct of one, in the world that the theorem names.

## Not modelled

- *Headers without code:* SNMPv3 (USM, VACM, packets), thread pool, memory pool, metrics, health checks. There is no behaviour in
  the repository to model, and nobody calls them. The MIB and the security tables have headers and tests only, and are
  external.
- *Code nobody calls:* the platform layer wraps single system calls; `ErrorHandler` counts what nobody reports to it; the setters
  of `SNMPConfig` and `Logger::set_level()` are called by tests only.
- *init.d, systemd, launchd:* the daemon neither goes to the background nor writes a PID file. Whether `start` returns, and
  whether the branches behind the test of the PID file are ever taken, is up to the system's own `daemon` or `start-stop-daemon`. The
  systemd and launchd files only name the command.
- *Left out of what is modelled:* what the Logger writes, the text of messages, file rotation, option parsing, the Winsock
  variants, allocations inside the signal handler. The configured `log_level` is never handed to the Logger, and a reload on
  SIGHUP is documented and not implemented: nothing to model.
- *Build, packaging, examples:* no behaviour of the running system.

## Plan

Done, in this order, the most important behaviour first: the process (`ServerLifecycle`, `DaemonContract`), the requests
(`SnmpAgent`), the codec (`SnmpPacket`, `SnmpPacketWire`), the configuration (`SnmpConfig`), the service wrapper (`WindowsService`,
`ServiceContract`), the connection (`SnmpConnection`), the exchange with a manager (`SnmpExchange`, `WalkContract`).

Every safety property is proved. Left: `Writes` of `SnmpExchange` may come from several managers, which needs an identifier per
manager in the model first.
