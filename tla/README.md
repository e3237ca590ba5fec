# Formal model of dhcp_server

The repository is a Windows service that runs one DHCP server per PoE network
port of a machine. This directory holds TLA+ modules of its core, TLC
configurations that check them on small instances, and theorems proved by TLAPS
for every value of the constants.

All paths are relative to the repository root. "The server" is the C++ class
`DhcpServer`; `service` is the program of `demo/main.cc`.

## 1. The system

| component | source | state | operations |
|---|---|---|---|
| Address table and assignment | `src/dhcp_server/dhcp_server.cc` (macros 7-12, `CheckIsClientExist` 327, `FindAddrIndex` 460, `AssignAddress` 478) | `addresses_in_use_` (a vector of address, identifier), `last_offer_address_` | search by identifier, search by address, assign the next free address |
| Messages and thread | same file, `Start` 58, `Stop` 72, `run` 84, `InitServer` 254, `Packet*` 516-626, `SendDhcpMessage` 629 | `starting_`, `thread_`, `dhcp_socket_` and the table | `Start`, `Stop`, `IsRunning` by the owner; one iteration of `run` per datagram by the thread |
| Option parsing | same file, `ParseReceiveData` 215, `GetOptions` 228, `GetIdentifier` 238, `GetDHCPMessageType`, `GetRequestClientName`, `FindOptionData` 353 | `read_buffer` of `run`, never cleared | read fields of a datagram |
| Windows service | `demo/main.cc`; `StartDhcpServers`, `StopDhcpServers` and the destructor of `api/src/poe_dhcp_server_impl.cc` | `brun`, the service status, the list of servers | `ServiceMain`, `CtrlHandler`, `main` and the exit of the process |
| PoE adapter configuration | `api/src/poe_dhcp_server_impl.cc`, `src/network_adapter/network_adapter.cc` | `adapter_infos_` (read once), `poe_adapter_model_`, `dhcp_server_list_`, and the addresses of the operating system's adapters | `ConfigPoeAdapter`, `SetPoeAdapterAddress`, `SetPoeAdapterModel`, `GetPoeAdapterCount` (changes nothing) |
| Adapter configuration through WMI | `src/network_adapter/net_config.cc` | COM interfaces | `init`, `clear`, `set_ip_config`, `set_gateway`, `set_dns` |
| Own socket classes | `src/socket/` | - | not built: the build never enters that directory and nothing includes its headers |
| DHCP clients and network | not in the repository | what a client knows; messages underway | external, as the comments of `PacketRequestAck` describe the clients |
| Log, build scripts | `src/log/`, `bootstrap.py`, `bootstraper.py`, `conanfile.py` | - | file output; dependency download |

How they interact. `ServiceMain` (a thread of the service dispatcher) creates a
`PoeDhcpSeverImpl`, calls `ConfigPoeAdapter`, which gives each PoE adapter an
address through WMI and makes a `DhcpServer` for it, then calls `StartDhcpServers`
until it returns true. Each `DhcpServer` has a thread that blocks in `receiveBytes`
and answers out of its own table. `CtrlHandler` runs on the dispatcher's thread,
main's, and writes `brun`, which `ServiceMain` polls; it also reports the service
stopped, upon which main returns and the exit of the process destroys the
`PoeDhcpSeverImpl`, whose destructor stops the same servers that `ServiceMain` is
stopping. `Stop` clears `starting_` and joins the thread. Nothing is locked: the
table is touched by `InitServer` (owner) and by the thread, and the join alone keeps
them apart.

What is hard, and what makes each part correct:

* **Table and assignment.** The scan wraps around the pool, probes one address
  fewer than the pool has, and continues from a pointer that a failed allocation
  has already moved. The same address is kept in host order in the table and in
  network order in packets. *Correct* means: no two entries share an address, no
  client has two entries, addresses come from the pool and are not the server's
  own, and a refusal means that the pool is (almost) used up.
* **Messages and thread.** Messages are repeated, sent under other identifiers,
  or meant for other servers; memory runs out after the pointer has moved; the
  socket can fail at bind, at `setBroadcast`, and by an exception that leaves
  `run` with `starting_` still set; the owner starts and stops at any moment.
  *Correct* means: an OFFER or ACK names the address the table holds; a NAK never
  denies a client its own address; leases are never changed; a server that says
  it is stopped is quiet; every call of the owner returns.
* **Option parsing.** The walk over the options stops at the end of the datagram,
  an option it finds need not: bytes of an earlier datagram may complete it.
  *Correct* means: `run` reads what the sender meant, and nothing left over.
* **Clients, network, restarts.** Messages come late, twice or never; the table is
  gone when the process ends, and the clients keep their addresses. *Correct*
  means: one run gives no address to two clients, replies reach the client that
  waits for them, every client is served in the end, and what a restart breaks is
  mended when the clients renew.
* **Service.** `ret` is overwritten by each server in turn, the retry loop
  restarts servers that already run, a control may come at any moment, and two
  threads stop the same servers. *Correct* means: the service waits with its
  servers up, returns with no thread left, destroys no server whose thread lives,
  and a stopped service ends.
* **Adapter configuration.** Each stage of `init` may fail, and a failed `init` is
  begun again by the next method. *Correct* means: no method runs without its
  interfaces, none is released twice, COM is balanced.
* **PoE adapters.** The conflict search is one pass in list order; `ConfigIp`
  can leave an adapter half configured; the addresses compared are those read at
  the start of the process. *Correct* means: each server has a segment of its
  own, an adapter with its address and a proper range. That it is not the main
  adapter's segment is not so (section 6).

The hazards are listed line by line in `PROJECT.json`, each with the properties
that would catch it or the reason why none does.

## 2. The modules

| module | models | uses |
|---|---|---|
| `ByteOrder` | the `DWIP*` macros: a DWORD in network order and as a value | |
| `AddressPool` | table, searches and `AssignAddress` as operators | `ByteOrder` |
| `AddressScan` | the `do ... while` loop of `AssignAddress`, one probe per step | `AddressPool` |
| `ServerThread` | flag, thread and socket of one server, and what `Start`, `Stop` and `run` do to them, as operators | |
| `DhcpServer` | one server: owner, thread, table, messages | `AddressPool`, `ServerThread` |
| `AddressBinding` | abstract specification: what a server promises its clients | |
| `DhcpNetwork` | one server, its clients, the network, restarts of the process | `DhcpServer` |
| `Options` | the buffer of `run`, the walk over the options and what is read | |
| `ServerList` | the list of servers under any order of the API's calls | `ServerThread` |
| `Service` | `ServiceMain`, `CtrlHandler`, `main` and the exit, over up to N servers | `ServerThread` |
| `NetConfig` | `init`, `clear` and the methods over COM interfaces | |
| `PoeAdapters` | `PoeDhcpSeverImpl` and `NetWorkAdapter`: the plan of addresses | |
| `MC*` | values of the constants for TLC | |
| `*_proofs` | lemmas and theorems | the module they are about; `AddressScan_proofs` and `DhcpNetwork_proofs` also those of `AddressPool`; `DhcpNetwork_proofs` has the theorems of `DhcpServer`, `AddressBinding` and `DhcpNetwork` |

Names follow the source, misspellings included (`AvoidConfict`,
`IsMainAdatpter`), so that they can be searched for.

### State and actions against the code

`ByteOrder`. Shifts and masks of octets are `\div` and `%` by `Base`, the number
of values of an octet: 256 in the program, 2 in the TLC instances. In the
proofs it is any number from 2.

`AddressPool`. An entry is `[dwAddrValue, pbClientIdentifier]`. Identifiers are
model values; `NullId` and `EmptyId` are the two of size 0 (null pointer; empty
option 61), which `CheckIsClientExist` skips. The identifier is not kept with
the length separately: two identifiers are the same value exactly when their
sizes and bytes agree, which is what the code compares.

`AddressScan`. `pc` is inside the loop, past it, or returned. Sums and
differences wrap at `Base^4`, as DWORDs do. `ScanIsAssignAddress` ties it to the
operator, so `DhcpServer` may use `AssignAddress` in one step: the scan runs on
the server's thread, touches only the table and the pointer, and nothing else
touches those while the thread lives (`StoppedMeansQuiet`).

`ServerThread`. `thread_` is `null`, `loop`, `receiving` or `finished`.
`CanBind` is the consequence of `dhcp_socket_.reset(new DatagramSocket(...))`
(267): the new socket is bound before the old one is destroyed, so a server that
ever bound its address cannot bind it again. `FailedInits` has the two ways in
which `InitServer` throws: the bind, and `setBroadcast` on a socket already
bound and kept.

`DhcpServer`. The owner is one thread that calls `Start` or `Stop` in any order
(`owner` tells what join it is in). One action per outcome of a handler; each
covers the handler from the receipt to the `continue`, with what `sendTo` does:

| action | code |
|---|---|
| `InitServer`, `Start`, `StartRunning`, `RestartJoin` | `Start` and `InitServer`: directly, or after stopping a running server |
| `Stop`, `StopJoin` | `Stop`: flag cleared, then the join |
| `CheckStarting` | `while(starting_)` |
| `ReceiveError`, `ReceiveThrows` | `receiveBytes` with a negative count; with an exception |
| `PassOver` | datagrams refused by the parser, of another type, or with the server's host name |
| `OfferToOldClient` | `PacketOldClientOffer` |
| `OfferToNewClient`, `NoMemoryForNewClient`, `NoAddressForNewClient` | the outcomes of `PacketNewClientOffer` |
| `AckRequest`, `NakRequest`, `NothingRequested` | the outcomes of `PacketRequestAck` |

A datagram is a record of what `run` reads from it. `reply` is the message the
last step sent, with the client it is for, its addresses, lease time and
destination. The lease time is the value of the source's constant expression as
the 32-bit build computes it.

`AddressBinding` has no thread, socket, vector or scan: a service that opens
once, a function from clients to addresses that only grows, a set of addresses
withheld, and the last answer. `DhcpServer` maps to it as follows: `binding` is
the address of the entry `CheckIsClientExist` finds for each client, `withheld`
the addresses of entries without an identifier (the server's and those of
clients with an empty one), `service` is derived from `life` (definitions
`Bound`, `Withheld`, `Service` at the end of `DhcpServer`). `ImplementsBinding`
is the whole of `AddressBinding!Spec`.

`DhcpNetwork` extends `DhcpServer` and composes its `Start`, `CheckStarting` and
`Handle` with clients and a network. A client is `[state, xid, address, run]`; the
message it sends follows from its state: DISCOVER (`SELECTING`), REQUEST with the
server's identifier (`REQUESTING`), with option 50 alone (`REBOOTING`), with
option 50 and `ciaddr`, as "some clients" of the comment at `dhcp_server.cc:589`
do (`REBOOTING-CIADDR`), with `ciaddr` alone (`RENEWING`), the cases
`PacketRequestAck` tells apart. A client that boots is one of the two, freely. A message
underway may be delivered at any later time, any number of times or never, which
is loss, delay, repetition, reordering and retransmission at once. A reply has
the xid and chaddr of its request (`CreateDhcpReplyPacket`) and reaches the
client if it is broadcast or sent to the address the client uses. So no ACK
reaches a client in `REBOOTING-CIADDR`, and such a client may give up and begin
anew (`GiveUp`). A client takes
an xid that none of its messages underway has, as a random 32-bit number would
be. `RestartProcess` ends the process anywhere and empties the table; `run`
counts, and a lease carries the run it is of (history).

`Options`. The state is the buffer and what was read of the last datagram. An
option is a PAD or a code, a length and data, and a datagram any prefix of the
encoding of a list of options. `FindOptionData` is the walk of the code, over
the bytes of the buffer; `WellFormedIsReadAsSent` compares it with the list.

`ServerList`. One caller makes the calls of the API in any order; `Cleared` is the
`clear()` of `ConfigPoeAdapter` (63) or the end of the destructor: when a server's
thread lives, what follows is undefined and the behaviour ends.

`Service`. `pc` is where `ServiceMain` is, `k` the index of its loops over the
servers, `ret` the variable of `StartDhcpServers`. `ConfigPoeAdapter` is part of
`RaiseBrun`: from there on there are 0 to N servers, as the machine has PoE adapters
(`MakeServers`). The pauses (`sleep`) are not modelled: every order of steps they
could produce is allowed anyway. After the report of `SERVICE_STOPPED` main returns
(`MainReturns`) and the destructor of the global `poe_dhcp_server` goes over the
servers with an index `e` of its own (`ExitStopsServer`, `ExitJoinsServer`,
`ExitDestroysServers`), while `ServiceMain` and the servers' threads run on;
`ProcessEnds` takes them with it. `toldAt` (history) is where `ServiceMain` was when
the control came.

`NetConfig`. `init` is the sequence `Stages` of calls with the interface each gets;
`held` are the pointers that are not null, `objects` counts the objects behind
each that have not been released. A call of a method is on its way (`method`)
until it is executed or fails.

`PoeAdapters`. `ConfigPoeAdapter` is split at its loops: `NextAdapter` (over the
adapters), `AvoidConfict` (over `confict_ip`), `ConfigAdapter` (the address found
is given to the adapter and noted), `EraseMain`, `NextRange` (in
`GetDhcpAddressList`), `MakeServers`. `192.168.s.h` is the pair `<<s, h>>`; every
other address is an opaque value. A machine is `frail` or not, for good
(`FrailMachines`). On a frail one `Configured`, what `ConfigIp` may leave, has the
adapter as it was too, or with only one of the new address and the new gateway:
each method may fail, or succeed with "reboot required" and no effect yet;
`GetAdapters` reads all adapters, or none when it fails; and
`SetPoeAdapterAddress` is called.
`SetPoeAdapterAddress` called with an index that is out of range, or with the
address read at the start, changes no adapter and has no action.
`Restart` ends the process anywhere and reads the adapters again.

Definitions whose comment begins with "A slip:" are not part of a specification:
each is a plausible mistake in the definition it precedes, kept to verify that
the properties notice it. The list is in `PROJECT.json`, "mutants".

## 3. The runs

| run | question | states |
|---|---|---|
| `address_scan` | Does the loop compute the first free address after the last offered, return always, and refuse only late? | 1892 |
| `dhcp_server` | With every kind of datagram and every failure, does the server keep the table sound, its replies true, its leases stable, implement `AddressBinding`, and do `Start` and `Stop` return when datagrams keep coming? | 49 266 |
| `dhcp_network` | With two clients in a pool of two addresses, messages late, repeated or lost, resets and a restart of the process: does one run give no address twice and know every lease it gave, do replies reach their client, does only a restart end a lease, and only a full pool refuse one? | 788 811 |
| `dhcp_network_liveness` | Is every client served in the end, and does the sharing of an address that a restart brings about end when the clients renew? | 76 633 |
| `options` | Does `run` read what the senders of datagrams, truncated ones among them, mean, and nothing of earlier datagrams? | 51 886 |
| `server_list` | With the API called in any order, is a `StopDhcpServers` enough for a safe `ConfigPoeAdapter`, and which orders leave the servers running? | 5465 |
| `service` | In every failure, does `ServiceMain` return only with all threads ended, wait only with the last server up, and does the exit destroy no live server of a service told to stop while it waits? Do the retry loop, and the process of a service told to stop, come to an end? | 26 800 |
| `net_config` | In every failure of COM, does no method run without interfaces, and is nothing released twice, lost or left initialised but by a failed `init`? | 8818 |
| `poe_adapters` | With up to four PoE adapters, and with fewer through failures, other callers and restarts, do the servers get consecutive segments, with proper ranges and an adapter each? | 3 824 334 |
| `host_name`, `already_correct`, `reboot_ciaddr` | Three statements of the source that the code contradicts; see section 6. | |

Types are checked where theorems rest on them (`AddressScan`, `DhcpServer`,
`PoeAdapters`); the other modules state properties of their behaviour alone.

What some of the properties say, where it is not plain from the name:

* `RefusalLeavesAtMostLastOffer`: the loop stops one probe early. The address it
  never looks at is the last one offered, which is in use, unless `LocalAlloc`
  failed right after it was assigned. Then it is free and this refusal loses it.
* `RefusalMeansExhausted`: without that failure the early stop is harmless in a
  pool of three addresses or more once the server has opened. (In smaller ones,
  before the first offer, `last_offer_address_` is the end of the pool and nobody
  has it.)
* `WaitingMeansLastRunning`: the most the retry loop guarantees. That all servers
  run holds only as long as no socket was refused its address or the broadcast
  option (`refused`, history; `WaitingMeansAllRunning`). `StartedOnceMeansRunning`
  says the same of a caller that starts a list once: `StartDhcpServers` calls
  `Start` on running servers in every round, which stops them for good, since
  their sockets stay bound (`CanBind`). "Running" is what `IsRunning` returns, the
  flag: a server whose `receiveBytes` has thrown has no thread and says it runs
  (`ThreadDies`), and no comment promises otherwise.
* `StartReturns` has `LastBinds` as a premise: the last server's address is not
  refused for ever, and its broadcast option never. With the option refused the
  socket is bound and kept, so no later round can bind it again, and the retry
  loop never ends.
* `StopEndsProcess`: a service told to stop ends as a process, though a control
  between the report of `SERVICE_RUNNING` and `brun = true` is overwritten, and
  without PoE adapters the retry loop never ends: the exit waits for the servers'
  threads and not for `ServiceMain`.
* `DestroyedMeansQuiet` has the premise that the control came while the service
  waited. Told while it starts its servers, `ServiceMain` may start a server the
  exit has passed already, which is then destroyed with its thread running.
* `SharingNeedsRestart`: two clients do use one address after a restart: the server
  begins with an empty table at the start of the pool. Within one run it cannot
  happen. `SharingEnds`: it lasts until the client with the lease of the earlier
  run renews it and is told NAK. (At the lease time of section 6 that is years.)
* `RepliesReachTheirClient`: a reply is sent to the `ciaddr` of the request, which is
  right for clients that use that address already, and wrong for one that sets it
  when it boots. The property excepts just the ACK to one in `REBOOTING-CIADDR`
  (a NAK is broadcast and gets there); that the exception is a disagreement with the
  source is `reboot_ciaddr`, section 6.
* `ClientsAreServed`: a client in `REBOOTING-CIADDR` is served after giving up, not by
  the ACK it waits for.
* `StopBeforeConfigIsEnough`: `ConfigPoeAdapter` itself stops nothing. The program
  calls `StopDhcpServers` first; the API lets others forget it.
* `InterfacesAreLive`, `LossNeedsFailedInit`: no method and no `clear` meets a dead
  object, and what `NetConfig` loses, it loses in an `init` that failed half
  way and was begun again.
* `SegmentsAreConsecutive` tells the segments exactly. The main adapter's gateway
  moves them by one if it is on 50 and is not looked at otherwise: on a later segment
  it is given to a server as well (section 6).
* `ServersHaveAdapters` speaks of machines whose calls do not fail. A server whose
  address could not be set is made all the same; its bind fails in every round of
  the service, which `Service` has as a bind that is refused.

### Bounds, and why they are enough

* `Base = 2`: an address has four one-bit octets, 16 DWORDs. Conversion reverses
  the bits, and there are addresses which are their own reversal and addresses
  which are not, so that a conversion left out or made twice shows.
* Pools: values 4..8 with the server at 5, inside; 4..7 with the server at 3,
  outside, as `ConfigPoeAdapter` makes them; 4..10 for the scan. All are larger
  than the special case of `Probes` (1), and small enough to be used up, wrapped
  around and refused. Pools of one and two addresses are left to the proofs, which
  cover every size.
* Two clients with identifiers that can be swapped (the hardware address of one is
  option 61 of the other), and any number of discovers with an empty identifier,
  which is what fills the pool.
* Datagrams: those named in `MCDhcpServer`, every combination of the option 50,
  the server identifier and `ciaddr` that takes a branch of `PacketRequestAck`.
* Servers of the service and of the list: up to 3: none, one, a first, a middle and a
  last one.
* `DhcpNetwork`: two clients. The first has two requests underway (`MaxRequests`),
  so that its own overtake each other, the second one, enough for a late message
  of one to meet the state of the other; one reply to each (`MaxReplies`). One
  request each for liveness. One restart (`MaxRun` = 1) gives leases of two runs.
  `Unsteady` is the client that may boot again or give up, in `dhcp_network` the second
  and for liveness the first; the other is steady, which tells the two cases of each
  property apart. In `dhcp_network` the pool is 4..6
  with the server at 5, so the two clients use it up; for liveness it is 4..7 with the
  server at 3.
* `Options`: two datagrams one after the other in the buffer (`MaxReceived`), of the
  lists in `MCOptions` cut after every byte, and a buffer that begins with zeros or
  not: the second finds in it whatever the first left. Lists hold what is hard to
  tell apart: PADs, data that looks like a code, lengths that are wrong.
* `NetConfig`: four calls of `CoInitializeEx` (`MaxInits`), so that failed inits can
  follow each other, a complete one and a `clear`.
* PoE adapters: up to four on machines where nothing fails, up to two on frail
  ones, a main adapter that is a PoE adapter among them. The main adapter's gateway
  is off the segments, or on one of 50 to 54. `LastHost` is
  30 in place of 254, so the third range is cut short and the fourth begins past
  the last host. In the program the 23rd range ends exactly at the last host and
  the 24th begins past it.
* Other counters needed no bound: tables end with the pool, the loops of the plan
  with the adapters.

No run uses symmetry: the clients differ in the datagrams they send or in what they
may do, or liveness is checked.

`CHECK_DEADLOCK FALSE` is set where the system really ends: a call of
`AssignAddress` (`AddressScan`), the service after its process is gone
(`Service`), the list of servers after its destructor or once its use is
undefined (`ServerList`), `NetConfig` after a null pointer was followed.

### Fairness, and why the code justifies it

* `AddressScan`: the loop runs on a thread that waits for nothing: weak fairness
  of the step.
* `DhcpServer`: weak fairness of `CheckStarting` (the thread is not blocked at the
  head of its loop) and of a join whose thread has ended. Not of `Receive`:
  `receiveBytes` has no timeout and datagrams need not come. That every
  `receiveBytes` comes to an end is the premise of `TrafficEndsJoins`, for without it
  `Stop` waits for ever.
* `DhcpNetwork`: weak fairness of the server's start, of its thread at the head of
  the loop and of a client that has no address and asks; strong fairness of what the
  network delivers of a client's current exchange, to the server and back: a message
  sent again and again arrives some day; weak fairness of giving up, as a client
  that boots and hears nothing turns to `DHCPDISCOVER` after some tries. None for
  renewals, resets and restarts: that clients renew is a premise of `SharingEnds`,
  and that a client is left alone one of `ClientsAreServed`. Restarts are bounded,
  as a process that ends again and again serves nobody.
* `Service`: weak fairness of `ServiceMain`, of the exit and of each thread's loop.
  Traffic at every server is a premise of both liveness properties, and `LastBinds`
  (the system grants the last server's bind if it is asked again and again) of
  `StartReturns`. Nothing obliges anybody to send a stop control.
* `PoeAdapters`, `NetConfig`, `Options` and `ServerList` have no fairness: only safety
  is checked.

## 4. What is proved

TLAPS proves these for every value of the constants that satisfies the named
assumptions of the modules: `BaseAssumption`, `PoolAssumption`,
`TablesAssumption`, `DhcpServerAssumption`, `DhcpNetworkAssumption`,
`ClientsAreHeard`, `OptionsAssumption`, `ServiceAssumption`, `ServerListAssumption`,
`NetConfigAssumption`, `PoeAdaptersAssumption`. They give the constants their
types but for these:

* the pool is not empty, does not hold 0 and ends before 255.255.255.255, as the
  ranges `ConfigPoeAdapter` makes do (`PlanRangesArePools` says which of them);
* `OptionsAssumption`: a datagram is cut from the bytes of its list and fits the
  buffer, and the server's own name is shorter than the 256 bytes `gethostname`
  has for it;
* `ClientsAreHeard`: the datagrams a server is modelled with include those the
  clients of `DhcpNetwork` send.

The bounds of TLC's instances (`MaxRequests`, `MaxReplies`, `MaxRun`, `MaxInits`,
the number of servers and of clients) are constants here, so the theorems hold
for every one of them. Every safety property a passing run checks is stated by a
theorem. Each rests on an inductive invariant, since few are inductive alone.

* `AddressPool_proofs`: the byte order macros map DWORDs to DWORDs and undo each
  other (`ByteOrderRoundTrip`). `AssignAddressCorrect`: what is assigned is an
  address of the pool that no entry has; if nothing is, only the last offered may
  be free.
* `AddressScan_proofs`: the loop computes `AssignAddress`. Its invariant: before
  probe k the address at hand is that of probe k, and all before it are in use.
* `DhcpNetwork_proofs`, the server: all safety invariants and action properties of
  the run `dhcp_server`; besides these `RefusalMeansExhausted`,
  which `dhcp_network` checks. The
  inductive invariant `IInv` is `TypeInv` (where `last_offer_address_` stays in
  the pool, which the type alone does not say: the scan is only right from there),
  `LifeInv` (a thread needs an entry in the table, an entry needs a bound socket:
  so the one `InitServer` that succeeds finds the table empty, and the server's
  entry is first and alone), `TableInv` (the three properties of the table),
  `RepliesTellTheLease` and `StoppedMeansQuiet`. None of the table properties is
  inductive without `LifeInv`: a second success of `InitServer` would append the
  server's address again.
  `RefusalsAreJustified` assumes that `LocalAlloc` does not fail and that the pool has
  three addresses; its own invariant extends `IInv`.

  `ServerImplementsBinding` is the refinement: every step of `DhcpServer` maps to
  a step of `AddressBinding` or to a stutter. The table only ever changes by an
  `Append`, and what that does to `binding` and `withheld` is in two lemmas:
  `NewEntryBinds`, for an entry of a client the table does not know, and
  `InitServerBinds`, for the server's own. That an appended address
  is free in the abstract sense is `AssignAddressCorrect` with the range of
  `binding` computed from the table (`AssignedIsFree`). The steps of owner and
  thread map to `Open`, `Close` or nothing (`ThreadBinds`), those of the handlers
  to `Bind`, `Withhold` or an answer (`HandleBinds`), where `PreviousOfferIsTheLease`
  and `HolderIsNotNaked` of the earlier proofs say that the answer tells what the
  table holds.

  `BindingKeepsPromise` is about the abstract specification alone: no two clients
  are bound to one address, none to a withheld one, the server's own among these;
  OFFER and ACK name the address of their client; no binding and no withheld
  address is ever given up. The invariant needs that nobody is bound before the
  service opens. `ServerKeepsPromise` carries it over to the server.
* `DhcpNetwork_proofs`, the network: all safety invariants and action properties of
  the run `dhcp_network`. The inductive invariant `NetworkInv` adds to the server's
  `IInv`: `ClientInv` and `MessageInv` (types; an xid is nonzero just while a client
  asks; a message underway is one its client may have sent, or an answer to one;
  there are finitely many, so a fresh xid exists); `ExchangeInv` (a message with the
  client's xid is of its current exchange; while it renews, an answer is an ACK of
  its own address or a NAK to a lease of an earlier run; while it boots with
  `ciaddr` set, an ACK to that address or a broadcast; otherwise a broadcast);
  `ClaimInv`. A claim is a lease in use, or an ACK underway that may become one: a
  claim on the run that is on is in the table, and one run leaves no two clients a
  claim on one address. `SharingNeedsRestart` is not inductive without the ACKs
  underway, which a client may take long after the server sent them, and `ClaimInv`
  not without `ExchangeInv`: the ACK a client takes must be to what it asks now. A
  restart keeps all this since the claims there are fall to an earlier run. The
  server's own steps need no second proof: delivery of a request is a step of
  `DhcpServer` (`ServeStep`), and a restart is its `Init`.
  `NetworkRefusalsAreJustified` has the assumptions of `RefusalsAreJustified`.
* `Service_proofs`: the four invariants of the run `service`, for any number of
  servers. `ServiceInv` says where each loop over the servers stands:
  `ServiceTypes` (no index leaves the list), `QuietBehind` and `ExitQuiet` (the two
  loops that stop servers, `ServiceMain`'s and the exit's, each leave no thread
  behind, which holds though they interleave, since neither starts one),
  `RetTells` (`ret` is that of the server just dealt with), `FirstRound` (where
  nothing was refused the retry loop goes round once, and every server behind it
  runs).
* `ServerList_proofs`: the two invariants of the run `server_list`. `ListInv` is
  `ListTypes`, `QuietInv` (`StopDhcpServers` leaves no thread behind it) and `RunInv`
  (where nothing was refused: a server is new or has had its socket and thread,
  the first `StartDhcpServers` turns the first kind into running ones, and a
  further one leaves servers that never run again).
* `PoeAdapters_proofs`: consecutive segments, proper ranges, for any number of
  adapters and of failures. `IInv` says of each loop what it has done: the list so
  far is the main adapter's entry and then one segment after the other from
  `FirstSegment`; the search, after j entries, is at the segment that follows entry
  j; the ranges so far are those of the list. `PlanIsOnAdapters`, that every server
  has an adapter with its address where no call fails, rests on `AdapterInv`: each
  entry of the list is the address of an adapter the loop has passed, and no later
  adapter takes it.

  `PlanRangesArePools` ties the plan to the server: with octets of 256 values, a
  range that begins at a host there is, turned into DWORDs as `ConfigIp` and
  `SetServerAddress` have them, meets the `PoolAssumption` the theorems about
  `DhcpServer` start from; the server's own address is in front of its pool, and
  the pools of the servers before it end below both. (TLC cannot check this one:
  the numbers do not fit its 32-bit integers.) From the 24th server on ranges begin
  past the last host, and no theorem speaks of them.
* `Options_proofs`: the two invariants of the run `options`, for every list of
  options, every cut of its bytes and every buffer. The walk of `FindOptionData` is
  a recursive function of positions (`Walk` in the proofs), and the library's
  induction rules cannot be instantiated here, so the induction over the options
  is done by least counterexample: were the walk to miss an option of the list,
  there would be a first one it misses (`WFMin`), the option before it begins where
  it should, and one step of the walk leads to the next (`WalkExists`,
  `WalkEquation`, `Layout`, `FoundFrom`). `SentIsFound` says that the walk over the
  bytes finds the first option of the list with a code and no byte of data that
  looks like one; `ReadIsOfDatagram`, that a datagram that does not end within an
  option is read the same in any buffer. The inductive invariant is
  `BufferHolds`: the buffer begins with the last datagram, and the fields are what
  the searches find in it.
  `HostNameIsReadOn` says what is read instead of the host name, the disagreement
  that the run `host_name` shows: the name and the byte behind it, but for a name of
  255 bytes, which fills `client_host_name` without that byte.
* `NetConfig_proofs`: both invariants of the run `net_config`. `IInv` is `TypeInv`,
  `HeldInv` (at stage s of `init` all that the stages before s get is held, and what
  is held is live and of an initialised COM) and `CountInv` (COM is initialised
  once for each `init` that got that far; as long as none failed later, what is
  held is exactly what the stages so far got, once each). `LossNeedsFailedInit`
  is not inductive without the last part: an `init` that began with something
  held would overwrite it.

## 5. What is only model-checked, and what is not modelled

Only model-checked:

* liveness (`ScanReturns`, `TrafficEndsJoins`, `ClientsAreServed`, `SharingEnds`,
  `StartReturns`, `StopEndsProcess`), which is out of the prover's reach;
* the three runs that find a violation, which need no more than their
  counterexample.

Not modelled:

* `src/socket/` and the log. The first is not part of the build. The second writes
  lines to a file; its path is a global that the exit of the process may destroy
  before the list of servers, whose destructor logs.
* WMI itself: which calls fail is free, and what they do to an adapter is what
  `Configured` says. A method that succeeds with "reboot required" takes effect
  never, rather than at the restart of the machine.
* In `net_config.cc`: the variant `path_`, which is filled by every `init` and never
  cleared (a leak of a string), and the conversion of addresses to a safe array.
* Upper and lower case in the comparison of host names; `gethostname` is a constant
  of `Options` and a field of a datagram in `DhcpServer`. The two modules meet in
  the fields of a datagram: `DhcpServer` takes any combination of them,
  `Options` shows which are read from which bytes.
* Two servers on one network (each PoE port has its own), relay agents between
  client and server (`giaddr` is modelled as a destination only), clients of
  `DhcpNetwork` with an option 61, and leases that expire.
* The server's host name in replies, subnet mask and DNS, wording and layout.
* Data races. `starting_` and `brun` are plain `bool`s; the models let a thread read
  them at any step after the write, which covers a late read but not a compiler
  that removes the read.
* What a thread does with a server that has been destroyed. `Service` and
  `ServerList` say when it comes to that, and nothing of what follows.

## 6. Where the code and its comments disagree

The runs `host_name`, `already_correct` and `reboot_ciaddr` show 4, 5 and 6. What 1, 3
and 7 are about is in the models as the code does it, and the properties hold with it.

1. `dhcp_server.cc:277` "Server entry is only entry without a client ID". A client
   with an empty option 61 gets an entry of size 0 too, is not found again
   (338 skips such entries), and gets a further address for every DISCOVER.
2. `dhcp_server.cc:431` "One year". The product has a factor `12 * 24` too many and
   does not fit an `int`; as wrapped it is 492433408 seconds, over 15 years.
   (A constant: nothing to check.)
3. `dhcp_server.cc:588` "Request to verify or extend". A REQUEST for another
   server's offer falls into this branch and is answered with a NAK.
4. `dhcp_server.cc:137` "Determine client host name", and 142 "It is the server
   request." The client's host name is copied with the byte after it (321), the code
   of the next option or END, so the server's own name is recognised only if a PAD
   follows, or the name was sent with a NUL. And a client whose name is the server's without its last character is
   passed over if that character is the code of the option that follows.
5. `poe_dhcp_server_impl.cc:104` "The IP address is already correct and does not need
   to be set." It is compared with the address read when the process started: after
   `ConfigPoeAdapter`, asking for the old address changes nothing and returns true.
6. `dhcp_server.cc:589` "DHCPREQUEST generated during INIT-REBOOT state - Some clients
   set ciaddr in this case, so deviate from the spec by allowing it". The request is
   let in, and the ACK sent to `ciaddr` (662), an address such a client does not use
   before it has the ACK.
7. `poe_dhcp_server_impl.h:39` `confict_ip`, the entries the address found is not to be
   in conflict with. They are compared in one pass, the main adapter's first: when
   its gateway is on segment 51 or later, it is passed while the search is at 50, and
   the PoE adapter whose turn it is there gets that gateway for its address. (No
   comment says more than the name; the main adapter's entry is put into the list
   for nothing else.)

## 7. Plan

Done, in this order, the most important behaviour first: byte order and pool; the
scan; thread and messages of one server with its abstract specification; the
service with the exit of its process; the plan of addresses; the bytes of the
options; the COM interfaces; the composition of server, clients, network and
restarts; the list of servers under its API.

Proved, in this order: byte order, pool and scan; the invariants of the server;
the plan of addresses; then the composition with clients and network, the
refinement of `AddressBinding`, the two lists of servers, the COM interfaces, and
that the servers have adapters; last the bytes of the options, that the planned
ranges are pools, and the promise of `AddressBinding`.

Left, in the order of what it would tell:

1. The fields of a datagram in `DhcpServer` are free. A composition with `Options`
   would let only those be that some bytes in the buffer give.
2. Two servers on one network, and relay agents.
3. `LastBinds` is a premise of `StartReturns`: a model of the addresses and ports the
   servers' sockets ask for, with those other programs hold, would tell when it
   holds.
