# TLA+ models of the sparkl node and its Hub contracts

This directory specifies the parts of sparkl-solo that decide who is paid, who
is served and who may leave, and the services a node runs around them (keys,
router tunnel, start-up, wallet, epochs, attestation). TLC checks the models on
small instances; TLAPS proves every safety property of those runs, and the two
refinements, for every instance. Liveness stays with TLC.

Paths below are relative to the repository root: `src/` is the Rust node,
`contracts/src/` the Solidity contracts.

## The system

A *node* sells inference on models served by a local backend. Consumers pay
through two contracts on the Hub EVM chain: the registry, which knows the nodes,
and the escrow, which holds the money of every session. A *router* may sit
between consumer and node, forward requests over a websocket tunnel and report
usage on chain.

| component | state it keeps | operations | talks to | hard part | what makes it correct |
|---|---|---|---|---|---|
| `SettlementEscrow.sol` | balances of users, nodes and treasury, session records, three cached totals, roles and rates | deposit, withdraw, openSession, recordUsage, four settle calls, governance | registry and oracles (reads at call time) | any caller in any order; cached totals kept by hand; three roundings | money is conserved; a provider is never paid beyond usage or lock; a session closes once; a user can always get out |
| `ProviderRegistry.sol` | node records, per-operator index, encryption key versions, lifecycle | register, rotate / revoke key, chill, markDefunct, purge, setters | escrow's open-session counter | run-down spread over calls; swap-with-last removal; versions after purge | index and operators agree; keys only age; no node leaves with open sessions |
| price oracles | model prices, USDC rate, update times | set, delist, read | read by the escrow | prices move under open sessions; staleness | a stale or missing price reverts |
| per-model admission (`capacity.rs`) | active and queued counters, a `Notify` per model | acquire, release | inference handler | lock-free counters, lost wake-ups, timeouts, dropped futures | never more than `concurrency` served; every request is answered |
| inference handler (`server/inference.rs`) | the stream and its cleanup guard | chat_completions | admission, sessions, backend | client may drop at any await | each stream ends in one final state |
| session manager and store | sessions in memory and on disk, receipts, epochs | open, record_chunk, add_receipt, close, recover | handler, settlement worker | two tasks on one session; restart | what was served can be billed |
| settlement worker (`settlement/`) | epoch timers, block cadence | settlement tick, usage sync | sessions, escrow over RPC | transaction and local write are not atomic | usage is reported once; a drained session is marked settled |
| registry client, identity | key files, registration state | boot, register, run-down, rotate | registry over RPC | transaction, then disk; torn files | every key on chain can be opened; the identity is never replaced |
| router tunnel (`router_client/`) | websocket, one task per request | connect, forward, activate, reconnect | router, own HTTP API, escrow | tasks outlive their socket; sockets die silently; reads without a timeout; a session settles between check and grant | answers are whole and on their socket; a bearer is worth what its session is |
| attestation (`attestation/runtime.rs`) | lock, cached report hash, snapshot | refresh | NRAS service, registry | the lock is held across an exchange that may be dropped | an expired hash is not served; nobody waits for ever |
| start-up, network config | layered settings, resolved addresses | load, resolve, prepare | `SparklNetworkConfig` on chain | five reads while the owner updates, also to zero or back | the pair of addresses makes sense |
| wallet calls (`server/settlement.rs`) | one transaction per request | deposit, withdraw | escrow | lost answers; what a call draws on is taken before it is mined | money moves once per answer; success means effect, with exactly known exceptions |
| epoch clock (`settlement/mod.rs`) | two countdowns, stored batches | sleep, tick | settlement worker, store | one sleep for two periods; restart | neither drops nor repeats a tick |
| auth, peer network, HTTP views | little | stateless checks | | | |

## What is hard here

- **Anyone may call the contracts at any time.** The escrow keeps three cached
  totals by hand; two contracts read each other's state at call time; prices,
  roles and operators change under open sessions.
- **Transaction and local write are not atomic.** The node sends a transaction,
  waits for its confirmation, then writes to disk. The confirmation may be lost,
  the transaction may be mined late or revert, the process may stop in between.
- **Clones.** The worker settles copies of the sessions it took at the tick while
  the streams go on and users settle on chain.
- **Futures are dropped.** A client that hangs up ends a stream or a queue wait at
  any `await`; what follows that `await` never runs.
- **Locks across awaits.** A refresh of the attestation holds a write lock during an
  HTTP exchange that its caller may drop.
- **Files are truncated, then written.** A stop in between leaves an identity file
  unreadable; what the next boot makes of it decides whether the node keeps its id.
- **Tasks outlive their connection.** A request forwarded from a broken websocket is
  still being answered when the next one is open.
- **Lock-free counters.** Admission uses two atomics and a `Notify` that stores one
  permit only.

`PROJECT.json` lists each hazard at its line with the properties aimed at it.

## Modules

| module | models | state | steps |
|---|---|---|---|
| `EscrowSums` | `Total(f, S)`, the sum of `f` over `S` | | |
| `SettlementEscrow` | `contracts/src/SettlementEscrow.sol` | the contract's storage under its own names; native custody; the answers of registry and oracles | one action per external function; four for a world that changes its answers |
| `SessionLedger` | what the escrow promises about one session | `ledger`: status, opening, locked, usage, paid | Open, Report, Release |
| `EscrowLedger` | the map from session records to ledger entries | | |
| `ProviderRegistry` | `contracts/src/ProviderRegistry.sol`, `SecurityTypes.sol` | the contract's storage, block time | one action per external function; `Block`; the escrow's counter |
| `Hub` | both contracts on one chain | both | a step of either; the shared answers are the real ones |
| `ModelAdmission` | `src/capacity.rs` | the two atomics, the `Notify`, a program counter per request | one step per atomic operation; timeout; dropped future; spurious compare-exchange failure |
| `NodeSettlement` | `src/server/inference.rs` (streams), `src/session.rs`, `src/store.rs`, `src/settlement/` | sessions in memory and on disk, the worker with its clones, transactions in flight, the ledger | chunk, receipt, usage line, end of stream; tick, inspect, report, refresh, settle; mining, lost confirmation, restart, user settle |
| `NodeIdentity` | `src/identity.rs`, the key of `src/network/mod.rs` | the three key files, the server process | one step per file written by a boot; a stop in the middle of any |
| `RegistryClient` | `src/registry.rs`, `src/cli/` against the node's part of the registry | the contract entry, transactions in flight, the operator's process | register with retries, deregister, defunct, rotate: send, watch, write; mining, portal, revoke, purge; lost answers and stops |
| `RouterTunnel` | `src/router_client/`, `src/server/auth.rs` | client loop, delay and last sleep, websockets alive or silent, frames unread, a task per request id, frames delivered, bearers minted | connect, handshake, sleep with jitter and reconnect; a websocket breaks, stops being readable, falls silent, is given up; read a frame; each send of a task; read the session, grant, refuse |
| `NodeStart` | `src/main.rs`, `src/config.rs`, `src/network_config.rs` | setting layers, every pair of addresses the contract held (zero at first), the boot | configure, five reads, fall back, prepare, stop; `setAddresses` with any pair |
| `EscrowWallet` | `src/server/settlement.rs`, the wallet helpers of `src/settlement/evm.rs` | a request each; pots: native tokens and USDC allowance of the wallet, and per escrow its balance, the node's earnings, native custody, a usable price, the operator's role; a mempool in nonce order | four calls; send, confirm, lose, mine; others change a pot |
| `EpochLoop` | `src/settlement/mod.rs` | countdowns, epoch number, stored batches | start, one turn of the loop, stop |
| `Attestation` | `src/attestation/runtime.rs`, `nras.rs`, the heartbeat, `GET /identity` | configuration, cache, snapshot, lock, two refreshers, the proof on chain | wait, enter, exchange succeeds or fails, publish, answer, dropped, tick |
| `NodeServices` | `src/main.rs` | the four above in one process | a step of one of them while it serves; the stop takes all down |
| `MC*` | instances for TLC | | |
| `*Proofs` | theorems and their proofs | | |

A reverting contract call is a disabled action. Operators whose comment starts
with "Mutant:" are no part of a model: each is a plausible wrong version of the
definition after it, and `PROJECT.json` names the property that notices.

`Hub` composes `ProviderRegistry` (extended) and `SettlementEscrow` (instanced),
each specified alone against an environment that stands for the other.
`NodeSettlement` extends `SessionLedger` and uses its Open, Report and Release as
the chain; `EscrowLedger` shows that the contract is such a ledger. What the node
model assumes of the chain is therefore what the contract model provides.

### How the node's code appears in NodeSettlement

A request is `idle`, then `admitted` (authenticated and past admission),
`streaming`, `receiptDue` between `record_chunk` and `add_receipt` of one chunk,
`usageSent` while the usage line is yielded, `ended`. Every session manager
operation goes through `Save`, the write-through of `save_session`.

The worker is at one of the `await`s of `process_settlement_tick`: asleep, at the
next candidate, waiting for the confirmation of `recordUsage`, about to read the
session again, waiting for the confirmation of the settle. `todo` holds the
clones. `watch()` returns once the transaction is in a block, whether it
succeeded there or reverted; this is how `alloy` defines it and the code does not
look at the receipt's status. A failed read or send is `GiveUp`, a failed watch
`LoseConfirmation`: the transaction then stays in `mempool` or is already mined.

A restart may happen between any two steps and forgets the streams, the worker
and every session that recovery does not reload; transactions stay in flight.

### How the node's services fit together

`NodeServices` extends `EscrowWallet` (which extends `NodeStart`), `EpochLoop` and
`Attestation`: they share the process, so a stop resets what each keeps in memory
and leaves the chain and the store alone. Wallet calls go to the escrow the boot
resolved.

`EscrowWallet` keeps what decides whether the escrow accepts a call as *pots*
(`Needs` lists them per call): what the contract compares the amount with, and two
pots of one or none for conditions, a price that is fresh and within the caller's
slippage, and the wallet being the node's operator. Other users, the price oracle,
the registry and other tools with the same key change a pot at any moment
(`OthersChange`). `drawn` counts how often something was taken from a pot;
`ConfirmedTookEffect` compares it with its value at the moment a call was sent.
Amounts are whole native units credited one for one, so a credit is never zero, and
the gas estimated suffices.

`RegistryClient` extends `NodeIdentity`: the operator's tool and the
server are two processes on the same files. `RouterTunnel` stands alone; its tasks
authenticate against the escrow's session table as the HTTP API does.

Files are `NoFile`, `Torn` or a record. An X25519 key is known by its seed and
version (derivation is taken to be injective), version 0 being the random key of
older builds. A hash of the attestation service carries its age rather than a time
stamp, capped past the point where nothing tells ages apart. A frame on the wire
is the request itself; each task remembers which websocket it was spawned from.

## Runs

| run | instance | shows |
|---|---|---|
| `escrow_money` | 2 accounts, 2 nodes, 2 sessions, 3 units in circulation, fee 1/2 | `CirculatingConserved`, `LocksConserved`, `OpenCountsMatch`, `SessionBooks`, `EarningsAttributed`, `SessionsOnlyAdvance`, and `LedgerRefined`: the contract implements `SessionLedger` |
| `escrow_custody` | 1 session, 2 internal units per native unit, amounts up to 3 (1 and 3 are no whole native units), USDC, gifts, roles and fees moving, two prices, token deltas that wrap | `ShortfallBounded` |
| `escrow_escape` | 1 session; owner, operator, tiers, prices and rates change or fail | `EscapeHatch` |
| `registry` | 2 operators, 2 nodes, 2 key versions, 2 instants, deadline at the last one | `IndexMatchesOperators`, `KeyBookConsistent`, `RundownInOrder`, `IssuedKeysOnlyAge` |
| `hub` | 1 node, 2 sessions in a row, the whole run-down | `EscrowSpec` (refinement), `DefunctNodesDrained` |
| `admission` | 4 requests, 2 slots, 2 queue places | `SlotsBounded`, `QueuePlacesAccounted`, `SleepersHaveWaker`, `EveryRequestAnswered` |
| `node_safety` | 2 requests on one escrow session, 2 tokens each, three configurations, 1 trouble | `BillingBounded`, `ProviderPaid`, `SettledUncontested`, `EndedOnlySettles` |
| `node_claims` | 1 request, 2 tokens, either tier, behind the block gate or not, 2 troubles | `DiskAccounts`, `CompletedGetsSettled` |
| `keys` | files of an older build or none, 2 key versions, 2 registrations, 2 retries, 2 troubles | `PublishedKeysRecoverable`, `HeadlineOnDisk`, `IdentityNeverReplaced` |
| `tunnel` | 2 request ids, 1 session its user and another account try to use, 2 attempts or websockets lost, delays at their limits | `AnswersWellFormed`, `MintedBearersOpen`, `DelayBounded`, `RequestsAnswered`, `TunnelComesBack` |
| `services` | 2 wallet requests, 1 lost answer, 1 change by others, 2 starts, 2 `setAddresses` with addresses 0 and 1, 2 hashes, time to live 0 or 2 ticks, periods of 0, 2 and 3 seconds | `AddressesResolved`, `MovedOncePerAnswer`, `ConfirmedTookEffect`, `BatchesOnSchedule`, `HashFresh`, `SnapshotHonest`, `RefreshAnswered` |
| `node_settled_doc` | 1 request | a statement of the repository that does not hold, see Findings |

A *trouble* is a lost confirmation, a restart or a settle call of the session user;
in `keys` a lost answer or a stop of the operator's tool (the server may stop as
often as it likes).

The services of `services` share the start and the stop of the process and nothing
else. Its initial states (`OneAtATime` in `MCNodeServices`) therefore have one of
address resolution, wallet, clock and attestation busy and the others configured to
be quiet, which keeps the product of their state spaces away. `InTheMidst` confines
the change by others to taking from the escrow in use, or from its wallet, while a
call is being watched: earlier, and by adding, others only make for other pots to
begin with. The theorems are about `Spec`, without either restriction.

**Why the bounds are enough.** The escrow's arithmetic is linear in amounts: with a
price per 2 tokens and a fee in quarters, the roundings of cost and fee, a fee of
zero, a lock drained in one, two and three steps and usage beyond the lock all happen
below four units. The rounding of native value (`SettlementEscrow.sol:349`) needs a
session opened with `msg.value` for an amount that is no whole native unit: an amount
of 3, at two internal units to the native unit, funded with 1. It happens in
`escrow_custody`, and without its slack term `(NATIVE_UNIT - 1) * nextSessionId`
`ShortfallBounded` is violated there.
Two sessions are what `openSessionCountByNode` and the cached sums need to be wrong
about. Two nodes of one operator are what swap-with-last removal needs; two key
versions with a revocation between them are what version reuse needs. Four
requests allow two guards to be released before a waiter runs and the queue to be
full at the same time. Two tokens let a stream move before or after
each of the report and the settle of one tick. Two key versions and an older build's files are
what a rotation can confuse; two troubles lose a confirmation and then stop the
retry. Two losses, each a failed attempt, a break, a read that fails or a silence, put
a task of an old websocket beside a new one and then take either away; two ids let one
be forwarded while the other activates; two sleeps reach the longest delay. Two
`setAddresses` put addresses in place and change one, the other or both, or take them
back to zero, between any two of the reads. Two wallet requests are what it takes for
one to spend the balance the other was simulated against, and one change by others for
a call to revert without that. A time
to live of two ticks and an exchange of one let a hash expire before, during and
after the exchange. What is proved does not depend on these bounds.

**Fairness.**
`ModelAdmission`: weak fairness of a request's own steps, because the runtime polls
ready tasks and response streams end; strong fairness of taking a slot or a queue
place, because a weak compare-exchange that is tried again and again does not fail
spuriously for ever. Nothing is assumed of timeouts. `SettlementEscrow`: the user
keeps calling `settleFull`; nobody else has to do anything. `NodeSettlement`: the
two timers of `run_epoch_loop` go off for ever (strong fairness, the worker being
asleep only now and then); the worker goes on and transactions are mined (weak); a
read or send that is tried on every tick succeeds some time, and the block gate,
which looks at a block number that keeps growing, opens some time (strong). Streams and
clients are under no fairness: nothing is claimed about requests that hang.
`RouterTunnel`: weak fairness of the client loop and of each task, except where the
code waits without a timeout. The HTTP client's timeout ends every forwarded request,
and a router that is there sends its frames or closes; but the session read of an
activation goes through an RPC client with no timeout (`activate.rs:66`), so nothing is
assumed of it (`Reading`), and `RequestsAnswered` speaks of an activation from the
return of that read. The frame loop waits on `stream.next()` with no timeout and no ping
of its own (`connect.rs:100`), so nothing is assumed of the discovery of a silent
websocket either, and `TunnelComesBack` names that case. Failures are not fair and end
with their bound: "after the last failure". `Attestation`: strong fairness of getting the lock, because
tokio's `RwLock` is handed out first come, first served; weak fairness of the end of
an exchange, because the HTTP client has timeouts. The process may stop at any time:
`RefreshAnswered` says the refresh returned or its caller is gone.

## Proofs

Each proof module states its inductive invariant as a conjunction of named parts,
proves with one lemma per action that a step keeps it, and derives the properties.

| module | about | inductive invariant | theorems |
|---|---|---|---|
| `EscrowSumsProofs` | `Total` | | lemmas only |
| `SettlementEscrowProofs` | `SettlementEscrow`, `EscrowLedger` | `IInv` | `TypeCorrect`, `MoneyConserved`, `LocksAreConserved`, `OpenCountsExact`, `BooksBalanced`, `EarningsAreAttributed`, `CustodyShortfall`, `SessionsAdvance`, `LedgerImplemented` |
| `HubProofs` | `ProviderRegistry`, `Hub` | `RegistryInv`; with the escrow's `IInv` and `WiredToHub` | `RegistryTypeCorrect`, `IndexAlwaysMatches`, `KeyBookAlwaysConsistent`, `RundownAlwaysInOrder`, `IssuedKeysAlwaysAge`, `HubRefinesEscrow`, `DefunctAlwaysDrained` |
| `ModelAdmissionProofs` | `ModelAdmission` | `CountersInv`, `WakeInv` | `SlotsAreBounded`, `QueuePlacesAreAccounted`, `SleepersAlwaysHaveWaker`, `AdmissionTypeCorrect` |
| `NodeSettlementProofs` | `NodeSettlement` | `NodeInv`, `BillingInv`, `SettleInv`, `PaymentShape`, `PaymentInv` | `NodeTypeCorrect`, `DiskAlwaysAccounts`, `EndedAlwaysOnlySettles`, `BillingAlwaysBounded`, `SettledUncontestedAlways`, `ProviderAlwaysPaid` |
| `NodeServicesProofs` | `NodeServices` | `ServicesInv` | `BatchesAlwaysOnSchedule`, `AddressesAlwaysResolved`, `HashAlwaysFresh`, `SnapshotAlwaysHonest`, `AlwaysMovedOncePerAnswer`, `ConfirmedAlwaysTookEffect` |
| `RegistryClientProofs` | `RegistryClient` | `KeyInv`, `InStep` | `KeysTypeCorrect`, `PublishedKeysAlwaysRecoverable`, `IdentityIsNeverReplaced`, `HeadlineAlwaysOnDisk` |
| `RouterTunnelProofs` | `RouterTunnel` | `TaskInv`, `LinkInv` | `DelayStaysBounded`, `AnswersAreWellFormed`, `MintedBearersAreOpen` |

**Escrow.** None of the invariants is inductive alone: that a settle does not take
the locks below zero needs the sum of locks to be exact, which needs unopened
sessions to be empty, which needs the ids to be given out in order
(`SessionShape`). `IInv` is the conjunction `MoneyInv` of the books with the types;
facts used by several actions (fees are at most the payout, a cost is a natural
number, what `Released` and `Metered` do to a record) are lemmas of their own.
`LedgerImplemented`: `openSession` is `Open`, `recordUsage` is `Report`, the four
settle calls are `Release`, every other call leaves the ledger as it is; `IInv` is
what makes the guards match, since a session that is not settled has a lock to
release from. `EscrowSumsProofs` has the facts about sums: adding to or taking from
one summand changes the total by as much (`TotalChange`, `TotalInsert`), a summand is
at most the total, totals are monotone and ignore zeros (`TotalMono`, `TotalMask`).

**Registry.** `RegistryInv` = `AdminTyped`, `NodesTyped`, `Indexed`, `Booked`. `Indexed`
says what swap-with-last removal must keep: each operator's list names exactly its
nodes, each once; the equality of length and cardinality that
`IndexMatchesOperators` states follows from it. `Booked` is the key book of one node, so that every action has to be looked
at for one node only (`NodeStep`). The rundown and the ageing of keys are properties
of a step under `RegistryInv`.

**Hub.** `HubRefinesEscrow`: a step of the registry is a step of the escrow's world
(its answers change) or a stutter, a step of the escrow is the same step there. So
everything proved of the escrow holds on the Hub, in particular the exactness of the
counter `markDefunct` reads. From this `DefunctAlwaysDrained`: a node becomes defunct
only at a zero counter, which means no unsettled session (`ZeroCountDrained`), and
a node that is defunct or gone supports no tier, so that `openSession` refuses it.
Its hypothesis `OnlyHubEscrow` is about the deployment: the registry's owner never
wires an escrow other than the Hub's. It cannot be dropped, since with another escrow
the registry asks the wrong counter; the `hub` run makes the same choice.

**Admission.** The counters are shared atomics and the program counters are per
request, so `CountersInv` ties the two: each counter is the cardinality of the
requests at certain points. It needs `LoadsBelowLimit`: a request between its load and
its compare-exchange has seen a value below the limit, and the exchange succeeds only
if the counter still has that value, which is why a stale load cannot take the counter
past the limit. `WakeInv` carries the wake-ups: the list of a `Notify` holds exactly
the sleepers, each once; a stored permit means the list is empty; and sleepers, or
requests that saw every slot taken and are heading for the list, imply a permit or
somebody who will still notify. `SleepersHaveWaker` alone is not inductive because it
says nothing of those heading for the list.

**Node and settlement.** `NodeInv` is the shape of the node: what memory, disk, the
worker's clones and the transactions in flight may say about one request at each
point of its stream. `BillingInv` is a budget per escrow session: the usage on chain,
the reports in flight and the usage lines the router has still to report are together
at most what the watermarks, or the report awaited, stand for, plus everything served
once more per lost confirmation or restart. It is stated over sums because requests may
share a session. `SettleInv` says that, as long as nobody else releases, the full settle
the worker waits for has settled its session or will; in the TEE tier this needs that
no other transaction is in flight. `PaymentInv` follows one request alone on its
session: the chain knows the usage the node takes for reported, what is not locked was
paid, and a full settle in flight pays for all that was served.
`ProviderAlwaysPaid` has the hypothesis `RoomToReport`, that the model's bound on
reported usage leaves room for all repeats: the bound stops the counter for TLC and is
no part of the contract, whose usage is a uint256. The instance of the runs
satisfies it.

**Services.** `ServicesInv` has one part per service. `LoopInv`: time slept plus time
left is a multiple of the period, for both countdowns. `StartInv`: the contract's
history only grows, and each address read so far was the contract's at a moment of it,
the moments in the order of the reads; since an address may be set again, equal values
say nothing, and it is the moments that are carried along. `AttestationInv`: whoever is in an exchange holds the
lock, so the cache has only aged since, by no more than the exchange has taken.
`WalletInv`: each transaction of a request, mined or queued, is paid for by a lost
answer or by the one answer of success; and a call that is watched and not yet mined
would still be accepted, also after everything queued before it, unless one of the
pots it needs was drawn on since it was sent. The theorems hold for all configurations of all services at once, whereas the
run takes one busy service at a time.

**Keys.** `KeyInv` follows the order of the writes: until the first secret is on disk
nothing was published; from then on only the tool writes that file, from the secret it
read, which is still the one on disk (`OneSecret`); a swarm key is written only where
there is none, before any identity names its peer (`OneSwarmKey`); every key published
or about to be opens with the secret on disk (`KeysOpen`), which a rotation preserves
because it carries the random key of older builds over (`RotationOpens`).
`IdentityNeverReplaced` is a property of each step and says which files may change
whatever the others hold: a torn secret or swarm key is final, as every boot after it
fails, and a torn `identity.json` comes back for the same keys. `InStep` adds,
as long as nothing is lost, that the contract follows the disk or is exactly one
rotation ahead of it.

**Tunnel.** `TaskInv` carries what the properties leave out: an id on the wire has no
task and is there once (`AskedOnce`), so a new task starts with nothing delivered;
where a task is says what it may have delivered (`NothingEarly`); an activation that
waits to be granted was checked (`GrantsChecked`), and neither owner nor node of a
session ever changes, so it does not matter that the session may settle before the
grant. `LinkInv` bounds the delay before its jitter, which is what bounds the sleep.

**Assumptions.** Beside the two hypotheses above they are on constants only, named and
evaluated by TLC: sets of accounts, nodes and requests are finite, amounts are
naturals, scales and denominators are positive, fee and multiplier limits are ordered
as the contract's constants are, and values that stand for "nothing" are none of the
values they stand beside.

**Only model-checked.** Liveness, which is beyond the prover: `EscapeHatch`,
`EveryRequestAnswered`, `CompletedGetsSettled`, `RequestsAnswered`, `TunnelComesBack`,
`RefreshAnswered`. So is `SettledOnChain`, which does not hold (see Findings).

## Findings

- **A reverted settle counts as settled** (`node_settled_doc`).
  `docs/sparkl-node1.md:432` calls `Settled` "epoch settlement confirmed". If the
  user settles a part between the node's read of the lock and its
  `settleByOperatorFull`, the split no longer fits, the transaction reverts in its
  block, `watch()` returns all the same and the node closes the session. The rest
  of the lock is never settled by the node. `SettledUncontested` shows this needs
  someone else to release from the lock: the user, or an earlier partial settle of
  the node itself that is mined late.
Noticed while modelling, without a run:

- `src/session.rs:55` calls the watermark a "chain delta watermark"; a report that was
  mined but whose watch failed is sent again. `BillingBounded` is the exact price: at
  most once more per lost confirmation.
- `docs/sparkl-node1.md:408` says "Settlement uses last acknowledged receipt for partial
  claim" of a disconnected session; no selection of the worker returns one.
- `rotate-encryption-key` is never reached from the command line: `main.rs` hands the
  argument parser the program name as first argument. register, deregister, defunct
  and rotate are therefore library calls (`registry.rs:703` registers through the portal
  only); `RegistryClient` models them as the calls of an operator's tool.
- When the configuration file named does not exist, `config/default.toml` is added
  after the environment and wins over it (`config.rs:268-276`; `README.md:54` has the
  environment win). `Loaded` in `NodeStart` follows the code.
- `withdraw-provider` signs with the settlement operator's wallet while the contract
  wants the node's operator (`evm.rs:866`, `SettlementEscrow.sol:284`): it works only if
  the two are the same, `operatorOwnsNode` in `EscrowWallet`.
- The network configuration is taken as it is read, with no check for zero
  (`network_config.rs:83-116`): a contract just deployed, or set to zero, replaces the
  addresses of the configuration file by zero, and the node serves without an escrow.
- A wallet call that reverts in its block is answered "confirmed" like a settle: it takes
  a stale price, a spent allowance, an empty custody or a lost role between simulation
  and block (`ConfirmedTookEffect` has the list per call).
- Deposits go to the escrow resolved at boot, also after the owner has moved the network
  to another one.
- Epoch numbers start over with the process, so batches of an earlier process are
  overwritten, while `docs/sparkl-node1.md:509` names "Epoch audit log" as a purpose of the
  store; `BatchesOnSchedule` says exactly which survive.
- `GET /identity` reads the snapshot before its own refresh: the two halves of its answer
  may disagree. Its `&e[..200]` (`server/identity.rs:163`) slices bytes and panics when
  that is not a character boundary.
- An empty report hash is not published, so the proof of an earlier one stays on chain.
  The heartbeat's `watch()` has no timeout.
- The reconnect delay is never reset by a connection that worked, and its jitter takes
  the sleep up to a quarter beyond `reconnect_max_secs` (`DelayBounded`).
- A router that vanishes without closing is not noticed until the kernel gives up on
  something the node sent (`connect.rs:100`): an idle tunnel may stay dead for good. An RPC endpoint
  that accepts and never answers leaves an activation unanswered (`activate.rs:66`).
- The module comment of `server/` says the stubs answer 501; they answer 200 with JSON.

- `SettlementEscrow.sol:56` describes `internalCirculating` as user balances, locks
  and provider balances; protocol fees are in it too (`CirculatingConserved` has the
  four terms), and `withdrawProtocolDot` also lowers it.
- `RateSetter.sol:16` gives 117_647_058_823_529 as the `dotPerUsdc` of a DOT at $8.50; its
  product with 8_500_000 is about 1e21, so `setRate` refuses the pair, whose product must
  be near 1e24. The stored value is DOT per whole USDC, as `getDotForUsdc` reads it.
- `ModelPriceOracle.delistModel` before any default price makes `getEffectivePrice` revert:
  open sessions on that model cannot be metered until a price is set, though they can be
  settled (`NoPrice` in the escrow model, `EscapeHatch`).
- `ProviderRegistry.sol:309` says the order of an operator's nodes matches
  registration; a purge moves the last id into the gap.
- `purgeDefunctNode` does not look at `providerBalances`: what is left there belongs
  to whoever registers the id next.
- A queue place is lost when a waiting request is dropped (`capacity.rs:108`), and
  the second of two releases before a waiter runs leaves no permit;
  `QueuePlacesAccounted` and `SleepersHaveWaker` say how far each goes.
- Completed sessions are not reloaded after a restart (`session.rs:239`), so the
  node no longer settles them; `CompletedGetsSettled` excludes restarts.
- With router metering a session settled before the router's report is refunded in
  full; `ProviderPaid` is about metering by the node.
- `server/auth.rs:57` binds `_sk_token` and line 89 reads `sk_token`: with the feature
  `evm-settlement` this does not compile as it stands. The model follows the
  evident intent.
- When no TEE quote can be made the log says "falling back to best-effort"
  (`server/inference.rs`), but the session keeps the configured tier.
- `store.rs` prunes any session ended 30 days ago, settled or not.

## Abstractions

- One token costs one unit in `NodeSettlement`; prices and fees are in the escrow.
  `tokens_input` is never written by the node.
- The order in which pending transactions are mined is free. The node has one
  sender per role, so the real order is more restricted.
- The block gate is an arbitrary yes or no per tick when it is configured, and yes
  some time.
- Writes to the local store succeed; their results are dropped by the code.
- Mining order is by nonce in `EscrowWallet` and free in `RegistryClient`, where a
  transaction sent again may overtake the one whose answer was lost.
- `identity-meta.json` labels the source of the randomness; a torn one only refuses a
  boot and is left out.
- Pings of the router are answered on the same socket and leave no trace.
- The sleeps of the tunnel are in quarters of a second, the grain at which the jitter
  reaches its bounds.
- Every request of `ModelAdmission` in the `admission` run is for a limited model:
  an unlimited one returns before it touches a counter.
- The configuration is the same after a restart.
- uint256 is unbounded; the one narrowing conversion, `uint64` of the recorded token
  counts, keeps its width. The bounds named `Max…` cap behaviours for TLC and are
  arbitrary in the proofs.

## Not modelled

- Cryptography and byte formats: key derivation and encryption, signatures and EIP-191
  headers, quotes, certificates and receipts (`attestation/verify.rs`,
  `tee_verification.rs`, `crypto` parts of `identity.rs`). Stateless, and what matters of
  them (injective, unforgeable) is an assumption. The vendors' quote checks are
  placeholders that return a constant.
- Read-only HTTP views and the model catalogue: no state.
- libp2p discovery: a third-party swarm that feeds the table of the health endpoint.
- Configuration beyond the settings the start depends on: plain values.
- The price oracles' own listing and staleness: a model of the escrow sees every
  answer they can give, a price, a rate or a revert, change between any two calls.
- A failing local disk: the result of every write is dropped by the code, so memory
  and disk may differ in any way afterwards.
- Deployment scripts and tests.

## Plan

Done: all components above, and a theorem for every safety property of the runs and
both refinements.

Next: the configurations of the wallet, clock and attestation that the `services` run
keeps apart; the price oracles as a component of their own; lemmas towards liveness
that need no fairness, such as the absence of a state in which every request sleeps.
