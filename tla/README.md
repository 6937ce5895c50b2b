# A TLA+ verification of lanecove-tunnel

lanecove-tunnel is a layer 3 overlay network: each node (peer or relay) runs one
process that carries IP packets between a TUN device and encrypted UDP
datagrams. The repository also carries `rcunit`, the unit-test library its tests
are written with. This directory models the parts of both whose correctness
depends on order, timing or long histories, checks the models with TLC on small
instances, and proves the main invariants with TLAPS for every instance.

Paths below are relative to the repository; `peer.c`, `common.c` and `common.h`
are in its `src/` directory, the files `rcunit*` in `rcunit/src/`.

## The system

**Components.**

| Part | Code | State |
|---|---|---|
| Replay window of a session | `check_replay` (common.h) | highest number seen, 2048-bit map |
| Session table | `sessions`, `alloc_session`, `session_init`, lookups (peer.c) | up to 64 sessions: peer, address, keys, times, the rekeying mark |
| Pending outbound handshakes | `pending_hs`, `initiate_outbound_handshake` | up to 64 entries: peer, address, time |
| Housekeeping thread | `housekeeping_loop` | a periodic pass: reconnect and rekey, timeouts, expiry, keepalives |
| Worker threads | `worker_loop` | none of their own; each handles one packet at a time |
| Handshake | `handshake_client_send`, `handshake_client_recv`, `handshake_server_respond` (common.c) | ephemeral keys |
| Threads and locks | `table_lock` (readers/writer), `hot_lock` per session, `stop_flag`, two blocking descriptors | who holds what |
| Routing | `parse_cidr`, `route_lookup`, `check_allowed_src` | the routes of each session |
| Configuration | `load_config`, checks in `main` | a six-state YAML event automaton |
| Crypto, key files, TUN device | common.c | none |
| rcunit: lists, memory tracing | rcunit_list, rcunit_mtrace, rcunit_mem | rings of nodes; tables of allocated pointers |
| rcunit: test database | rcunit_registry, rcunit_module, rcunit_function, rcunit_assert | registries of modules of tests, failure records |
| rcunit: test machine | rcunit, rcunit_machine, rcunit_exception | run context and level, counters, stack of exception frames, signal actions |

**Interactions.** A worker that receives a packet of a handshake's size takes
`table_lock` for writing. It matches the packet with a pending handshake by
address, or else treats it as an initiation: cooldown by address, answer,
allowlist, cooldown by key, slot, `session_init`. A worker that receives a data
packet takes the lock for reading and works on the session under its
`hot_lock`: decrypt with the current or the previous key, replay check, source
check, relay or TUN. The housekeeping thread holds the lock for writing over
its whole pass, blocking DNS lookups included. Both kinds of thread read the
clock *before* they wait for the lock.

`load_config` fills the list of peers and their prefixes once, before any thread
starts; `session_init` copies a peer's prefixes into its slot, and from then on
`route_lookup` and `check_allowed_src` read them there.

In `rcunit` everything runs in one thread. What interleaves is the runner and the
functions it calls: a setup, test or teardown may leave at any point by a
`siglongjmp`, from a failed assertion, an `RCU_THROW` or a signal.

**What is hard.** Any order of handlers and passes; clock readings older than
the state they are compared with; answers that are late, duplicated, lost or
refused; two handshakes between the same two nodes at once; addresses that
change or are taken over; a table at its limit; a bitmap shifted in place;
several threads that forward to one session or receive copies of one packet; a
parser that keeps no stack of what is open; tests that are aborted at any point,
and memory that runs out while the failure is recorded.
`PROJECT.json` lists each such hazard at its line.

## Modules

| Module | Models |
|---|---|
| `AntiReplay` | what `check_replay` promises: a set of accepted numbers, no bitmap |
| `Replay` | `check_replay`, one step per iteration of its loop, and the reset by `session_init` |
| `Sessions` | the session record, the lookups, `alloc_session`, `session_init`, as operators |
| `SessionTable` | one node: table, pending handshakes, housekeeping pass, worker handlers, clock |
| `Tunnel` | two nodes and the network: handshakes, keys, data packets, restarts, address changes |
| `Threads` | the threads of one process: every lock, every access between two locks, waiting for packets, shutdown |
| `Routing` | `parse_cidr`, `route_lookup`, `check_allowed_src` and the relay decision, as operators |
| `Config` | `load_config` on the events of a YAML file, the checks in `main`, the sessions that use the prefixes |
| `Lists` | `rcu_list`, as operators on links |
| `PointerCache` | the allocation tracing of `rcu_malloc` and `rcu_free`, as operators |
| `TestDatabase` | registries, modules, tests, failure records: creation, registration, destruction, as operators on a heap |
| `TestMachine` | a client of `rcunit`, the runner, assertions, exceptions and signals |
| `MCReplay`, `MCSessionTable`, `MCSessionTableLive`, `MCTunnel`, `MCThreads`, `MCConfig`, `MCTestMachine` | instances for TLC |
| `Replay_proofs`, `SessionTable_proofs`, `Tunnel_proofs`, `Config_proofs`, `TestMachine_proofs` | theorems on these modules and their proofs |
| `ThreadsLocks_proofs`, `Threads_proofs` | the theorems on `Threads`: lemmas on types and locks, then the invariants |
| `NatFacts` | induction, functions given by a recurrence, powers of two and division: lemmas the proofs share |

### Replay

A word of the window is the set of positions of its 1 bits; the number of words
and of bits per word are constants. `StartShift`, `ShiftWord` and `FinishShift`
are the branch for a new highest number, one step per loop iteration, because
the loop overwrites the array it reads. `JumpAhead`, `TooOld`, `Duplicate` and
`InWindow` are the other returns. The caller holds `hot_lock`, so nothing
interleaves with the loop. `accepted` and `verdict` are history variables. The
numbers are naturals, not 64-bit words: `check_replay` only compares and
subtracts a smaller number from a larger one, which cannot wrap.

### SessionTable

`sess`, `slots`, `pending`, `lastAttempt` are `sessions`, `session_slots`,
`pending_hs` and the `last_attempt` of the configured peers; `hk` is the
housekeeping thread with its clock reading. A worker handler is one step, since
it holds `table_lock`. The pass is one step per configured peer (`HkSkip`,
`HkInitiate`, `HkInitiateFails`), then one per sweep (`HkExpirePending`,
`HkExpireSessions`, `HkKeepalive`); the clock may advance between these steps,
and no worker handler runs.

The environment is arbitrary: any address sends anything at any time, any send
fails, DNS answers any address. The outcome of the handshake's cryptography is
therefore a choice (`CompleteOutbound` or `FailOutbound`; `InboundHandshake`
with any public key). `t` is the worker's clock reading, at most `MaxLag` old.
`initiate_outbound_handshake` reads the clock twice, for the attempt before it
sends and for the entry after it: `AttemptClock` is the earlier reading, at most
`SendLag` before the later one.
Early returns that change nothing are stutters.

Left out of the record: `send_seq`, the replay window (module `Replay`), the
routes, `rekey_deadline` (never read) and `is_outbound` (only printed). The
several calls of `time(NULL)` inside one worker handler return one value.

### Tunnel

`sess`, `pend` and `precomp` are, per node, its one session slot, its pending
handshake and its pre-generated ephemeral pair. Key pairs are numbers, and a
session key is the initiator with the two pairs it was derived from, so equal
keys mean equal handshakes. `net` holds every datagram ever sent. A handler may
receive any datagram addressed to the node's present address, any number of
times or never: this is loss, delay, reordering and duplication at once. Sends
that fail are datagrams that nobody receives.

A handshake packet goes the way of the code: `RecvAnswer`, `RecvBadAnswer` or
`RecvCrossing` if its source is the address of the pending handshake, else
`RecvInitiation`, which answers, refreshes the pair, and then lets the key's
cooldown decide. Deadlines have no clock here: `HandshakeTimeout`,
`CooldownEnds`, `GraceEnds` and `Expire` happen at any time, which includes what
any choice of the timings allows. Two things are taken over from `SessionTable`:
a node has at most one handshake pending with its peer (`OnePendingPerPeer`,
which needs `ReconnectInterval >= HandshakeTimeout + SendLag`), and the mark `rekeying` is
only set while one is pending (`RekeyingHasPending`), so it is left out. DNS
always answers the peer's present address.
The replay window is the set of numbers seen, which `Replay` proves it to
implement. The process restarting (`Restart`) and a NAT changing a public address
(`Rebind`) come from outside the program.

### Threads

`SessionTable` and `Tunnel` take a handler for one step because it holds
`table_lock`; `Threads` is where that is justified. Each thread has a label
(`pc`), the slot it works on (`at`) and the number it has read (`num`). The labels
separate lock and unlock, and inside a lock the read from the write where another
thread could come between if the lock were not held: `FwdSeq` and `FwdSeal` for
`send_seq`, `DataOpen` and `DataMark` for the replay window, `InitAddr` and
`InitKey` for the fields `session_init` writes. `HotBriefly` is a `hot_lock` taken
for the copy or assignment of one field; it only asks that the lock is free.

What the packets contain, what the clock says and which route is chosen are
choices here; a session's address and key are represented by the peer they belong
to. `events` is what `epoll_wait` returned: it may name a descriptor whose packet
another worker takes first, and then `ReadTun` and `RecvUdp` wait, since the
descriptors are blocking. `WorkerFails` is every `goto done` of `worker_loop`.
`TableReads` and `TableWrites` say which memory of the table a thread touches at
its label: the fields under `table_lock` together, and per slot the address and the
other fields under `hot_lock`. The code departs twice from the rule that the latter
are touched under `hot_lock` only: `find_session_by_addr` reads the address, and the
expiry reads `last_seen` (peer.c:665). `Reads` and `Writes` add what the log macros
share, the static buffer of `log_timestamp` and the result of `localtime`
(common.h:43-48).

### Config and Routing

The automaton's actions `CaseRoot` to `CaseAllowedIpsSeq` are the cases of the
`switch` in `load_config`, each on one event. The events come from `YamlDocument`,
`YamlKey`, `YamlValue`, `YamlOpen`, `YamlPeer`, `YamlItem`, `YamlAlias` and
`YamlClose`: libyaml on any stream of documents, with what is open in `nest`. Beside
the automaton, `want` is what the nesting means. `foreign` becomes true when a list
or a mapping stands where the format has none, when a document is a list, and at an
alias. The automaton does not skip the former and takes no notice of an alias, so
that it then reads a key as the value of the key before; what it stores from there
on is compared with nothing, but it must stay inside its arrays. `LoadsTheFile` is
therefore about files without aliases; the repository's own examples have none. `Main` is
the checks in `main` and the number of workers. `Connect` and `Expire` are the
sessions' share of `session_init` and of the housekeeping pass, so that
`RouteLookup` meets slots with and without sessions, in any order. Its two loops are
`ScanSlots` and `ScanRoutes`, the best slot after each iteration. `SlotsFor` is
`alloc_session`: a peer's own slot; if it has none, the slot of any session, since
which one holds the peer's address is not modelled here, or a free one. An address has
`Width` bits, 32 in the code; scalars are abstract values of which the model knows
whether `atoi`, `hex_to_bytes` or the resolver accept them.

### rcunit

A heap is a record of the links, of what each block holds, and of the pointer
cache; the functions of the library are operators from heaps to heaps. A block has
up to three list nodes: its link, the list of its children, the list of its failure
records. The three members of `the_test_machine` itself are blocks that `malloc`
never returns. `rcu_malloc` fails when the `PoolSize` blocks are in use, and the
pointer cache cannot grow past `MaxTables` tables.

In `TestMachine`, while `pc` is `"idle"` the client calls the interface: it
registers, destroys, runs all tests, a registry or a module, or asserts. A run
passes through the loops of `rcu_run_tests_impl`, `rcu_run_test_reg_impl`,
`rcu_run_test_mod_impl` and `rcu_run_test_func_impl`, one iteration or one called
function a step. While `pc` is `"call"` a function of the client runs, which may
assert, open `RCU_TRY` blocks, throw or receive a signal. `frames` is the stack
under `g_curr_excp_frame`, each with the signal action it will restore. `calls`,
`ended`, `hooks` and the fields `solo`, `lost`, `ops` and `faults` of `mach` are
history or bounds.

Some of what the library does is worth knowing when reading a report, and the
properties are stated so that they hold with it:

* A failed assertion in a fixture of a test always sets `destroy_failed`: the
  comparison at rcunit_assert.c:64 is never true. The flag is never reset, so the
  test fails in later runs of the same machine too (`StatusRight`).
* A failed assertion in a module's fixture marks its tests as failed but does not
  count the module as failed, so `rcu_run_tests` may return `RCU_E_OK`; a signal
  there marks nothing (`Verdict`).
* The context of the last run stays set after `rcu_run_test_mod` and
  `rcu_run_test_reg`; a failed assertion after them throws without a frame. After
  `rcu_run_tests`, which destroys the machine, this cannot happen
  (`ThrowHasFrame`).
* `rcu_destroy_test_mod` does not delete failure records (`NoBlockLost` allows
  exactly these).
* `rcu_add_mod_to_reg` and `rcu_add_test_mod` do not ask whether the module is on a
  list already; the checks are compiled out. A client that adds a module it got from
  `rcu_get_mod` always breaks a ring, and the module's failure records are dropped
  (rcunit_registry.c:191-194). In the model `pc` is then `"tangled"`, and what
  happens next is left open, since a walk over such a list need not end
  (`RingsIntact`, `NoBlockLost`).
* A failed assertion that the test catches with its own `RCU_TRY` does not fail the
  test, although the user guide says that a failed assertion aborts the test and
  flags it (rcunit-user-guide.txt:116-118). A teardown that is ended by a signal or
  by an exception of the client does not fail it either, although the comment at
  rcunit_module.c:264-266 says that a failed teardown overrides the result
  (`StatusRight` says what decides it instead).
* Outside the model: an assertion that holds outside a run while the context of a
  test is left behind counts with the last test that ran, which may have been
  destroyed (rcunit_assert.c:75-88); and a failed assertion in a run hook throws
  where no block is open if the context of an earlier call is still set.
* `rcu_add_test_fxt_to_mod` adds to the default module whatever it is given.

## Runs

| Run | Checks | Result |
|---|---|---|
| `replay_window` | `TypeOK`, `WindowExact`, `RefinesAntiReplay` | holds |
| `session_table` | `TypeOK`, `OneSessionPerPeer`, `AllocNeverFails`, `RekeyingHasPending`, `OnePendingPerPeer`, `CooldownRespected` | holds |
| `session_liveness` | `RekeyingEnds`, `KeepsTrying` | holds |
| `tunnel` | `TypeOK`, `DeliveredOnce`, `AnswerMeansSession`, `SequenceUnique`, `SwitchoverSafe` | holds |
| `threads` | `TypeOK`, `TableRaceFree`, `LockOrder`, `NumberCurrent`, `AcceptsOnce`, `OnePrinter`, `SealedForPeer`, no deadlock | holds |
| `threads_shutdown` | `NoFdStarved`, `ShutdownEnds` | holds |
| `config` | `TypeOK`, `LoadsTheFile`, `InBounds`, `LongestPrefix`, `ReplyPath` | holds |
| `test_machine` | `TypeOK`, `RingsIntact`, `NoBlockLost`, `CacheExact`, `ThrowHasFrame`, `CallsInOrder`, `StatusRight`, `Verdict`, `HookBrackets` | holds |
| `doc_shared_state` | `SharesOnlyTheTable` (comment, peer.c:706-708) | violated: the log macros of all threads write one static buffer (common.h:44) |
| `doc_tie_break` | `HigherKeyWins` (comment, peer.c:827) | violated: a crossing initiation is taken for an answer, and ends the pending handshake of either side |
| `doc_same_key` | `KeyAgreed` (README.md:209-228) | violated: the answer is sent before the key's cooldown can refuse the session |
| `doc_dns` | `DnsStallsNobody` (comment, peer.c:601-602) | violated: the lookup runs with `table_lock` held for writing |

Four remarks of the documentation are not what the code does and need no run,
beside those on `rcunit` above. README.md:236 says that both sides keep the old key
for 90 seconds; the first packet under the new key drops it (peer.c:918), and
`SwitchoverSafe` shows that it is out of use by then.
README.md:49 says reordered packets are rejected; those inside the window are
accepted, as `AntiReplay` says. The comment at common.h:58 speaks of a window of
1024 numbers; it has 2048. The comment at peer.c:604-605 says that only one thread
ever calls `print_sessions`; workers call it after `session_init`.
`OnePrinter` shows that two reports still never mix.

**Bounds.** `replay_window` has three words of two bits and numbers 0 to 10.
The window has six bits, so every shift distance from one bit to a full clear
occurs, on and off word boundaries, as does every distance behind the highest
number; three words are the fewest with a first, a middle and a last one.

`session_table` has two slots, two configured peers (one of them with an
endpoint), one unknown peer and two addresses: enough for address changes,
takeovers of another peer's address, and a full table. The thresholds are one
to three ticks. The cooldown is two, so that a session can be younger than it at
a later tick. `ReconnectInterval >= HandshakeTimeout + SendLag`, with a `SendLag` of
one tick, as in the defaults; `main` does not enforce this, and
`OnePendingPerPeer` needs it. The clock is not bounded in effect: handlers only
compare timestamps with the clock, and `ClockView` turns timestamps into ages
cut off past every threshold, so TLC covers all reachable states up to a shift
of the clock. `MaxPass` bounds how long a pass lasts and `MaxLag` how stale a
worker's reading is. The view leaves out `lastSent` and the previous key: they
decide only how they change themselves, and no property of this run reads them.
The addresses are symmetric.

`session_liveness` has one peer and one address, a clock up to `Horizon`, and
no view. Its properties ask for nothing that lies past the horizon; the system
stops there, so deadlock is not checked.

`tunnel` has two initiations, by either node; up to two answers per node, so
that a duplicated initiation is answered twice; one packet per key and
direction, since a repeated key repeats number 0; and one fault (a restart, an
address change, or a failed `refresh_precomp_eph`). Faults do not combine in
this run. The nodes are symmetric. The bounds make the system stop, so deadlock
is not checked. `DeliveredOnce`, `SequenceUnique` and `SwitchoverSafe` promise
nothing after a failed refresh, which reuses a pair. `AnswerMeansSession` and
`SwitchoverSafe` promise nothing after an address change. `doc_same_key` shows
why the first cannot. For the second: a node's initiation from a new address
does not end the handshake its peer has pending with the old one, so a late
answer can still bring the older key back.

`DeliveredOnce` is about packets under the current key. Packets under the
previous key have no replay check, as the README says, and are not counted.

`threads` has two workers, two peers and two slots: enough for a relay from one
session to another while a third thread forwards to either, and for a slot that
changes its peer. `send_seq` counts modulo two, so it wraps; one number can
arrive, which is what two copies of a packet need; one packet waits on each
descriptor. Threads do not end in this run; workers and peers are symmetric.
`threads_shutdown` lets signals and failures end threads, with one peer and one
slot, since its properties are about waiting and not about sessions. A worker that
is `Blocked` in a read does not see the stop request, so that `start_peer` may wait
for it until a packet comes: `ShutdownEnds` says that this is the only way.

`config` has addresses of two bits, up to two peers and two prefixes each, so both
limits are reached and exceeded. The prefixes are one of length 0, one host route
and one with a length out of range; values come valid and invalid for each kind of
key, among them the empty interface name and a timing of 0. Lists, mappings and
aliases may stand anywhere, nested up to `MaxNest`, four deep, which is as deep as
the format goes; inside a collection the format does not have, the scalars are
`Loose`, among them the words the automaton reacts to. `PhaseView` leaves out the
parser's state once the sessions run, and everything after an exit.

`test_machine` has one module and one registry name beside the default ones, five
blocks and four slots in the pointer cache, so that memory runs out before the
cache and after it; up to three calls of the interface and two faults between
`rcu_init` and a run of all tests, four together; and one `RCU_TRY` inside the
runner's. The machine is initialised again after each run, so lives of the machine
follow each other. A failed assertion without a frame ends the program, and the
model ends when a module was added twice, so deadlock is not checked.

**Fairness.** `LiveSpec` assumes weak fairness of the clock and of the
housekeeping thread. The thread only sleeps for a second at a time, and waits
for `table_lock`, which workers hold for the handling of one packet. The
assumption includes that the lock is eventually granted: the default
`pthread_rwlock_t` of glibc prefers readers, so it excludes a stream of data
packets so dense that a reader always holds the lock. No fairness is assumed of
workers or of the network.

`FairSpec` of `Threads` assumes weak fairness of each thread: a thread that can
run does. It says nothing of the order in which a lock is handed out, and nothing
of arriving packets; a thread that waits for a lock which others take again and
again may wait for ever. `ShutdownEnds` holds all the same, because after the stop
request each worker finishes its events and ends.

## Proofs

TLAPS checks these for every value of the constants that satisfies the named
assumptions (`MaxPeers`, `CfgCount`, the timings and so on are what `load_config`
and `main` accept; `StartTimeAssumption` says the clock is not near the epoch;
`KeysAssumption` of `Config` that the value which stands for "no key" is no key).
The bounds of `Tunnel` are arbitrary (`BoundsAssumption`), so its theorems cover any
number of handshakes, packets and faults, in any combination.

* `WindowTyped` and `WindowCorrect`: `Spec => []TypeOK` and `Spec => []WindowExact`.
  The inductive invariant is `Inv`, which adds `HighestBounds`. `WindowExact` speaks of the array in
  the middle of the shift: words the loop has passed are relative to the new
  highest number, the others to the old one. The core is the lemma
  `ShiftedWordExact`: bit `b` of the word stored at `k` comes from position
  `k * WordBits + b - diff`, whatever way the distance splits into words and bits.
* `ReplayRefinesAntiReplay`: `Spec => RefinesAntiReplay`. Loop steps are
  stutters; the other steps follow from `Inv` through the lemma `BitTest`.
* `TypeCorrect`, `SessionsUnique`, `TableNeverFull`, `RekeyingPending`,
  `CooldownHolds`, `OnePending`: the safety properties of `session_table`.
  `OneSessionPerPeer` is inductive together with `TypeOK`:
  only `session_init` activates a slot or changes its peer, on the slot that
  `alloc_session` chose, and that is the peer's own slot or the peer has none.
  `AllocNeverFails` follows by the pigeonhole principle: a full table would hold
  `MaxPeers` different configured peers other than the one that asks.
  `RekeyingHasPending` needs uniqueness: what ends a pending handshake clears
  the mark of the one session it finds by key, and there must be no other.
  `CooldownRespected` needs that an active slot chosen by `alloc_session` was
  found by key or by address, the two lookups whose cooldown was checked.
  `OnePending` assumes `ReconnectInterval >= HandshakeTimeout + SendLag`. Its
  invariant is `PendingInv`: an entry is at most `SendLag` newer than the last attempt
  at its peer, so the attempt that makes a second entry finds the first one timed
  out, and the sweep of the same pass removes it before the lock is released.
* `ThreadsTyped`, `NoTableRace`, `LocksOrdered`, `PrintsApart`,
  `NumbersExclusive`, `CopiesAcceptedOnce`, `SealsForPeer`: the safety properties of `threads`, for any
  set of workers and any number of slots, peers, numbers and queued packets. They
  follow from one inductive invariant, `Inv` of `Threads`. Its core is `LockInv`:
  a thread's label says which locks it holds, and the reverse. The lemmas
  `WriterAlone` and `HotAlone` turn this into exclusion: while one thread is at a
  label of the write lock no other is at a label of either lock, and no two threads
  are at a label inside the same `hot_lock`. `SessionInv` adds that a session is
  wholly that of one peer unless `session_init` is at work on it, and that a packet
  is forwarded to an active session. Every action falls under one of three lemmas:
  it changes no session (`QuietStep`), it changes one under the write lock
  (`WriterStep`), or it changes the fields of one under its `hot_lock` (`HotStep`).
  `PrintsApart` needs that workers print only under the write lock.
* `NoStarvation`: `Spec => []NoFdStarved`, for any number of workers. The invariant
  is `EpollInv`: if nothing waits on a descriptor, some worker has no event for it
  left. The worker that takes the last packet is one, since `epoll_wait` names a
  descriptor once; and a worker gets an event only while a packet waits.
* `TunnelTyped`, `NoneTwice`, `NumbersUnique`, `AnswersInstalled`,
  `SwitchoverHolds`: the properties of `tunnel`, `NumbersUnique` and `SwitchoverHolds`
  as theorems about steps. The inductive invariant is `Inv` of `Tunnel`. Its core is `KeysUsed`:
  both pairs of every key that was ever installed lie behind the counters that pairs
  are drawn from, so a key is installed at most once and the restart of the numbers
  and of the window by `session_init` repeats nothing (`NumbersUsed`). It is stated
  only while no refresh has failed. `AnswerMeansSession` is inductive with
  `AddressInv`: at fixed addresses the cooldown by address and the cooldown by key
  look at the same session. `SwitchoverSafe` needs `SwitchInv`, a statement about
  answers on their way: while the peer's answer to `n` is under way and `n` still
  waits for it, the peer has left the key that `n` uses, and `n` has answered no
  handshake of the peer's that is still pending. Without the last part two crossing
  handshakes could each leave the other's key behind.
* `ConfigTyped`, `FileLoaded`, `ArraysSafe`: `load_config` for every file, with any
  limits and any depth of nesting; `FileLoaded` promises something as long as no
  alias and no misplaced collection was met. The invariant is `Inv` of `Config`;
  `InStep` says which state of the
  automaton and which pending key belong to which nesting. The automaton keeps no
  stack, so this holds only until `foreign` is true; `InBounds` is
  inductive without it, because every case checks its limit before it writes and
  `peersSeq` is the only way into a peer.
* `LongestMatch`, `AnswersRouted`: `route_lookup` and `check_allowed_src` for any
  width of addresses, any slots and any prefixes that `parse_cidr` makes. `MaskSpec`
  and `MatchesCovers` turn the test with the mask into equality of the leading bits,
  by division by a power of two. `ScanRoutesSpec` and `RouteLookupSpec` are the loop
  invariants, by induction on the iterations.
* `ThrowsCaught`, `HooksBracket`: the control of a test run, for any heap the library
  builds and any depth of `RCU_TRY`. The invariant is `ControlInv`: the frames are the
  runner's below the client's, each with the signal action it replaced (`FramesInv`);
  a frame is there exactly while a function of the client runs; the context is left
  behind only by a run of a single module or registry (`LevelInv`); and the place of
  the runner says how often the hook has been called (`HooksInv`).
* `InsertKeepsRings`, `RemoveKeepsRings`, `RemoveTwice`: what `rcu_insert_list` and
  `rcu_remove_list` do to the links of any set of nodes. They are the two steps
  behind `RingsIntact`, the first for a node that is alone, which a module added a
  second time is not; the third says that unlinking a module twice, as
  `rcu_destroy_test_reg` does, is harmless in an intact ring.

Induction over data is stated in `NatFacts` about sets of numbers (`NatInduct`,
`IntervalInduct`), and `Recurrence` says that a function given by its first value and
a step exists; the provers can use both forms. What `route_lookup` computes is proved
with them.

Only model-checked: the liveness properties `RekeyingEnds`, `KeepsTrying` and
`ShutdownEnds` (liveness under fairness is outside the prover), and the properties of
`TestMachine` that are about the heap: `TypeOK`, `RingsIntact`, `NoBlockLost`,
`CacheExact`, `CallsInOrder`, `StatusRight`, `Verdict`. These need one invariant for
the whole heap, in which every list is the sequence of its entries; of that only the
steps on single links are proved.

## Not modelled

* **Two nodes for ever.** `Tunnel` does not say that the keys agree again after a
  lost answer or a half-open handshake: that is a liveness property of unboundedly
  many handshakes over a network that delivers again. A third node (a slot taken
  over by address keeps the other peer's key as its previous one) and faults that
  combine are past what TLC can enumerate with these packets.
* **Bytes.** AES-GCM, X25519, HMAC and the key files are OpenSSL and the file
  system; hexadecimal conversion and the packet layout have no state. `Tunnel` has
  the handshake symbolically.
* **YAML** with a list or a mapping as a key, or with a document that is one scalar.
* **The TUN device**, command-line parsing, logging, the shell scripts and the
  packaging are input and output.
* **rcunit:** the queue, the hash table and the thread wrappers, which the library
  does not use; random numbers, used only by a compiled-out test aid; error texts,
  log handlers, dumps and the layout of reports; the compaction of the pointer
  cache, compiled out; the assertion hook; the fields of sizes and statistics that
  are only printed.
