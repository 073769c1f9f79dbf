# Verification of the Sv2 CPU Miner

TLA+ models of the Stratum V2 CPU miner in this repository, TLC configurations
that check them on small instances, and TLAPS proofs of every invariant and every
refinement that those configurations check.
Paths below are relative to the repository root; the library is `src/lib/`, the
binary `src/main.rs` and `src/args.rs`.

- [Inventory](#inventory)
- [Modules](#modules)
- [Runs](#runs)
- [Bounds](#bounds)
- [Fairness](#fairness)
- [Proofs](#proofs)
- [What the code does not keep](#what-the-code-does-not-keep)
- [Not modelled](#not-modelled)
- [Plan](#plan)

## Inventory

One run of the program is one connection to one mining server.

| Component | State | Operations | Talks to |
|---|---|---|---|
| Binary and configuration (`main.rs`, `args.rs`, `config.rs`) | the configuration, the exit status | load and validate the configuration, run the client, Ctrl+C, shut down | starts the client, drops it on Ctrl+C |
| Client (`client/mod.rs`) | where `start()` is, the cancellation token | connect, handshake, request channels, handle one frame at a time, return; `shutdown()` from any clone | the connection's two queues; calls the registry's handlers |
| Common message handler (`client/common_message_handler.rs`) | none | accepts or refuses the reply to SetupConnection | called by the handshake |
| Channel registry (`channel_manager/`) | three maps: standard channels, extended channels, groups | one handler per mining message | owns the miners and calls them |
| Standard and extended channel miner (`miner/standard.rs`, `miner/extended.rs`) | the client channel behind a read-write lock, the token of the current mining task, the single-submit token | take a job, a prev hash, a target, a verdict; replace the mining task | spawns mining tasks, which share the lock, the tokens and the sending queue |
| Mining task (`mine_job`) | its snapshot of job, tip and target; nonce and time | snapshot, look at the tokens, hash, validate, submit | the lock, the tokens, the sending queue |
| Throttle and hashrate measurement (`miner/mod.rs`, and the loop of `mine_job`) | the throttle window, the nonce and the time in the header | hash, sleep for the rest of the window, measure for a second; format a number for the log | the client advertises the figure |
| Errors (`error.rs`) | none | conversions | every handler; what `start()` returns |

What is hard about it:

- **Interleaving.** The handlers run one after another in the client's task, but
  every job ever activated on a channel has a task of its own on a multi-threaded
  runtime. A superseded task goes on until it looks at its token, and it can be
  between any two of its steps when the channel changes under it.
- **Snapshots.** A task compares hashes with the target, job and tip it read when
  it started; the channel decides again when it validates the share.
- **Cancellation.** Three tokens (of the client, of the current task, of single
  submit) are looked at in different places, by `select!` with random choice.
- **Protocol sequences.** Channels and groups share one space of ids; opening,
  closing, regrouping and new prefixes come in any order the server likes.
- **Broadcasts.** A frame for a group goes to its members one after another, by the
  client's maps; the server knows only what it has sent.
- **Time.** A task counts its work against a clock, sleeps where no token reaches it,
  and tells one header from another by a clock that may stand still.
- **Failure.** A panic under the lock poisons the channel; a coinbase that does not
  parse kills a task; the server may hang up, and the program may be shut down, at
  any await of `start()`.

What makes each component correct:

- registry: ids name one thing, groups list open channels and agree with them on
  the extranonce size, a channel is in one group, nothing but a regrouping moves it;
- miners: the task in charge hashes on the channel's active job, older ones stop,
  sequence numbers are never reused, no share is sent that its job is not worth or
  that was found on a tip the channel has left, no timestamp claims time that has not passed, a validated share is sent;
- registry and miners together: the channels, groups and work of the client are those
  the server has in mind, even when a broadcast fails half-way;
- throttle: a task keeps to its share, hashes no header twice and outstays its time
  by one sleep and one header at most;
- client: every way a run can end is reached, reported as documented and stops the
  mining; the requests fit the server's flags and carry distinct ids.

## Modules

| Module | Models | Correspondence |
|---|---|---|
| `ChannelManager` | `channel_manager/` | the variables are the three maps; one action per handler that changes them; `connection` says whether a handler has returned an error |
| `GroupMembership` | what the registry promises | open channels with a size, and a function from channels to groups; no group records |
| `MCChannelManager` | instance for TLC | id symmetry, and the mapping of the registry onto `GroupMembership` |
| `ChannelManagerProofs` | | lemmas, inductive invariants and theorems about `ChannelManager` |
| `MembershipProofs` | | `ChannelManager` implements `GroupMembership`, handler by handler |
| `ChannelMiner` | what `standard.rs` and `extended.rs` have in common | `channel` is the locked channel, `tasks` every task ever spawned with its program counter, `wire` the shares handed to the connection |
| `StandardChannelMiner`, `ExtendedChannelMiner` | what differs | the jobs taken and what a task needs before it hashes |
| `ChannelMinerProofs` | | `MinerSpec`, all that either kind may do, with its lemmas and its inductive invariant |
| `StandardChannelMinerProofs`, `ExtendedChannelMinerProofs` | | each kind implements `MinerSpec`; its theorems |
| `Connection`, `MCConnection` | the registry (an instance of `ChannelManager`), its miners and a server | `miners` has one entry per open channel, its work and whether its lock is poisoned; `handling` is the frame being passed on and the channels it has not reached; `view` is what the server knows from what it has sent |
| `ConnectionProofs` | | the composition runs the registry as `ChannelManager` says, and follows the server |
| `Throttle` | `miner/mod.rs`, and the pace of `mine_job` | one task, measuring or mining: `pc` is its place in the loop, `now` the clock, `window_start`, `nonce` and `ntime` as in the code; `headers` those hashed |
| `ThrottleProofs` | | lemmas and theorems about `Throttle` |
| `Client`, `MCClient` | `client/`, `main.rs`, `args.rs`, `config.rs`, `error.rs` | `phase` is where `new()` or `start()` is; `inbound` the frames not yet read; `main` the program around it |
| `ClientProofs` | | lemmas and theorems about `Client` |

**How steps are cut.** In the registry a handler is one action: the client handles
one frame at a time, and the handlers await nothing between their first read and
their last write of the maps. A message that is ignored (an id that names nothing, a
prefix the library refuses, a group that cannot be joined) changes nothing; its
condition is the negation of the action's guard and it is a stuttering step. In the
miners, a handler is two actions, the write under the lock and the replacement of
the task after it, because mining tasks run in between. A mining task is cut at each
lock, await and look at a token: `CheckSingleSubmit`, `Snapshot`, `Select`,
`Resume`, `HashHeader`, `ValidateShare`, `SubmitShare`, `FinishSingleSubmit`. In the
client, `start()` is cut at its awaits.

In `Connection` a handler that passes work on is one action for its lookup (`PassOn`,
with the channels found) and one `Reach` for each channel, because a task that panics
in between is what makes the next one fail. A group lists its members in hash order,
so `Reach` takes them in any order. No other frame is handled until the last is
reached. The server's frames arrive in order and nothing the model's server does
depends on what the client answers, so queues of frames would add no behaviour: a
frame is sent when it is handled. The server's `view` is computed from the frames
alone, without the three maps, which is what makes comparing the two worth while.

In `Throttle` a step is a pass from one look at the clock to the next: hashing a
header takes a tick, a yield takes up to `MaxDelay`, a sleep takes its length and up
to `MaxDelay` more. `mine_job` and `measure_hashrate` share the throttle's text and
so its definitions; they differ in how they end and in where `ntime` comes from.

**Data.** A prefix is its length. A job is an id, a min_ntime, the target it became
active under and whether its coinbase parses. Hashes and targets are numbers; a task
may find any hash. Nonces are left out: they only vary the hash. A frame in `Client`
is one that gives work, an extended job, one without effect, one never expected, one
that does not parse, or a handshake reply. A configured number or string is which
side of its limit it is on; the multiplier is a sign, or that of a NaN.

**External code.** `channels_sv2`, `stratum_apps` and tokio are not in this
repository. The `lib_` operators of `ChannelMiner`, and `from_wire_accepts`,
`group_takes` and `takes` of `ChannelManager`, say what the miner relies on. Where
the code relies on nothing, a constant decides: `PrefixResizes` (a channel takes a
prefix of another length), `ReusesIds` (a server reuses the ids of open channels),
`TipFirst` (a server announces a chain tip before an active job), `BadCoinbases`,
`LocksMayPoison`.

**Slips.** Some definitions have a sibling with a suffix, commented as a slip: the
same definition with a plausible mistake in it (a dropped lookup, a token not
cancelled, a counter per task). They are no part of any specification. Each property
below has one that breaks it; `PROJECT.json` pairs them.

## Runs

Run one with `tlc -config <cfg> <module>`; the configuration is named after the run.

| Run | Properties | What it shows |
|---|---|---|
| `ChannelManager_fresh` | `TypeOK`, `NamespaceDisjoint`, `GroupsListOpenChannels`, `OneGroupPerChannel`, `GroupSharesExtranonceSize`, `EveryChannelHasAGroup`, `OnlyRegroupingMovesChannels`, `ImplementsMembership` | with a server that gives every channel an id of its own, the three maps stay in step and behave as one membership function; where REQUIRES_STANDARD_JOBS forbids regrouping, every channel keeps its group |
| `ChannelManager_any` | `NamespaceDisjoint`, `GroupsListOpenChannels` | these hold even if ids are reused and prefixes change length |
| `Connection_run` | `TypeOK`, `RegistryFollowsTheServer`, `WorkFollowsTheServer` | with a server that keeps to the protocol, the client uses every channel it is given, groups it as the server does, and every channel has exactly the work meant for it, or is exactly the current frame behind, also after a broadcast that a poisoned lock has cut short |
| `StandardChannelMiner_run` | `TypeOK`, `AtMostOneLateShare`, `NtimeWithinClock`, `SharesMeetTheirJob`, `CurrentTaskMinesActiveJob`, `OldSharesAreDropped` | a clock and a chain tip that move, targets that change, tasks replaced at any point of a share's life: shares are honest about their time, also at the top of the u32 range, worth their job, found on the tip that they are accepted on, and at most one comes late from each superseded task; the task in charge works on the active job |
| `ExtendedChannelMiner_run` | `OneSharePerTask`, `SequenceNumbersUnique`, `OnlyCurrentTaskGoesOn`, `CancelledTasksFinish`, `ActiveJobIsMined`, `ValidatedSharesAreSent` | with and without single_submit, panics under the lock, a channel whose coinbases may not parse and whose server may skip the chain tip: no task submits twice under single_submit, none under a number already used, old tasks are told to stop and do, the next job is hashed on, a validated share is sent |
| `Throttle_run` | `TypeOK`, `KeepsItsShare`, `HeadersAreNew`, `MeasurementIsShort`, `CancelledTaskIsGoneSoon`, `TasksEnd` | every share of a window, 0 and more than all of it included, in builds with and without arithmetic checks: the measurement and the mining loop keep to their share over any number of windows, hash no header twice, and end in time |
| `Client_run` | `TypeOK`, `RequestsSuitTheServer`, `RequestIdsUnique`, `OkEndsARun`, `ExitStatusIsTrue`, `ConfigIsSafe`, `ShutdownReturns`, `ClosedConnectionEndsTheRun`, `CancellationStopsMining` | the binary, and a program that embeds the library without validation and calls `shutdown()` at any time: requests, errors, exit status, and the end of the run from the measurement on |

Five more runs end in a counterexample; see
[What the code does not keep](#what-the-code-does-not-keep).

Deadlock is checked in every run: a run that is over stutters in an action of its
own (`Returned`, `Terminated`, `Exited`, `Stopped`, `Silent`), whose guard says when that is legitimate.

## Bounds

- `ChannelManager`: four or five ids for channels and groups alike. Five allow two
  groups with three channels between them, or one group of four: a channel moves
  between groups, a group loses its last member, an id changes its role. Prefix
  lengths 1 and 2, and 3, which `from_wire` refuses; a rollable part of 0 or 1, so
  that a standard and an extended channel can agree or differ in size. The runs with
  fresh ids use five; the one with reused ids and resized prefixes uses four, since
  every pair of kinds and roles of one id is then reached with two channels and two
  groups.
- Miners: `MaxTasks` of 2. Tasks interact through the channel and the wire only, so
  two are enough for a task and its successor; the theorems are about any number.
  `MaxShares` of 2 bounds the winning hashes, which is one share of each task, or two of
  one. `MaxJobs` of 2 covers a future job and an active one, and two `MaxTips` a tip that
  moves between a share's hash and its validation. A min_ntime of 0 or 1 with `MaxNtime`
  and `MaxClock` of 1 reaches saturation, and a task that starts later than its job
  became active. `MaxVerdicts` bounds counters that no guard of the code reads. One hash
  in each run is too weak for every target, so that a task always has a next step. No
  state constraint is used: a bounded action is disabled, never left half-way. The two
  kinds share `ChannelMiner`, and split the questions: the clock, the targets and the
  tips are in the standard run, the panics, single_submit and liveness in the extended
  one.
- `Connection`: four ids for three channels, two standard and one extended, which
  leaves room for one group of all three, or groups of two and one in turn; two jobs,
  future or active; two targets; one lock poisoned at any time, in or out of the
  broadcast. A prefix of 1 with a rollable part of 1 makes an extended channel as
  large as a standard one of 2, so that groups mix kinds. A server that keeps to the
  protocol never reuses the id of an open channel; it may reuse that of a closed one.
- `Throttle`: a window of 4 ticks for the code's 100 ms, and every share from 0 to 5
  of it; `ntime` advances every 3 ticks, and three nonces are what 2^32 is to a
  second: enough to last for it and no more (`ThrottleAssumption`). `MaxNtime` of 2
  is reached by the clock and by the measurement's own counter, so both ways of
  running out happen. A measurement of 10 ticks takes three windows. `MaxTime` stops
  an uncancelled mining task; past it only the cancellation is left.
- `Client`: a few valid configurations, and one for each rule of `validate()` that it
  breaks, each for the binary and for a program that embeds the library; two frames
  waiting, so that a violation can arrive behind a frame that starts mining.

Symmetry is used for the ids of `ChannelManager` and `Connection`, in runs that check
invariants and action properties only.

## Fairness

Runs without a liveness property use `Spec`, without fairness. The others use
`FairSpec`:

- weak fairness of each mining task's next step: tokio polls every spawned task, and
  each step ends (a sleep ends, the lock is held for a bounded time, and the
  connection drains its queue or closes it, so a send completes);
- weak fairness of `respawn_mining_task` and `LoopEnds`: a handler runs to its end,
  and `start()` is polled;
- weak fairness of the throttled loop (`Run`): the runtime polls the task whenever it
  can go on, and the clock moves, so a sleep ends;
- weak fairness of `start()` at every await but those of `Connect`, of the tasks'
  stopping and of `main`'s steps;
- weak fairness of `Connect`, and of the connection's end (`LinkCloses`), once the token
  is cancelled.

`Connect` stands for two awaits, the TCP connect and the Noise handshake
(`client/mod.rs:60-67`). A server that accepts the socket and never answers the
handshake may keep `start()` in it for ever, and the models let it. Only cancellation is
relied on to end it: what is left of the TCP attempt the operating system bounds, and the
Noise wait ends because `Connection::connect` is handed the token (line 65) and the
external crate looks at it, during the handshake as afterwards. `start()` itself looks
at no token before its loop, so `ShutdownReturns` rests on that crate until then.

Nothing is assumed about the server: it may say nothing for ever. Nothing is assumed
about which ready branch `select!` picks, with one exception read from the code:
on the first poll of a task's `select!`, `yield_now` is pending, so a token already
cancelled is seen. This is what makes `CancelledTasksFinish` hold without strong
fairness, and what bounds late shares.

## Proofs

Seven modules prove theorems, for every value of the constants, and
`ChannelMinerProofs` holds what the two about miners share. The named assumptions on
the constants (`RegistryAssumption`, `ConnectionAssumption`, `MinerAssumption`,
`ThrottleAssumption`, `ClientAssumption`) are all that is assumed beyond the last
column; TLC evaluates them in the runs. `ReusesIds` and `PrefixResizes` are the
constants that say what a server and the channel library may do. The code takes both to
be false and checks neither; `ChannelManager_reused_id` shows what the first one does.

| Theorem | Property | Assumes |
|---|---|---|
| `ChannelManagerProofs!TypeCorrect` | `TypeOK` | |
| `NamespaceStaysDisjoint` | `NamespaceDisjoint` | |
| `GroupsAlwaysListOpenChannels` | `GroupsListOpenChannels` | |
| `AtMostOneGroup` | `OneGroupPerChannel` | `~ReusesIds` |
| `GroupsStayUniform` | `GroupSharesExtranonceSize` | `~ReusesIds`, `~PrefixResizes` |
| `StandardChannelsStayGrouped` | `EveryChannelHasAGroup` | `~ReusesIds` |
| `OnlyRegroupingMoves` | `OnlyRegroupingMovesChannels` | `~ReusesIds` |
| `MembershipProofs!RegistryImplementsMembership` | `ImplementsMembership` | `~ReusesIds`, `~PrefixResizes` |
| `ConnectionProofs!ConnectionDrivesRegistry` | `Registry!Spec` | |
| `PromisesHold` | `ImplementsMembership` and `OnlyRegroupingMovesChannels` of its registry | |
| `TypeCorrect` | `TypeOK` | |
| `RegistryFollows` | `RegistryFollowsTheServer` | |
| `WorkFollows` | `WorkFollowsTheServer` | |
| `ThrottleProofs!TypeCorrect` | `TypeOK` | |
| `ShareIsKept` | `KeepsItsShare` | |
| `HeadersStayNew` | `HeadersAreNew` | |
| `MeasurementStaysShort` | `MeasurementIsShort` | |
| `CancelledTaskIsGone` | `CancelledTaskIsGoneSoon` | |
| `ClientProofs!TypeCorrect` | `TypeOK` | |
| `RequestIdsAreUnique` | `RequestIdsUnique` | |
| `RequestsAlwaysSuit` | `RequestsSuitTheServer` | |
| `OkAlwaysEndsARun` | `OkEndsARun` | |
| `ExitStatusIsAlwaysTrue` | `ExitStatusIsTrue` | |
| `ConfigIsAlwaysSafe` | `ConfigIsSafe` | |
| `StandardChannelMinerProofs!TypeCorrect` (and so on for `ExtendedChannelMinerProofs`) | `TypeOK` | |
| `NumbersNeverCollide` | `SequenceNumbersUnique` | |
| `SentSharesAreWorthTheirJob` | `SharesMeetTheirJob` | |
| `TimestampsAreHonest` | `NtimeWithinClock` | |
| `OneShareAfterCancellation` | `AtMostOneLateShare` | |
| `OlderTasksAreToldToStop` | `OnlyCurrentTaskGoesOn` | |
| `NewestTaskIsUpToDate` | `CurrentTaskMinesActiveJob` | |
| `SingleSubmitIsPerTask` | `OneSharePerTask` | |
| `SharesOfOldTipsAreDropped` | `OldSharesAreDropped` | |
| `ImplementsMiner` | `MinerSpec` | |

**The registry.** `Lookups` joins `TypeOK`, `NamespaceDisjoint` and
`GroupsListOpenChannels`, which need one another: a channel that joins cannot bear a
group's id because `join_group` refuses it; the group it names cannot be a channel for
the same reason; closing keeps both because a group that loses its last member goes
with it. `FreshLookups` adds that an id is of one kind and that no two groups share a
member; with fresh ids the new channel is in no group because groups list open channels
only, which is where `Lookups` is needed. `UniformGroups` adds the sizes: a
joining channel is refused unless it agrees, a redefinition checks all its members,
and prefixes keep their length. `GroupedChannels` adds that no channel is without a
group: with regrouping fatal, only `CloseChannel` takes channels out of groups, and
it removes exactly those channels from the registry.

Each handler has a lemma that says what it does to the maps, and one that says it
keeps the invariant; `without_members`, `Insert`, `join_group` and the prefix updates
have lemmas of their own. That a connection never changes its REQUIRES_STANDARD_JOBS
(`ConfigurationStays`) is what carries `EveryChannelHasAGroup` through a regrouping.

`OnlyRegroupingMoves` looks at a step from a channel's side: a channel that is
joining, or closing, changes its own memberships and no other's
(`JoiningMovesNoOther`, `ClosingMovesNoOther`), and a redefinition those of the
channels it lists or drops (`RegroupingMovesNoOther`).

**The refinement.** `GroupMembership` knows open channels and one group of each; the
maps know groups and their members. The mapping chooses the group of a channel, and
`OneMembership` says that there is nothing to choose: it follows from `FreshLookups`,
and makes the members of a group the same on both sides. `OpeningJoins`,
`ClosingLeaves` and `SetGroupRegroups` then take each handler to an action of
`GroupMembership`; `RegistryStays` takes everything else to a stutter. The size that
`GroupMembership` asks the members of a group to share is what `UniformGroups` keeps.

**The composition.** `StepIsRegistrys` classifies a step of `Connection`: an answer of
the server, a closing or a regrouping is the registry's handler under an id that is
free, a poisoned lock is its fatal error, and a frame passed on leaves the maps alone,
both when it is taken and at each channel it reaches. This makes the registry's
theorems, and the invariants behind them, facts about the composition (`RP`), with
`ReusesIds` and `PrefixResizes` false because of what the composed server sends, not
by assumption. Three invariants are stacked on top. `Typed` adds that there is a miner
for every open channel and that channels are left only of a real frame. `Follows` adds
`RegistryFollowsTheServer`: the server takes its view from its frames alone, so what
has to be shown is that the client never refuses one that the protocol allows, and that
a group empties in the view when it does in the maps. `Working` adds
`WorkFollowsTheServer` and what makes it inductive in the middle of a broadcast: the
channels not yet reached are open and take the frame. When a lock is poisoned the
broadcast is cut short, the connection with it, and what the channels left out lack
is that one frame.

**The throttle.** A window's account is inductive only together with the place in the
loop. `Throttled` says how many headers were hashed by what the ended windows allow
and what the current one has used: between a look at the clock and the next header the
share is not used up (`pc = "hash"`), in a sleep it is (`pc = "asleep"`), so that
`Wake`, which starts a window, finds the last one paid for on both sides. The products
with the number of windows are given names (`AllowedHeaders`, `RestOfWindows`,
`ShareOfWindows`) and one lemma (`NewWindow`) moves them on by a window.
`MeasuringInv` and `CancelledInv` bound how late it is at each place: a task that
yielded has not moved since it was cancelled, one that sleeps was cancelled at most
a delay before, and the next look at the token or the clock comes after one header.
`Search` keeps the nonce and `ntime` in their width.

`NewInv` counts the headers. Those of the measurement lie before the next one
(`Before`), which is therefore none of them. Those of a job wrap: the invariant gives
each header the tick it was hashed at (`HashedAt`), whose `ntime` it bears, and says
that as many nonces have been used since as headers could be hashed in that time. A
header like the next one would have been hashed within the same second
(`SecondsInOrder`), and the nonces last for a second, which `ThrottleAssumption` says
of the hardware; once a job's `ntime` is the largest there is, the argument and the
property end together.

**The client.** `RequestInv` says of the i-th request what it is (`nth_request`), from
which distinct ids follow, and that whoever is past the handshake has an acceptable
reply. `OutcomeInv` ties the phase, the result, the token and the exit status: a result
comes with the end of `start()`, `Ok` with a cancelled token and every request sent,
and an exit status only once main is through with `start()` or never called it.
`SafeInv` says that the binary starts nothing `validate()` refuses, and that no other
configuration makes `start()` panic or find its address invalid. `TypeCorrect` adds
the frames waiting and the reply, which only come from the server (`FramesWaiting`,
`LinkAndReply`).

**The miners.** `ChannelMinerProofs` states once what both kinds may do (`MinerSpec`:
any job may be valid or not, any snapshot may fail) and each kind is shown to implement
it. A step is then classified (`Classified`): task t advances in one of five ways, the
task is replaced, or neither tasks nor wire change and the channel takes another job
only if `handler` promises to replace the task. `MinerInv` joins what must hold
besides the invariants to make them inductive: no share in hand or on the wire has a
number above the channel's last one (`Numbered`), a share is worth its job and timely
from the moment it is found or validated (`Worthy`, `InTime`, the latter because a
job's activation precedes its task's start), a task that was late once is at a place
with no way back to the hash (`LateOnce`), and under single_submit a task with a share
on the wire is past its loop (`OneEach`). `OnlyCurrentTaskGoesOn` and
`CurrentTaskMinesActiveJob` need only the types. `SharesOfOldTipsAreDropped` is about the
tasks a handler has not yet replaced: `UpToDate` says that a task whose job the channel
still knows has the channel's chain tip, because job and tip are read under one lock
(`Snapshot`), a new tip forgets the active job for a future one, no task waits on a
future one, and the channel takes no job a second time (`TakesJobs`).

**Only model-checked**: liveness, which is outside the prover's reach, as `ENABLED`
and so fairness is: `CancelledTasksFinish`, `ActiveJobIsMined`, `ValidatedSharesAreSent`,
`TasksEnd`, `ShutdownReturns`, `ClosedConnectionEndsTheRun` and
`CancellationStopsMining`. Every invariant, action property and refinement that a
passing run checks is stated by a theorem above. The five properties of the next
section are false, which TLC shows.

## What the code does not keep

Five statements of the repository's documentation are refuted by a run each:

1. `StandardChannelMiner_one_share`: README.md:13 says single submit mode stops after
   the first share submission on each channel. The token is read when a task starts
   and cancelled after its share is sent; a task with a share in hand and its
   successor both submit. (`config.toml:22` puts it differently: "stop hashing on the
   job after submitting the first share"; per task, that holds: `OneSharePerTask`.)
2. `StandardChannelMiner_close`: `channel_manager/mod.rs:25` says the registry owns
   the mining task behind each channel. `CloseChannel` drops the miner and nothing
   cancels its task.
3. `ChannelManager_reused_id`: the comment on `join_group` says a channel is refused
   when its ids collide with ids in use. Its channel id is not compared with the open
   channels.
4. `Client_violation`: `lib/mod.rs:18` says a violation ends the connection. `start()`
   returns, and the tasks, which share the token nobody cancels, hash on. The binary is
   not affected: `main` calls `shutdown()` and exits.

5. `Client_multiplier`: `config.rs:56` says the multiplier must be greater than 0.0, and
   `config.toml:30` that only such values are valid. `validate()` refuses what is
   `<= 0.0`, which a NaN is not, and the binary requests its channels with a NaN for a
   hashrate.

Three more follow from the models and have no run of their own: a redefined group
leaves its unlisted members in no group (`EveryChannelHasAGroup` is checked, and
proved, only where regrouping is forbidden); `start()` returns a sender error when the connection ends while channels are being requested
(`OpenChannel`), where its documentation says `Ok`; and a program that embeds the
library reaches the division by the number of channels without `validate()`
(`ConfigIsSafe` is about the binary).

## Not modelled

- Acknowledgements that never come and the server's view of shares: the code keeps
  counters of verdicts and takes no decision by them.
- The content of headers and coinbases; whether a hash is right. The quotient that the
  measurement returns, and `format_number_with_underscores`, whose result only the log
  sees.
- The TOML loader and the environment, which are an external crate's; logging; the
  wording of errors.
- Queue capacities of the connection, which belong to an external crate. The hazard
  that goes with them (a server that answers each request before it reads the next)
  is listed without a property.
- An id that names channels of both kinds, in the composition: its server keeps to the
  protocol. `ChannelManager` has it, with the halfway update of its prefixes.

## Plan

In this order; 1 to 11 are done.

1. `ChannelManager` with its abstract specification `GroupMembership`: the routing of
   every message rests on it.
2. `ChannelMiner` and its two kinds: the interleavings of tasks and handlers.
3. `Client`: the ways a run can begin and end.
4. `ChannelManagerProofs`: type correctness and the registry's invariants.
5. `Connection`: the composition of a server, the registry and the miners' work.
6. `Throttle`: the pace of a task, and the measurement.
7. `ThrottleProofs` and `ClientProofs`.
8. Proofs about the miners, for any number of tasks and shares.
9. `MembershipProofs`: each step of `ChannelManager` is a step of `GroupMembership` or
   a stutter; and `OnlyRegroupingMovesChannels`.
10. `ConnectionProofs`: the composition drives the registry, `RegistryFollowsTheServer`
    and `WorkFollowsTheServer` on top of the registry's theorems.
11. `HeadersAreNew`, and the last types.
12. The safety that the liveness properties rest on: what a cancelled task, a closed
    connection and a validated share may still do, as action properties with proofs.
    `OldSharesAreDropped` is the first.
