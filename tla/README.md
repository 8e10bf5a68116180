# A verified model of the CLAW MACHINE swarm

TLA+ modules translated from the source of this repository, TLC configurations that check them on small
instances, and TLAPS proofs of the properties that matter most for every instance. Paths below are relative
to the repository (`src/` stands for its root).

To repeat the checks, in this directory: `tlc -config ClawDao.cfg MCClawDao` for a run (the table under *Runs*
pairs configurations and modules), `tlapm ClawDaoProofs.tla` for the proofs of a module. `PROJECT.json`
pairs every definition with the lines it translates, every property with a way of breaking the code that
violates it, and every hazard of the code with the properties that watch it.

## 1. Inventory

The system is a swarm of planning agents with receipts for what they did. Four Anchor programs keep accounts
on Solana; an Express server keeps governance, plans, memory, NFTs, identities, skills and sessions, most of it
in JSON stores, and mirrors what it anchors; a web client shows both, and plays a story of its own in demo mode.

```
 client ──HTTP/tRPC──> server routes ──> services ──await──> JSON stores (memory + file), database tables
   │  wallet extension      │               │  └───await──> 0G sidecar (in memory), uploads that degrade
   └─ demo story (local)                    └──────await──> Solana (anchor client, bridge's relayer)
 wallets ──transactions──> claw_dao, claw_onchain, claw_machine, claw_nft
```

Instructions of a program are atomic: one that fails leaves every account as it was. Handlers of the server
are not: JavaScript runs one stretch of a handler at a time, but every `await` (the write of a file, a query, an
upload, a call of the chain) lets any other request run, and the JSON stores change their memory *before* they
await the write. The pages of the client go on with what they read when a request began.

| Component | State it keeps | Operations | Talks to | What is hard | What makes it correct | Modules |
|---|---|---|---|---|---|---|
| `programs/claw_dao` | config, members, proposals, vote and execution records, treasury and vault, discovery rows | configure, join, update, propose, vote, finalize, execute in two ways, deposit, refresh a row | wallets, the slot clock, lamports | quorum read at finalization; saturating and plain arithmetic; power that changes during a vote | tallies are the recorded votes; a verdict rests on them; executed and paid at most once; the books balance; each proposal is a ballot | `ClawNumbers`, `ClawDao`, `ClawDaoDiscovery`, `Ballot` |
| `programs/claw_onchain` | config, profiles, skills, versions, anchored records, reputations, rows | thirteen instructions | wallets | counters of three accounts per instruction; u16 sums of scores; rows nothing refreshes | counters count accounts; a skill agrees with its versions; no score wraps; a success never hurts | `ClawNumbers`, `ClawOnchain` |
| `programs/claw_machine` | registry, skills, versions, three kinds of receipts | nine instructions | wallets | statuses set by several calls; a saturating registry; a version's address is made of its number | counters count; a status has its evidence and keeps it | `ClawMachine` |
| `programs/claw_nft` | collection, supply, tokens | four instructions | wallets | a failing mint after the count; mints with tokens of their own | never more than the supply; one receipt per token; frozen for good | `ClawNft` |
| governance service (`server/dao`) | members, proposals, delegations, ledger, receipts, spend, rows | register, update, delegate, revoke, propose, vote, finalize, execute; the dashboard's payload | its store | checks before an await, writes after it; delegations read at the vote; ids chosen by clients | no weight or spend is lost; in turn: one vote each, executed once, power held once | `DaoService` |
| governance dashboard (`client`) | payload, wallet, mode, selection, busy flags | load, vote, propose, execute, change wallet or mode | the service | answers of another wallet or mode | a payload at rest is the shown wallet's | `GovernancePage` |
| plan receipts (`server/plans`) | receipts (immutable versions), results, executions, two indexes, a timeline | create, store, anchor, execute, result, link, verify | uploads, anchor client, its store | a receipt read before an await is cloned after it; hashes of what is not final | hashes match; outcomes have results; links stay; in turn: versions are a line | `PlanReceipts` |
| memory receipts (`server/memory`) | reflections, receipts, links, bundles, timeline | create, anchor, link, verify, inject | uploads, anchor client, its store | look, await, save; shared objects changed before the write | one receipt each; bundles take each advice once; proofs only grow | `MemoryReceipts` |
| Solana bridge (`server/solana`) | history of instructions, table of accounts | build, send, confirm | the relayer's RPC, its store | a confirmation between send and save, or of what does not belong together; lost answers | confirmed is on chain; an account follows its record | `SolanaBridge` |
| Solana identity (`server/solana`) | challenges, receipts, memories, runs, deployments, events, profile, reputation of a wallet | challenge, sign-in with seeds, anchor, record each kind, discovery reads | anchor client, its store | arrays handed out and shortened in copies; a chain of saves | quiet records agree; reputation never shrinks; rows tell the reputation | `SolanaIdentity` |
| wallet sessions (`server/solana/session.ts`) | nonces, sessions by token, token by wallet | issue, verify, read, refresh, logout | wallets' signatures, the clock | two maps written apart; expiry; restart | one session per wallet, on a nonce used once; dead tokens stay dead | `SolanaSession` |
| skill registry (`server/skills`) | skill rows and version rows | publish, update, status, usage, verify, migrate | database, a mock chain | statements without a transaction | a settled skill verifies; usage adds up; factors explain the score | `SkillRegistry` |
| execution orchestrator (`server/orchestration`) | the mirror of runs, receipts, selections, drafts and its file | run a goal; select, draft | plans, memory, bridge, its store | a degraded path for each part; a write chain that stays rejected; a torn file | clean runs are proven; what is answered is on disk | `SwarmExecute` |
| proof labels (`shared/proofTruth.ts`, `shared/proof`, `structuredReceipts`) | the operator's posted receipts | label, list, post | orchestrator, sidecar, panels | many combinations | no label claims more than its evidence | `SwarmExecute`, `StructuredReceipts` |
| agent pipeline (`shared/agents`) | none; lessons of a wallet over its turns | build a run, merge records | orchestrator | a policy by patterns, scores, permissions | session tools need a session; learning never hurts | `AgentPipeline` |
| autonomy policy (`server/autonomy.ts`) | configuration, decisions, actions, receipts, runs, memory rows | configure, preferences, decide, approve, override, reflect; metrics | database | read, merge, write back the whole row; inserts one after another | monotone gate; a receipt rests on its rows; figures are earned | `Autonomy` |
| database and tRPC routers | tables | one query per route | client | several inserts per call | what the autonomy routes leave agrees | `Autonomy` |
| JSON stores | the state of a service and its file | init, change, persist | disk | unserialised writes, crashes, a rejected chain | a restart finds what was answered, in order | `JsonStore` |
| circuit breaker, retry policies (`server/errors`) | failures and open-until | allow or throw, record success or failure | no route that is reached | | | none |
| errors and their surface | catalog; history, banner, queue | normalise, refuse, push, dismiss, retry | swarm routes, command center | codes guessed from messages; errors of overlapping calls | a refusal is told as itself; the surface is current | `ErrorSurface` |
| NFT service (`server/nft`) | collection, mints and their file | create, mint, freeze | its store | a replaced collection; a failed write after the count | the collection counts its mints; frozen stays | `NftService` |
| 0G sidecar (`server/zerog`) | artifacts, jobs, availability, receipts, links, blobs, batches | persist, run, link, append, verify, demo | none that can fail | blobs under names made of other names | references hold; roots verify | `ZeroGSidecar` |
| OpenClaw bridge (`server/openclaw`) | manifests, receipts | import, export | client | several manifests of a version | the newest is found first | `ZeroGSidecar` |
| sign-in (`server/_core`, `useAuth`) | users, cookie, what a tab shows | callback, me, protected calls, logout | portal, database, React Query | answers of calls that began with another cookie | at rest a tab shows the cookie's person | `SignIn` |
| web client: wallet context, command center, runtime, receipts page | session and token, result and busy flags, cycles, choice | connect, sign in, refresh, clear; loops and retries; cycles; tasks | session routes, wallet extension, swarm and memory routes | tasks that outlive the account they read; overlapping loops | the shown session is the wallet's; the page tells the last loop | `WalletClient`, `CommandCenter`, `CommandTimeline`, `ReceiptsPage` |
| wallet panels (`components/dapp`) | last signature, error, rows, balance | derive transaction, proof, trail | wallet context, RPC | figures of another account | proof is the session's; the trail is in order | `WalletPanels` |
| pages of one record (`client`) | record, loading, error | load, reload, act, leave | their routes | late, lost and overlapping answers | a record at rest is the one asked for | `RecordPages` |
| debug collector (`public/__manus__`, `vite.config.ts`) | three buffers, three files | push, report, append, trim | development server | lost and repeated reports; full buffers; trims that fail | nothing vanishes unexplained; reports arrive | `DebugCollector` |
| demo story (`shared`, `client/src/demo`) | scenario, outcome, frame, play, wallet | every button of `DemoProvider`; build a snapshot | client only | frames that name beats of another story | the page shows what the engine tells; lessons follow failures | `DemoPlayback`, `CommandTimeline` |
| sample figures (`shared/clawMachineMock.ts`) | constants | | | | | none |

The main hazards of this code, each at its line and with the properties that watch it, are in `PROJECT.json`
(`hazards`); a few smaller ones that no property watches are at the end of section 5.

## 2. The modules and the code

Conventions. A handler or an instruction that returns early or fails before its first write is not a step. An
action names the code it translates; locals that survive an `await` are fields of the request's record. Where a
module says *a write may fail*, memory keeps the change and the request ends, as after `await this.persist()`.
Operators beside a definition that change one thing in it are plausible mistakes; no specification uses them,
they are there to see that the properties notice. An `MC...` module puts components that share no state next to
each other: each behaviour is one of its *parts*, chosen in the initial state, so that a run is a sum of small
state spaces and not their product. A property of such a run is a conjunction of named parts, each stated and
explained in the module of its component.

### On chain

**`ClawNumbers`** — `BpsFromRatio`, saturating, checked and wrapping sums with `U64Max` and `BpsScale` as constants,
so that TLC sees the limits with small numbers and the proofs hold for the real ones; and `trust_score`,
`discovery_score`, `compute_rank_score`. `Cargo.toml` sets no `overflow-checks`, so plain `+` wraps in a release
build.

**`ClawDao`** — one action per instruction. Accounts are functions over their seeds, which is what a PDA is.
`checked_add` and `require!` are guards; saturating and plain arithmetic is what it does. Draft and Cancelled are
declared in the code and never set. A delegate is recorded and never read, so it is left out. `withdraw_treasury`
has the transfer the handler asks for; whether the runtime grants it to a vault of this owner is left open.
**`ClawDaoDiscovery`** adds `refresh_discovery`, which anyone may call at any time.

**`Ballot`** — what a ballot promises its voters, whoever keeps it: a threshold fixed when it opens; one weighted
ballot each, never altered, before the deadline; passed only with the required share; carried out at most once.
`ClawDao` implements it per proposal (`ImplementsBallot`, with `phase <- Phase(p)`, the recorded votes as `ballots`
and the counters as `yes` and `no`).

**`ClawOnchain`**, **`ClawMachine`**, **`ClawNft`** — the other three programs, one action per instruction. Hashes and
texts are whether they are set; `records` are the accounts of memory anchors, planner runs and deployments. The
`#[instruction(version_seed)]` of `publish_skill_version` takes the first 32 bytes of the arguments, which are the
number and 28 bytes of the seed: `VersionAddresses` are these pairs. A mint may have tokens (`before`) when the
collection's authority mints one more of it, and the receipt says 1 all the same.

### The server's services

**`DaoService`** — `req[r].at` is the `await` in which request `r` is, the rest its locals. `Failures` says whether
writes may fail, `Patience` whether clients wait for one answer before the next call: that separates what the
service promises to a sequence of calls from what it keeps whatever overlaps. The dashboard's payload
(`governanceMapper.ts`: quorum progress, weights, buttons) are operators over the same state. A create request
carries any id, also that of a proposal that exists, which it replaces; `reused` remembers such ids, and the
properties say what is kept beside what the replacement itself takes away (`Overwrites`, `Excused`).

**`PlanReceipts`**, **`MemoryReceipts`** — a request is a chain of steps between awaits: an upload, a call of the
chain, the write of the file. An id is a position, a hash is the value hashed, so a hash of what is not final is
visibly a hash of something else. The event of a change is pushed after the first write and written in turn (the
comment above `Persisted` says why one await stands for both). In `MemoryReceipts` a receipt is a shared object,
which link, verify and inject change before they await, and a route is a list of calls. A bundle looks at the newest
reflections up to a limit, before it asks which of them are eligible.

**`SolanaBridge`** — build, send, confirm against a chain that is an actor: it executes a transaction well or badly
or never, and its answers may be lost. A confirmation names any signature, any record and any account, which need not
belong together; a row that got another's is `crossed`, and only such a row may tell another's fate. `orderly` says
whether callers keep an order.

**`SwarmExecute`** — `runSwarmExecute` through plan, reflection and proof, each in a `try` of its own, with the
mirror and its chain of writes, which once rejected stays rejected until a restart. A write begins by cutting the
file, so a restart before it has resolved may find it torn: then all is lost, and the answers that went with it are
in `lost`. The outcomes of other services are choices. The desk is beside it: selections and drafts in the same
mirror. The command center's state (`deriveCommandUX`) and the labels of what a run records are operators over the
answer.

**`AgentPipeline`** — `buildAgentFrameworkRun`: a goal is the set of patterns its text matches; risk, confidence,
tools, permissions, steps, hand-overs, decisions, critic; and the records merged into it after each phase. Turns
of one wallet hand their lessons on.

**`SolanaSession`** — no handler awaits, so each is one action. `Tick` is the clock, `Restart` loses the three maps.
**`SolanaIdentity`** — one wallet. The store hands out its arrays and some handlers push into the array at hand
before they keep a shortened copy: `arrays` holds every array a list has had. Discovery reads compute and save the
reputation. **`SkillRegistry`** — statement by statement over two tables, for one skill; the score is computed in
hundredths from the ages in `Ages` and kept by an integer column (`ScoreColumn`). **`Autonomy`** — the gate as a
function, the routes row by row, the metrics over the rows they leave, among them receipts inserted as a client says
(`GiveReceipt`).

**`JsonStore`** — memory, file, and writes that overlap or are chained; a state is the sequence of what was saved,
a snapshot a prefix, named by its length. **`NftService`**, **`ZeroGSidecar`** (with the OpenClaw bridge),
**`StructuredReceipts`** — one action per operation of their services. **`ErrorSurface`** — an error from the thrown
message (the set of words the rules look for) to the banner. **`SignIn`** — callback, cookie, context of a call, and
a tab whose browser has others. **`DebugCollector`** — the page's script and the development server's plugin; the
beacon of an unload is text, of which the plugin is left an empty object, so it writes nothing.

### The client

**`WalletClient`** — the context before the server's real sessions (it extends `SolanaSession`): a task goes on with
the address and token it read when it began, the extension changes account at any time, requests are lost on the
way out or back. **`WalletPanels`** adds what screens show of it. **`CommandCenter`** — lists, loops, retry, demo; its
lanes are those of **`CommandTimeline`**, which **`DemoPlayback`** uses too. The page's simulated runtime is a
function of the state before. **`DemoPlayback`** — scenarios, beats, frames, the snapshot with its records, and the
buttons of `DemoProvider`; effects belong to the click that causes them. **`GovernancePage`**, **`ReceiptsPage`**,
**`RecordPages`** — loads and actions of mounted pages, with answers in any order.

**`MCClawDao`**, **`MCClawOnchain`**, **`MCExecution`**, **`MCWallets`**, **`MCOperations`** — the
instances and the composition into runs; the `...Proofs` modules are in section 4.

## 3. Runs

`CHECK_DEADLOCK FALSE` everywhere, because the *bounds* end a behaviour (votes, nonces, requests, slots run out)
where the system would go on.

| Run | Configuration (module) | Parts | What it shows |
|---|---|---|---|
| `dao_program` | `ClawDao.cfg` (`MCClawDao`) | ballot, treasury | votes counted, verdicts resting on them, no wrap, books balanced, executed once, a `Ballot` per proposal |
| `dao_service` | `DaoService.cfg` (`DaoService`) | waiting or not, failing or not | nothing tallied or spent is lost however requests overlap; in turn the service keeps its promises; the dashboard shows what the service would judge |
| `dao_service_race` | `DaoService_race.cfg` | | **violated**: two overlapping votes of one wallet are both recorded |
| `dao_service_delegation` | `DaoService_delegation.cfg` | | **violated**: a member votes, delegates, and its power is voted again |
| `onchain` | `ClawOnchain.cfg` (`MCClawOnchain`) | accounts, reputation, machine, nft, rows | counters count, skills match versions, registers hold, nothing earned is taken back |
| `plans` | `PlanReceipts.cfg` (`PlanReceipts`) | waiting or not | see below |
| `plans_verify` | `PlanReceipts_verify.cfg` | | **violated**: the completed lifecycle does not verify |
| `memory` | `MemoryReceipts.cfg` (`MemoryReceipts`) | waiting or not | one receipt each, indexes and timeline agree, bundles take each advice, proofs only grow |
| `wallets` | `Wallets.cfg` (`MCWallets`) | session, identity, registry, autonomy, governance, signin, pages | what is kept of wallets and users agrees, and pages show what they were asked for |
| `execution` | `Execution.cfg` (`MCExecution`) | bridge, alone, pair, desk, sidecar, openclaw, errors | what a run claims rests on the chain; answers are kept; errors are told |
| `operations` | `Operations.cfg` (`MCOperations`) | store, nft, client, page, runtime, demo, agents, reflections, receipts, logs | safety of each part, and liveness of four |
| `demo_story` | `DemoPlayback.cfg` (`DemoPlayback`) | | **violated**: a frame names a beat its story does not have |

**Bounds**, and why they are enough to be interesting.

- `dao_program`: two wallets of stakes 1 and 5 on one proposal, `U64Max` 13, scale 10: a vote whose checked addition
  fails, a product that saturates and a quotient that rounds all occur; or two proposals of two kinds whose
  payments of 1 to 3 compete for what deposits of at most 5 hold, with and without a limit of 2.
- `dao_service`: two requests are what a race needs; two waits of each overlap in every order. Two members, one
  proposal, whose id a second create may carry, two receipts. A member is made inactive only where requests wait and
  writes succeed.
- `onchain`: one slug with two versions and two wallets, `U16Max` 3; six reputation events of every kind with
  rewards up to the u64 limit, at the real scale, since caps and halves depend on it; three skills and receipts of
  `claw_machine`, whose registry saturates at 1, with versions of two fronts; three mints for a supply of 0 or 2, that
  have none, all but one or all of the tokens there can be (5 stands for the largest u64); a proposal's row with two
  members of stakes 1 and 5.
- `plans`, `memory`: three requests, two at a time: a creation, a result and one more that overlaps either; two
  reflections, two turns; a bundle looks at one reflection or two for 200.
- `wallets`: the clock passes both session lifetimes twice; three tokens let a wallet log in after a logout while
  the other is logged in. Three identity requests (two overlapping, lists of one and three, one failing write);
  three registry requests with one failing statement, on a skill last used just now or five and a half months ago,
  where the mock chain does not fail; two autonomy requests; two requests of the governance page; two people with
  two calls at once and at most one thing missing from the deployment (database, portal, https or a person's name);
  pages with two keys, three requests and two changes.
- `execution`: two sends, by three of the eight routes (one that credits, one that does not, one that only builds),
  and two confirmations, the second only where no answer or write is lost; one run with every outcome, or two for
  one place in the mirror, or two desk requests of which at most one is a run, with one crash; three writes to the
  sidecar, whose two places are alike; four manifests; three calls of the command center with a history of two.
- `operations`: three saves and a crash; two NFT requests; two tasks of the wallet page; two loops and a retry of
  the command center; eight cycles of the runtime with lists of 2 and 5 for 100 and 30; two turns of the agents; two
  reflections and three calls of the receipts page; two structured receipts of each kind; three moments of a
  collected page, and a fourth after a failed trim, with buffers of two, files of two that are trimmed to one, two
  reports and one failure, whose own requests are under way beside one report at most and before the failure. The
  demo has no bound: all of it is explored.

**Fairness.** `OperationsFairness` is all there is, and each conjunct is something the code schedules: a write that
was begun ends or rejects; a task of the wallet page gets its answer or loses it; the demo's timer fires; the
collector's interval fires and the server answers. No fairness is claimed of a user, a wallet or a transaction, and
so no liveness of what waits for one.

- `StoresRecover`: every save is answered unless the server crashes, well or, in a chain that has rejected, badly;
  and only a restart mends such a chain.
- `PagesSettle`: the wallet context comes to rest; a story left to play comes to its last frame again and again;
  what the collector holds reaches the server while the page stays open.

`plans` in more detail. Whatever overlaps or fails: every receipt matches its hash; no receipt claims an outcome
or link without a recorded result; an anchor is that of a receipt in the lineage; the latest result is the
newest; links and outcomes are never taken back; when all requests have ended without a failed write the
timeline tells of everything. For callers that wait, versions of a plan form one line and the plan says what
its latest result says. For callers that do not, neither is promised: `storeReceipt` and `anchorReceipt` clone a
receipt read before their await, so a result applied in between drops out of the latest receipt.

### What the violated runs found

- **`castVote` takes two votes of a wallet** (`server/dao/daoService.ts:275`): the ledger is searched before the
  tally's persist is awaited, and the row is appended after. Both requests pass the search; both are tallied.
  The repository's test says the service "prevents double vote on same proposal". `TallyAccountsForVotes` shows
  that the tally still counts exactly what the ledger holds, and `OneVoteEach` that clients that wait are safe.
- **Power is voted twice through a delegation** (`server/dao/daoService.ts:280`): a vote is weighed with the
  delegations of its moment, and `delegateVotePower` does not look at votes. `PowerHeldOnce` shows that at any one
  moment no power is held by two.
- **`verify` cannot succeed for a plan with a result** (`server/plans/PlanResultService.ts:43`): the result is
  hashed while its `resultHash` is empty and its storage and anchor are unset, and the hash covers all three.
- **The recovery stories end on a beat that does not exist** (`shared/demoScenarioPlayback.ts:24`): frames name beats
  0 to 14 of a story with 14 beats, and the page falls back to beat 0, a disconnected wallet.

Besides, `StepsAddUpBelowMax` excludes one case that `record_planner_run` accepts
(`programs/claw_onchain/src/instructions/mod.rs:631`): at the largest u16 step count
`completed.saturating_add(failed)` cannot exceed the total, so any split passes.

## 4. Proofs

No module here declares a recursive operator, so all can be proved about. Nothing is assumed but the named
`ASSUME`s of the component modules (the constants have their types; `U64Max` and `BpsScale` are positive), which TLC
evaluates in the runs. Every theorem is for all values of the constants, so for any number of wallets, proposals,
requests and callers.

- **Arithmetic** of the on-chain programs. In `ClawDaoProofs`: `BpsNeverOverstates` — if the computed basis points
  reach `t`, the numerator is at least `t` parts of the whole denominator, however the product saturated or the
  quotient rounded; `BpsExactUnsaturated` — without saturation the comparison is exact. In `ClawOnchainProofs`:
  `TrustNeverWraps`, `DiscoveryNeverWraps` — with the code's scale no u16 sum of a score reaches 65 536, for every
  count; `SuccessNeverLowersRatio` — one more success never lowers the ratio while the product does not saturate.
  TLC sees six events only.
- **`ClawDaoProofs`**, types and books: `TypeCorrect` and `BooksAlwaysBalance`. `TypeOK` is not inductive alone: the
  vault's type needs to know that it never holds more than was deposited, a checked u64 sum. `BooksBalance` is that
  strengthening: vault plus spent is deposited, and treasury and config agree on what was spent.
- **`ClawDaoProofs`**, verdicts: the inductive invariant `ProposalsSound` — an absent proposal is blank and has no
  votes, a decided one is past its end, an execution record exists only of an executed one, counters add up to the
  checked total, and a passed one has the required share. `SoundAlways` proves it; from it follow `NeverWraps` (the
  plain sum is bounded by the checked total), `ExecutionAlwaysFinal`, and `RefinesBallot`: `StepTouches` says which
  instructions change a proposal's accounts, `StepBallot` maps each to a step of the ballot or a stutter.
- **`ClawDaoProofs`**, counters: `VotesAlwaysCounted` and `TreasuryAlwaysBalances`. The model says what a counter
  should be with `WeightOf`, the number of units `<<account, i>>` in a set of weighed accounts; one more account
  adds exactly its weight (`WeightOfMore`), and a checked sum that succeeds adds the same.
  The invariant `Accounted` says it of all counters at once, with `Founded` (the vote records are finitely many and
  of members, and nothing was executed before the program was initialized) and `PaidFor` (what was spent is the sum
  of what was paid, each a treasury spend within the limit).
- **`SumTheorems`**: products, quotients, and what `SumFunction` of the community modules gives, for natural numbers
  on a finite set. The library's induction takes an operator as a parameter, which no prover here can instantiate;
  with a *set* in its place (`NatSetInduction`, `FiniteSetInduction`, from the well-foundedness of `<` and `WFMin`)
  induction goes through.
- **`ServicesProofs`**, governance: for any overlap of requests. `Inv` (theorem `WhatIsReadStands`) is the types
  with `Untouched` (nothing is known of a proposal before it is created), `StillHolds` (the proposal an execution
  has read is past its vote, its kind and amount are still those of the store, and so is its tally until it is
  written back) and `Members`. `StillHolds` speaks of proposals that are `Firm`: a second create can replace one
  that has been read only if clients do not wait. `VerdictsAlwaysStand` is a consequence for every step but the
  replacement and, without waiting, what comes after it. For `NothingIsEverLost` each step moves one summand from
  what is under way to what is recorded, by the lemmas of `SumTheorems`; when a persist fails, or for an id in
  `reused`, only the inequality is left. `PromisesAreKept` needs `InTurn`: for clients that wait at most one request
  is under way (`Alone`), a vote under way is the first of its wallet, an execution under way is of a proposal not
  executed, and a verdict has reached the discovery row or is on its way. `PowerHeldOnce` is pure: every member's
  delegated power is summed at its delegate. `ShownAsItIsJudged` compares the dashboard's arithmetic with
  `finalizeProposal`'s in every state of `Inv`.
- **`PlanReceiptsProofs`**: `PlansAlwaysHonest`, `PlansAlwaysInTurn`, `LinksAlwaysStay`. `PlanInv` holds for any
  overlap of requests: the types; receipts and results fit each other (`ReceiptsFit`, `ResultsFit`); what each
  request in flight has read still describes a receipt that exists (`CallsFit`); an executed plan has its result, an
  anchored result its transaction. An event is in the timeline or a request that is still writing will push it,
  unless a write has rejected. `TurnInv` adds what holds when callers wait: one request is under way (`Alone`), it
  builds on the newest result, versions ascend. Every action has one of six shapes, by which of the maps it touches:
  one lemma says so of each action, and one per shape that it preserves the invariant. `Lineage` is a recursive
  function; what it returns is proved along its depth with `NatSetInduction`.
- **`ExecutionProofs`**, the bridge: `BridgeAlwaysTellsTheChain`, by `BridgeInv` (theorem `BridgeHolds`): types; what
  the records say of each instruction and what the chain did with its signatures (`RecordsHold`, `ChainHolds`); what
  each caller will write when its answer comes (`RequestsHold`); that accounts and credits rest on them. What a
  record shows is its own unless it is `crossed`. What holds only of orderly callers, that they cross nothing too, is
  stated so (`InTurn`).
- **`ExecutionProofs`**, the swarm: `ClaimsAlwaysRest` and `AnswersAlwaysKept`, by `SwarmInv` (theorem
  `SwarmHolds`). `Fits` says what the record and receipts of a run are by the step it takes next: before the proof
  is sent nothing is verified, after it a run that is not degraded has come through everything. `Held` adds what is
  on disk: from the resolution of its write on, a whole file agrees with the record, unless a full mirror has
  dropped it. What is answered and what is counted for a skill rests on a resolved write, which is why a restart
  takes neither back; one that finds the file torn puts all requests begun in `lost`. Every step of a run is an
  advance (`Advances`), an end (`Ends`) or a request of the desk (`DeskAsks`), with one lemma each; a catch is an
  advance too, whether a call has thrown or a write has rejected.
- **`ExecutionProofs`**, the relays: `RelaysAlwaysTellTheTruth`. `SidecarInv` adds to the properties that a name
  which was told is among those written, so that whoever writes under it again is noticed, and that what was published
  is only added to. `OpenClawInv` says that of each skill the first receipt and the first manifest agree: a manifest
  is replaced in its place but its receipt put first, so what counts of both lists is the first row of a skill.
- **`ExecutionProofs`**, the errors: `ErrorsAreAlwaysTold`, by `SurfaceInv`: a call that is still asked has no code
  in the log, what waits in the queue has failed with a code its policy retries, and the history is as long as
  failures and limit allow (each failure is of a call that had not failed). The catalog's rows are a set, and the
  policy of each label is checked row by row (`CatalogFits`).
- **`ClawDaoProofs`**, discovery rows: `RowsAlwaysSnapshots`, by `RowInv` (a row that exists is one of a proposal that
  does, and once it shows a verdict the proposal has one), and `YesRaisesRank`: when the product of the new total
  does not saturate, no denominator of `compute_rank_score` wraps either, provided the scale is above 1.
- **`ClawOnchainProofs`**, `claw_onchain`: `SkillsAlwaysMatch`, by `SkillInv` (types and, for each key, agreement with
  its versions). `AccountsHold`, by `AccountsInv`: each counter is the cardinality of a set of accounts or a sum over
  them, so an instruction adds one to both; a skill that does not exist has no versions and a profile that does not
  has no counts, or the sums would jump when one is created; the trust of a reputation is always that of its
  counts. `SuccessHurtsNobody` takes what the code has, a scale of 10000, and no more events than keep
  `bps_from_ratio` from saturating (with a u64, some 10^15); it rests on `SuccessNeverLowersRatio` and
  `TrustNeverWraps`. One lemma per instruction, and "keep" lemmas for the counters it does not touch.
- **`ClawOnchainProofs`**, `claw_machine` and `claw_nft`: `MachineHolds`, `CollectionHolds` by inductive invariants
  that are the properties themselves with the types, for mints of any number of tokens before;
  `EvidenceAlwaysStays`, `FrozenAlwaysForGood`. `OnchainParts` shows that a behaviour of the programs side by side
  is one of each, so `SkillsMatchOnchain`, `AccountsAlwaysAgree` and `RegistersAlwaysHold` follow for the module the
  run checks. The parts of `NeverTakenBack` are proved each of its own program; no theorem states the conjunction.
- **`WalletsProofs`**, sessions: `IndexAlwaysNames`, `SessionsRestOnNonces`, `TokensStayDead`, by
  `Inv == TypeOK /\ IndexNamesTheSession /\ SessionRestsOnNonce`: the first is needed so that what a handler
  deletes by one map is what the other names, the second so that a fresh verification cannot meet a session of
  the same nonce.
- **`WalletsProofs`**, the module the run checks: `WalletsParts` shows that a behaviour of it is one of each
  component. `AutonomyAlwaysKeepsItsWord` rests on `AutonomyInv`: what a request under way has read is well formed,
  the rows before the one it writes next are there, and the gate of an approval has been recorded, while a receipt
  that was given rests on nothing. The gate's own part is `GateIsMonotone`, a case split over levels and risks; the
  figures are bounded by the rows they divide, with `SumTheorems` for the mean confidence. What the code takes is
  assumed: confidences within 0..100, values in Nat, configurations as the input schema lets them through.
- **`WalletsProofs`**, identity: `IdentityRecordsAlwaysAgree`, by `IdentityInv`, for any number of requests.
  `ListsBounded` (no list holds more than was recorded and seeded) and `UsageBounded` say why a reputation that is
  rebuilt from lists already counted stays within what was recorded; `ReceiptsHonest`, at which statements a receipt
  may be confirmed before the chain has it; `QuietHolds`, that while no request was disturbed one is at work, has
  read what there is and leaves a profile that agrees. Besides: to rebuild a reputation just rebuilt changes
  nothing, every step changes lists and reputation in one of five ways (`BooksChange`), and the trust of the two
  seed skills differs by their counts, so their rows have one order.
- **`WalletsProofs`**, skills: `SkillTablesAlwaysAgree` from `RegistryInv`. `SkillControl` says what a request at
  each statement asks and has read; `OneWriter`, that of two requests that write the same columns at once the
  overlap is in `conflicts`, so while the books say nothing the writer is alone (`Alone`); the other parts say what
  its half-done writes look like: the last version row is the one its next statement makes current, the status it
  has read is still the row's, and so are the counts. That the factors explain the score is arithmetic: two
  roundings, to hundredths and to the column's whole points, are at most 0.505 away. A step either begins a request
  (`BegunHolds`) or is one of thirteen turns.
- **`WalletsProofs`**, pages: `PagesAlwaysCurrent` from three invariants. `GovernanceInv`: unless requests have
  crossed, all that is under way is asked for the mode and the wallet of the page, and the payload is of these or a
  load of them is under way; at most one vote is under way. `SignInInv`: a call knows the person of its token or
  nobody, whoever it answers with is in the table by then, and while the tab's own change of the cookie is the last,
  every awaited query went out with it. `PagesInv`: per kind of page, which loads are awaited and for what, and that
  a change made here is known to the record shown or to an awaited load.

- **`OperationsProofs`**, memory: `MemoryRecordsAlwaysAgree` and `AdviceAndProofsAlwaysStay`, by three invariants.
  `MemoryInv` (theorem `MemoryInvAlways`) holds however requests overlap: each call under way is about what exists,
  and a list of calls has what is under way before what is asked for, the marks of a bundle first and an awaited
  call of the chain at its head; the threads of a bundle's links only save and push, while the request waits with
  its first mark. `PatientInv` adds what holds for callers that wait: one caller is at work, every receipt is found
  by its reflection, an awaited anchor is of a reflection without a receipt, and marks are of bundles for their
  turn. `TellInv`: what has happened is in the timeline or a thread will push it, unless a write has failed. That a
  bundle takes each advice once and is full or has all it looked at rests on `Ranked`: the candidates before one, in
  a total order, number their ranks.

- **`OperationsProofs`**, wallet pages: `WalletIsAlwaysTheUsers`, by `WalletSound`. `TasksFit` says by its phase
  what each task under way has read; `TokensAreOut`, that every token that is shown, stored, carried or signed out
  was issued to a task that is past its signature, so a sign-in still to be answered brings a new one (this is why a
  token once dropped stays out). While no account was overtaken, `SessionInOrder` has at most one task that reads a
  session at a time, all tasks for the account of the extension, and a hydration under way whenever the shown
  session is not its own; `BalanceInOrder` the same of the balance; `ProofInOrder`, that only the last signature is
  still on its way.
- **`OperationsProofs`**, command center: `CommandCenterAlwaysTells`. `LoopsSound` is the checked properties with
  `NewestIsAlone` (unless two loops have overlapped, the newest alone may be in flight, and the page is then busy
  without an error) and `ResultIsOfALoop`. `RuntimeSound` adds types to what is checked. Both hold for any number of
  loops and cycles and every cap of the lists that keeps at least one link.

- **`ServicesProofs`**, JSON stores: `StoresAlwaysHold`, from `StoreKeeps` and `CollectionKeeps`. `StoreSound`:
  snapshots and the file are beginnings of the memory (`StorePrefixes`); a chain has one writer (`InTurns`); while
  no write was cut short or met another, the write in progress or the file has all that was answered (`CalmStore`);
  a rejected chain leaves its file torn (`Poisoned`, which also proves `PoisonedUntilRestart`). `NftSound`: memory,
  file and each write under way count their own mints, and none has mints of a collection that the memory does not
  have.
- **`ServicesProofs`**, receipts: `ReceiptsAlwaysHold`, from `PageKeepsItsChoice` and `PostedReceiptsStay`.
  `PageSound` says of each call of the page which steps are left and for which choice it was made;
  `StructuredSound`, that the last row of an id in the operator's list, which is kept newest first, is what was
  posted first.
- **`ServicesProofs`**, debug collector: `LogsAreAlwaysKept`, by `CollectorSound`: besides types and what is
  checked, a report that is written has its entries in their files or among what was cut, and, unless reports have
  overlapped, the entries of a kind rise from the file through the report not yet written to the buffer, and a file
  above its limit is one whose last trim failed. For every buffer and file size.
- **`ServicesProofs`**, agents: `RunsAreAlwaysEarned`, by `AgentSound`: a run is always `MergedRun` of some goal,
  session and number of lessons. What a built run satisfies is then a fact about `BuildAgentFrameworkRun`, proved
  for every goal and any number of lessons.

`BridgeInv`, `SwarmInv`, `PlanInv`, `TurnInv`, `SkillInv`, `AccountsInv`, `RegistryInv`, `MemoryInv`, `PatientInv`,
`TellInv`, `WalletSound` (with two and three tasks) and the invariant of the governance service were checked by TLC
on the instances of their runs before they were proved. Proving also corrected the models: overlapping guards of a
`CASE` (`SignIn`, `DemoPlayback`, `MemoryReceipts`), of which TLC takes the first and the prover none; a second
reflection of the memory's demo that was anchored as the first; and assumptions TLC's instances had hidden: a cap of
the runtime's links of at least one, a name for "no wallet" that no account has.

Only model-checked, not proved:

- liveness (`PagesSettle`, and of `StoresRecover` the part `SavesAreAnswered`), which is out of the prover's reach;
- `StoryHoldsTogether`: the demo has no parameter, so TLC's run has gone through everything a theorem could say;
- properties of which only parts are proved, each of its own component: `NeverTakenBack`.

## 5. Not modelled, and why

What is left of the repository is mostly not behaviour: rendering (some thirty thousand lines of TSX, among them a
UI kit), fixtures and text tables, types, project templates under `_core`, deployment scripts, read routes that
return one row. Components that nothing renders: `DappActionPanel`, `SolanaReceiptPanel`, `SolanaTxLifecycleCard`,
`SolanaSessionBanner`, `SolanaIdentityDashboard`, `SolanaDiscoverySurface`, `SolanaIdentityGate`, `ReceiptViewer`,
`DashboardLayout`. Calls nobody makes: `ctx.refreshSession`, `useSolanaIdentity`, `setBridgeHealth`,
`patchFrameworkProofRecords`, `markDegraded(false)`, `clearHistory`; `HttpError` has no thrower, and the delays of
retry policies have no reader. The handler of `GET /api/solana/status` that asks the circuit breaker
(`registerSwarmApiRoutes.ts:191`) is mounted after one of the same path that always answers
(`solana/routes.ts:126`).

Abstracted inside modelled parts: texts, names, hashes beyond equality, timestamps used for display, events, caps of
hundreds or thousands of rows (but for those a part is about). The floating point of
`server/dao/daoService.ts:325` is integer division in the model.

What was met on the way, and is the code's behaviour in the models though no property is about it:

*Chain, bridge, runs.* A confirmation may name a signature, a request and an account that have nothing to do with each
other. A simulated receipt linked by `createLink` is "verified" even when its memory anchor failed.
`persistArtifact` answers "success" while storage says "failed" when the sidecar is disabled; its branches for a
degraded configuration and its catches cannot be reached. The command center's channel says "verified" where the
structured receipt's label of the same run is "pending". A second post of a structured receipt under one id is
answered with itself, but the list keeps the first. `toolPlan` lists `proof.anchor_plan` with an inactive
session; other roles than the coordinator hand off, though only it may delegate, and nobody asks for those
permissions; a goal that matches governance before transaction is not flagged as a transaction. The injection
bundle's prompt says "prior verified lessons" of candidates that were anchored and never verified. An error answer
of a selection or draft does not mean it is not kept. Two drafts of one millisecond share an id.

*Wallets and identity.* After a change of account the page keeps the earlier session until hydration ends, and its
balance until something loads another. A sign-in that was refused can leave a proof "verified" with its
signature once the error is cleared. A message's signature is linked as a transaction, with the hint "Transaction
finalized on Solana."; its own history row stays pending. `avgReflectionQualityBps` is a ratio of a sum already in
basis points, so any confidence makes it 10000 and both seeds' discovery scores are at their cap. Failed
deployments raise trust. A use never raises a seed's success counts. The count of a `verified_authorship` event
is overwritten by the next rebuild. An unused skill that is updated scores 12 while its factors give recency 5, and
an update scores by counts read before an overlapping usage. The "My wallet" scope of the proof explorer lists all
rows once the wallet has gone.

*Autonomy.* The decision route ignores the user's preferences, and approving checks nothing. The profile's text
promises approval for high-risk steps that the gate allows. Every receipt gets a made-up signature, so proof
completion is 100 as soon as there is one; memory usage is never "ignored" nor a decision "overridden" in what the
metrics count; the success rate of runs is not used; "autonomous" is reached without any memory.

*Command center and demo.* A result of one wallet stays under another. The retry of the error panel may start a
second loop while one is busy. The runtime keeps the reference of a 0G link that was cut from the list. In the
demo, the failure story tells of its failure from the first frame; the success story completes its availability
lane while storage is pending; the preview badge is "verified" exactly when the last command receipt's claim is
"pending", against `RECOVERY_BEATS[0].presenterNote`; step 3 of the recovery story shows tool calls "succeeded" that
failed; step 4 lists a receipt the beat hides; the demo page's memory is "verified" where the command center's
bundle says "pending"; the plan names a receipt that does not exist.

*Governance.* `executionReady` is status "succeeded" although a re-finalized, executed proposal is refused;
`finalizeProposal` judges by the configuration's quorum and threshold, not the proposal's (and so does `claw_dao` by
the configuration's quorum); a second create of an id replaces the proposal and leaves its votes in the ledger; the
timeline is that of the first open proposal, so its later stages are never done; voting is offered with no weight;
after demo mode the selection still names the story's proposal, and requests on it fail.

*Errors and logs.* "plan_anchor_failed" matches the earlier "anchor_failed" rule; "solana_cluster_mismatch" and
"walletAddress required" match none and become retryable unknowns; browsers' "Failed to fetch" is not "fetch failed".
The banner queues retries that nobody runs. A 400 from the collector counts as success, overlapping reports
reorder, a lost answer duplicates, and what the beacon carries is answered 200 and written nowhere.

*Sign-in and pages.* A person without a name gets a cookie that `verifySession` always refuses, and so does a
deployment without an app id: publishing sends them to the portal again and again. Over plain http the cookie is
not kept; without a database nobody is recognised; a failing write of `lastSignedIn` refuses the user; without a
portal the login address answers 400. No mounted page offers a logout. A tab shows its user until its next refused
call. `PlanDetailPage`'s error is sticky, and it verifies, which changes the plan, while it reads it; overlapping
loads of `DaoProposalPage` and `ZeroGPage` show what came last; the registry page says "verified" of its bridge before
any answer and lets a full form be published twice while the list reloads; the NFT panel does not reload after a
mint; the busy flag of the receipts page is cleared by a nested load.

Smaller hazards that no property watches: floating-point quorum (`server/dao/daoService.ts:325`), a client that
reuses a proposal id (`:210`), results labelled verified without an anchor client
(`server/plans/PlanAnchorService.ts:112`), `verifyReflection` of degraded receipts (`server/memory/service.ts:373`),
the order of the gate's rules (`server/autonomy.ts:50`), several manifests of one version
(`server/openclaw/bridge.ts:123`).

## 6. Plan

Every component is modelled or has its reason above, and every safety invariant a run checks is proved but the
demo's.

Abstract specifications still worth stating: an append-only versioned log that `PlanReceipts` implements for
callers that wait; a ledger of votes and payments that `DaoService` implements for clients that wait; an atomic
store that `JsonStore` implements between crashes.
