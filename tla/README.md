# TLA+ verification of 4RGE (0G Flow)

4RGE runs *flows*: graphs of steps, each done by an agent on somebody else's
server, or by another flow. What each step did is hashed and anchored on chain
as a receipt; a finished run is sealed; an escrow pays agents against receipts
and signatures; an indexer serves the receipts, and a verifier checks them. The
promise of the system is that nobody has to be trusted: a receipt is final, a
seal tells the truth about the run, money follows receipts, and whoever doubts
any of it can check it from public data.

This directory models the programs and contracts that keep that promise, checks
them with TLC on small instances, and proves the most important properties of
the contracts, of the executor, of a hire, of a publication, of the verifier and
of the indexer with TLAPS for instances of any size. `PROJECT.json` lists
components, runs, mutants, findings, hazards and theorems, and maps each
definition to the lines it stands for.

    tlc -workers 2 -config MCExecutor.cfg MCExecutor      # any run of the table below
    tlapm FlowEscrowProofs.tla                            # any *Proofs module

## 1. Inventory

Paths are under `src/`. "Hard" names the behaviour that tests hardly reach.

### Contracts (`contracts/src/`)

A transaction is atomic, and any account may call at any time. The only
interleaving inside a transaction is a payment to a contract, which may call
back before it returns.

| component | state | operations | talks to | hard | correct when |
|---|---|---|---|---|---|
| FlowRegistry | flow → owner, run → flow, executor | publishFlow, startRun | read by the receipts | two accounts race to publish a flow or start a run | a run belongs to one published flow and one executor for ever |
| ExecutionReceiptsV2 | step states, anchored counter (uint32), seals | anchorStep, sealRun; stepOf, statusOf, isAnchored | reads FlowRegistry; read by escrow, indexer, verifier | retries after a crash, anchoring around a seal, a counter kept apart from what it counts | receipts are final; a seal counts exactly the receipts of its run; nothing is anchored after it |
| AgentIdentityRegistry | owners, balances, documents | register, setTokenURI, transferFrom | asked for the owner by the two below | transfers to oneself, mint and transfer in any order | no identity loses its owner; ownership moves one way at a time |
| AgentAdapterRegistryV2 | adapters with versions, directory, operators | registerAdapter, deactivate, setOperator; listActive | reads the identities; read by escrow, executor, indexer | listing, unlisting, re-listing, transfer of the identity | a listed agent can be paid; pages cover the directory |
| FlowEscrowV2 | per run: funding, allocations, released steps | fundRun, topUp, allocate, releaseStep, refundUnspent, refundExpired | reads receipts and registry; pays payees and funders | re-entrant and reverting payees; payment, sweep and expiry in any order; signer and payee read late | money is conserved, never promised twice, never paid unearned, never locked; what was earned stays payable |
| AgentReputationV1 | a bond per agent: amount, clock, slashed | stake, requestUnstake, withdraw, proveEquivocation | reads both agent registries; pays owners and provers | the same re-entrancy; owners, operators and keys that change while the clock runs | bonds are conserved; no bond leaves before the cooldown; only equivocation is slashed, and for good |
| Version 1 contracts | | | | | superseded; their fault (locked funds) is a property of version 2 |

### Executor (`packages/executor/src/`) and core (`packages/core/src/`)

One process, one event loop, one key. `planFlow` (plan.ts) turns a specification
into waves. `executeRun` (execute.ts) publishes the flow if need be, starts the
run, runs the steps of each wave under `Promise.all`, anchors their receipts one
by one, pays the agents, and seals. `runStep` decides whether a step is skipped,
turned down, executed by an agent (adapter.ts: retries, timeouts) or by another
run (`runSubFlowStep`), and stores its trace. adapters.ts, agents.ts, stakes.ts
and signers.ts read the registries and keep what they read for the run;
escrow.ts pays; chain.ts sends transactions and polls 180 s for a receipt. Core
holds what everyone has to agree on: canonical JSON and its hash, templates,
schemas, statuses, linkage, the digest an agent signs. *State*: local variables
of the calls under way; what is persistent is on chain. *Hard*: concurrent steps
and nested runs over one chain and one cache; check-then-act across awaits; a
transaction given up that is mined later; an exception in one step while its
siblings, and the runs they hired, go on; crash and restart. *Correct when* work
starts only on receipts that are on chain, a seal tells the truth, no agent is
called by two lives of the process, a parent never vouches for a child that is
not sealed, a payment is reported only if it was made, and every call ends.

### Agents (`packages/adapter-sdk`, `packages/python-sdk`, `templates/agent`) and their test (`packages/conform`)

An agent answers `POST /invoke`; the SDK checks its result and signs it. The
conformance suite sends an agent what an executor would, one probe after
another. *Hard*: three programs, one of them in another language, each read the
same contract in their own way. *Correct when* an agent that passes can be
hired, and what it signs is what the executor anchors.

### Verifier (`packages/verify/src/`)

`verifyRun` reads the receipts, the seal, the traces, the registries and 0G's
signers, re-folds the chain root, re-hashes, checks attestations, signatures and
linkage, and follows hired runs. *Hard*: it reads at different moments while
executors, agents and registries go on, and any read may fail. *Correct when*
verified means sound, a sound run never fails, and a readable one is verified.

### Indexer (`packages/indexer/src/`), explorer (`packages/explorer-api`, `apps/explorer`)

`catchUp` follows the head in passes of batches: compare block hashes
(`findReorg`), roll back, fetch the logs of three contracts, apply them in
order, move the cursor; between passes `probeAgents` asks agents for their
health. The store is Postgres or memory. The explorer answers a page from
several queries. *Hard*: the chain grows and replaces blocks between any two
awaits; a pass dies half-way and is repeated over what it wrote; queries of one
page see different moments. *Correct when* what is served up to the cursor is
what the chain says, both stores say the same, an honest run is never shown as
one that does not add up, and the index catches up.

### Publishing (`packages/publish`, the explorer's publish page)

Preflight or conformance gate, mint an identity, store the schema, read the
version, list, wait, confirm. *Hard*: every step is an await; the form stays
editable, the wallet may be slow, others publish too. *Correct when* what is
reported as published is on chain as it was entered, and nobody's listing is
replaced unseen.

How they interact: executor → contracts (transactions), executor → agents (HTTP),
executor → storage (traces), contracts → indexer (logs) → explorer, contracts and
traces → verifier, publisher → registries. No two processes share memory; the
shared state is the chain. The rest (storage client, configuration, demo tools) is in section 8.

## 2. Modules

| module | stands for | checked by |
|---|---|---|
| `Chain`, `FlowRegistry`, `ExecutionReceipts` | what the contracts share; FlowRegistry.sol; ExecutionReceiptsV2.sol, which extends it | `MCRegistries`; `ExecutorProofs` |
| `ReceiptLedger` | abstract: runs have one executor, receipts are written once, a seal ends them | implemented by `ExecutionReceipts` (checked and proved) |
| `AgentRegistry` | both agent registries | `MCRegistries`; `PublishingProofs` |
| `AgentDirectory` | abstract: an agent unlisted has neither key nor payee, one listed always has both | implemented by `AgentRegistry` (checked and proved) |
| `AgentAuthority` | abstract: owner, operator and key of an agent change one at a time | implemented by `AgentRegistry` (checked and proved) |
| `FlowEscrow` | FlowEscrowV2.sol over `ReceiptLedger` and `AgentDirectory` | `MCFlowEscrow`; `FlowEscrowProofs` |
| `AgentReputation` | AgentReputationV1.sol over `AgentAuthority` | `MCIndexer`; `AgentReputationProofs` |
| `FlowPlan`, `Executor` | plan.ts (waves), execute.ts, chain.ts, adapter.ts over `ExecutionReceipts` | `MCExecutor`; `FlowPlanProofs`, `ExecutorProofs` |
| `AgentContract` | both ends of `POST /invoke`: adapter-sdk and the template; the executor's reading of an answer | with `Hiring`, `Conformance` |
| `Hiring` | one hire in full: resolvers and their caches, reputation bar, invocation, identity, payment | `MCHiring`; `HiringProofs` |
| `StepEvidence`, `Linkage` | what a step leaves (receipt, trace, attestation, signature, status); linkage.ts | with `Verifier` |
| `Verifier` | verify.ts and sources.ts, over executors that record rightly or wrongly | `MCVerifier`; `VerifierProofs` |
| `Indexer` | ingest.ts and the follow loop, over a chain that forks | `MCIndexer`; `IndexerProofs` |
| `Stores`, `Explorer` | both stores, table by table and query by query; server.ts and health.ts over them | `MCExplorer`; `IndexerProofs` |
| `Publishing` | publish.ts, PublishPage.tsx, wallet.ts, preflight.ts over `AgentRegistry` | `MCFormats`; `PublishingProofs` |
| `Abi`, `Wire` | the ABI and its copies; the encoders and decoders, byte by byte | `MCFormats` |
| `Canonical`, `Templates`, `Documents` | canonicalize.ts and canonical.py; template.ts and planFlow; the documents of a run | `MCFormats` |
| `Schemas`, `Conformance` | schema.ts and golden.ts; the conformance suite and the hire after it | `MCFormats` |

Modules are composed in three ways. The escrow and the bonds stand over
*abstract* specifications of the contracts they read, each shown to be
implemented by the detailed module: what is proved of the escrow over
`ReceiptLedger` holds over ExecutionReceiptsV2. The executor and the publishers
stand over the *detailed* contracts, because which call they refuse, and why, is
what they have to live with. And components that share nothing are explored
*side by side* in one run (`MCRegistries`, `MCIndexer`, `MCFormats`): the first step
chooses which of them moves, so the states are the sum and not the product,
and each property is of one of them alone.

### State and actions against the code

*Contracts.* A variable per mapping, an action per external function; the guard is
the conjunction of the `revert` conditions, so a call that reverts is a call that
is not enabled. `FlowEscrow` and `AgentReputation` keep, besides the mappings,
totals of what the events say was paid in and out (what an observer of the log
knows); no guard reads them. `stack` holds one snapshot of the storage per
payment whose callee is a contract and has not returned: `PaymentReturns` pops it,
`PaymentFails` pops it and restores the snapshot, and while it is not empty only
contracts may call, any function of any contract. Signatures are the set
`signed` of pairs of key and claim; hashes are injective, so a claim is a record.

*Executor.* `proc[r]` is the frame of `executeRun` for run `r`: `pc` names the await
it is at, `awaiting` whether its transaction was sent, `statusById`, `wave`,
`halted`, `lineage` are the local variables of those names. `task[r][i]` is the
frame of `runStep`. `mempool` holds transactions sent and not mined, in nonce
order, with whether somebody still polls for them. One action per stretch of
code between two awaits. `hired` records which start of the process called which
agent: history, read by no guard. A throw of `executeRun` sets `pc` to "threw" and
leaves the `task`s of the wave as they are, as Promise.all does.

*Hiring.* `step[i]` is the frame of `runStep` and then `settleStep` for one step;
`cache[kind]` what the run keeps of a read, a `null` from a failed one included;
`chain` the agent's listing and bond, `agentKey` the key its process signs with,
`escrow` the run's money and `mempool` the payments not yet mined. The owner, the
funder and the chain act in between. `timer` counts down by `Tick`, and an answer
that trickles sets it back.

*Verifier.* `receipts` and `seal` are the logs; `frames` the calls of `verifyRun` under
way, innermost last, each with its `failures` and what is `incomplete`; `unread` the
kinds of read that failed. Executors anchor by `StepEvidence`'s operators, or are
at fault once in one of eight ways (`Misrecorded`): the input, trace, status, bundle,
signature, agent, hired run or root they record is another one.

*Indexer and explorer.* `store` is the tables and the cursor; `pass` the local
variables of `catchUp` and `ingestRange`; `chain` a sequence of blocks, each with its
events and the number of the fork it was made on, which stands for its hash.
`settled` remembers whether every block that was replaced lay above the cursor, no
pass ran meanwhile, and the next one came before it was final: the case the code
handles (findings 3 and 4 are the others). `Explorer` writes every event to `memory` (maps)
and to `tables` (sets of rows) and serves `request` query by query from the second. A
Map is iterated over in the order its keys came in, and `stepTurns` and `sealTurns` are that
order, because the sort of `listRuns` leaves runs of one last block in it. What `ORDER BY`
leaves open is open: a query of `tables` that lists runs is the set of its answers.

*Publishing.* `jobs[j]` is a publication by either front, `page` the form, its phase and
its last preflight; `txs` the publisher's transactions in nonce order.

*Formats.* `Wire` holds one call or one answer: what is meant, the bytes, and what
was understood. `Documents` runs flows of up to three steps: templates are planned and
resolved, hashed, sent, hashed again by an agent in either language, answered.
`Conformance` walks through the suite's probes and then through one hire.

## 3. Runs

| run | question | bounds | answer |
|---|---|---|---|
| `registries` | do seals count the receipts, do pages cover the directory, are the three abstract specifications implemented? | 2 flows, 2 runs, 2 accounts, 3 steps, two statuses and one out of range; 2 agents, 2 keys, versions to 2 | yes |
| `escrow` | is money conserved, backed and earned, does what was earned stay payable, and does an ordinary funder's money leave the escrow some day? | 1 run of 2 steps, amounts 1 and 2, budget 2, one ordinary account and one contract in every role, calls nested 2 deep, time to 2 | yes, if the funder keeps claiming |
| `escrow_sweep` | does a sweep return all that was not earned? (FlowEscrowV2.sol:267) | the same, two keys, time to 1 | no: finding 1 |
| `executor` | truth of seals, work on receipts, one life per agent call, vouching; does every call end? | five jobs: a diamond of three agents called up to twice; a fork whose last step needs one of the first two; two siblings that hire one flow; a nested run; a flow that hires itself; 2 starts of the process (1 for the fork and the pair); somebody else may publish every flow but the pair's two | yes |
| `executor_traces` | is a step whose trace was lost recorded? (0g-flow-spec.md:39) | the job that hires itself | no: finding 2 |
| `indexer`, the bonds | are bonds conserved and slashes proven, is the cooldown kept? | 1 agent, an account and a contract, 2 keys, 2 works about one step, bonds to 3, period 2, time to 4, 1 nested call | yes |
| `indexer`, the index | is what is served the chain's and up to date? | 3 blocks, batches of 2, finality 2, one replacement of up to two blocks, one failed pass | yes, where the cursor was not passed by a fork |
| `indexer_reorg` | does the index forget replaced blocks? (ingest.ts:9-14) | the same, receipts only | no: finding 3 |
| `explorer` | do the stores agree, order and pages included, do honest runs add up, are withdrawn agents spared? | 3 blocks with up to three events, 2 runs, 2 agents, pages of 1 and 2 from each offset to 2 (`MaxPage`), 2 recent runs (`RecentRuns`), one replaced block, one failed pass, one round of probes | yes, while all runs are recent |
| `explorer_recent` | do they agree on an agent's runs when not all runs are recent? (postgres-store.ts:4) | 2 blocks of one step each, 2 runs of an agent each, 1 recent run | no: finding 22 |
| `verify` | is verified sound, is sound never failed, is readable and honest verified? | a run of 3 steps, one of which hires a run that may claim to have hired the first; 3 keys, one rotation, one revocation, two registries, at most one kind of read failing, one fault of eight kinds | yes |
| `hiring` | are payment reports true, is accepted work paid as hired, does every step settle? | 2 steps, one agent; looked up in turn with a bar and signatures by an SDK agent, or in parallel at a caller's endpoint with any HTTP service; 2 attempts, one change by the owner, one trickle | yes |
| `formats`, the publishers | is what is reported on chain, is no listing lost unseen, does every publication end? | 2 publications by either front, of an own, another's or a new identity; one preflight, one act of another owner or operator | yes |
| `formats`, the exchanges | is every call and answer read right; do inputs rest on needs; do agents sign what is anchored; do hashes identify documents; can conformant agents be hired; do golden inputs fit? | every field at 0, its largest value and one more; texts below, at and above a word; every cut; 55 flows of up to three steps, 21 documents at the edges of the canonical form; 10 leaf schemas and all objects of two fields over them; agents defective in every way, one unanswered probe | yes |

*Why these bounds are enough.* The mappings of a contract are per run or per agent
and no function touches two keys, except the paging and the balances, which have
two agents; two accounts are the smallest number where somebody else can
interfere. The escrow needs two steps (one paid while the other is promised) and
two nested calls (a callee that calls back inside a call back adds nothing but
another snapshot); the proofs drop these bounds altogether. The executor's jobs
are the shapes a plan can have: parallel steps with a join, a later step that a
failed step does not block (so that only failFast stops it), parallel sub-flows,
nesting, recursion; two starts are a crash and a recovery. The pair's hired runs
already race each other for their flow, so no third party does. Three blocks with
batches of two make a full batch and a cut one, before and behind the point where
the chain may still change. For the stores, two runs are two whose order matters, in one
block a tie, and more runs than MemoryStore looks through when that number, 1000 in the code, is 1. The verifier's three steps have every relation that a
check compares: a step on the inputs, one on another's output that hires, one in
the same wave that needs an attestation; two runs that name each other exhaust
the depth. Two steps suffice for the caches of a hire, whose entries are per agent;
two publications for the version, which is per identity. The ABI is scaled down
(words of 4 bytes of 8 values) in the proportions that the decoders test: what
they do depends on a length against the data's end and a value against its
type's range. Every passing run fires every action, and each of its properties is
violated by a mutant of the code (`PROJECT.json`, "mutants"): variants named
`<Definition>_<Change>` beside the definition they change.

`CHECK_DEADLOCK FALSE` where the system may really stop: a chain nobody calls, a
worker whose runs have ended, an indexer, a publisher or a suite that is done, so
a state without successor is no error. Progress is a liveness property instead.

The type invariants are proved, not run: a variable of the wrong type breaks the
other properties first.

## 4. Fairness

- `FlowEscrow!Fairness`: time passes, the outermost payment returns (gas runs out),
  and an ordinary funder's claim of an expired budget is included in some block
  if it is made again and again. Strong, because other transactions may disable each for
  a moment. Nothing is assumed of executor, agents or contract funders.
- `Executor!ExecFairness`: weak fairness of *one* action, the step of the event loop:
  something that can run, runs. Which ready continuation is taken is open, and
  nothing is assumed of chain, agents or storage: a transaction need never be
  mined, because the poll gives up; an invocation ends by its answer or its
  timeout.
- `Hiring!FairSpec`: weak fairness of each step's own continuation and of the timers.
  Neither agent nor chain has to answer. The timeout of adapter.ts:123 is an idle
  timeout of the socket, so an agent that keeps sending bytes holds a step for
  ever; `MaxTrickles` bounds that, and `EveryStepSettles` holds only because of it.
- `MCIndexer!FairSpec`: weak fairness of the pass: cli.ts polls for ever and catches
  what a pass throws. A pass that throws before the loop was entered ends the
  process, and is started again, as after a crash.
- `MCFormats!FairSpec`: weak fairness of each publication: calls are answered or
  fail and the wallet's owner decides. No transaction has to be mined.

Liveness, like ENABLED, stays with TLC.

## 5. Theorems

All proofs are about the modules TLC checks, for every value of the constants that
meets the named ASSUMEs.

**ExecutorProofs**, of the contracts: `ReceiptsTyped`, `SealCounts`, `ReceiptsBelong`,
`ReceiptsFinal`, `ReceiptsRefineLedger`. Assumed: the zero id is no id
(`ZeroIsNoId`), the number of steps fits the counter (`CountFits`). "A seal's count
is the number of receipts" is not inductive: it holds because nothing is anchored
after a seal *and* the counter, kept apart from the step states, kept pace
before it. `ReceiptsInv` adds that second fact, for every run and at every moment;
the anchoring step is a lemma of its own (`AnchorCounts`: the step was not in
the set, so the cardinality grows by one, and with fewer steps than the modulus the
increment cannot wrap). Finality and refinement follow from the types and from
`ReceiptsInv`, action by action.

**FlowEscrowProofs.** `EscrowTypeOK`, `EscrowBacked`, `EscrowConserved`, `EscrowEarned` and the
action property `EscrowKeepsEarned`, for any number of runs, steps and accounts, and any depth of nested calls. The
allocations of a run are a sum over its steps; `Total(f, sum)` says what a sum is
by its partial sums, and `TotalUpdate`, the arithmetic core, that changing one
term changes the sum by the difference. `RunSound` is what one run's record keeps
to itself, and there is a lemma per operation on one record. `IInv` asks `Sound` of the
storage *and of every snapshot on the stack*: a payment that fails restores an old storage, so
without the second part the invariant would not survive `PaymentFails`. Claims
only grow, so a restored storage is still earned by what is signed now
(`MoreClaims`). That what was earned stays payable goes action by action: each
either leaves the step's allocation, receipt, signature and listing alone or is one
of the exceptions the property names.

**AgentReputationProofs.** `BondsTyped`, `BondsConserved`, `SlashesProven`, `SlashIsForGood`,
`CooldownHolds`. `Kept` is what one agent's bond, account and time of the last stake
keep to; its core is that a running clock ends no earlier than a period after the
last stake, which is why the cooldown holds although owner, operator and
stakers change between request and withdrawal; there is a lemma per operation. `IInv`
asks it of the storage and of every snapshot. The cooldown needs one thing more:
restoring a snapshot must not look like a withdrawal, so `FramesSound` orders the
snapshots by their withdrawals (`Older`) and `Pop` hands the order on.

**PublishingProofs**, of the agent registries: `AgentsTyped`, `BalancesCount`, `DirectoryComplete`,
`PagesAreComplete`, `AgentsRefineDirectory`, `AgentsRefineAuthority`. A balance counts the identities owned, so a mint and
a transfer change a cardinality by one, and a transfer to oneself by none. The
refinements need facts no abstract state shows: an agent that was listed was minted
(`OwnersKept`), one listed has key and payee and one never listed has nothing
(`AdaptersKept`); the directory names each agent ever listed once (`DirectoryKept`). From that
the pages: after i entries `listActive` holds the active ones from the offset on, each at
the place its rank among the active gives it (`Found`, `FoundNext`), and every rank is a place of one page
(`OnSomePage`). The loop is a recursive function; that it exists, and what it computes, is by
the least number of entries for which it would not (`LeastNatural`).

**FlowPlanProofs.** `UpstreamsInEarlierWaves`, `WavesDisjoint`, `EmptyWaveMeansDone`: the
waves of any acyclic plan. `DoneAfter` is a recursive function, and that it is what
its defining equation says needs an induction; the library's theorems take an
operator, so the induction is over a *set* of numbers instead (`SetInduction`, from the
library's facts about finite sets of numbers), and `RoundsExist`
builds the function from its initial segments. "A step that never becomes done is
on a cycle" is thereby a theorem and no assumption of the executor's proof.

**ExecutorProofs**, of the executor: `SealedRunsAreComplete`, `WorkStandsOnReceipts`, `AgentsAreCalledInOneLife`,
`ParentsVouch`. Assumed, besides what the contracts assume: a flow that is executed was
accepted by the planner (`FlowsAreAccepted`: `executeRun` plans first and throws
otherwise), and run ids are derived (`HiredRunsAreDerived`: the id of a hired run is the
hash of its parent's id and step under a prefix of its own, so no two steps share
one and nobody asks for one at the root). `ExecInv` is inductive: `ChainOK` says what the
chain holds of a run stands on receipts and was done by one life of the process;
`SaysTheTruth`, that a transaction in the mempool, perhaps given up long ago, says
what was true when it was sent, and since the chain only grows (`Grows`) is true
when it is mined; `Stage` relates each `pc` of `executeRun` to the waves before it;
`TaskOK` a step under way to what it waits for; `AwaitedOnce` that a receipt is waited
for by one frame at most; `WasAskedFor` that a run is called once in a life of the
process, either as the root or by the one step that hires it. There is a lemma
per action; what every action owes the rest of the state is said once.

**PublishingProofs**, of the publishers: `ReportedListingsStand`, `ListingsAreSeenBeforeReplaced`, about `PubSpec`, which
`PubFairSpec` implies. Assumed: the publisher is an account, and forms hold the kinds of
value their fields admit, malformed ones included (`PublishingAssumption`). Versions
only grow, and a listing whose version stays is the same but for being deactivated
(`Grows`); `PubInv` says that a publication never read a version above the
one on chain, that a transaction in the pool is the one its job waits for or was
given up, and that no two transactions in the pool are of one job.

**HiringProofs.** `ReportedPaymentsAreMade`, `AgentsArePaidAsHired`, for any number of steps,
retries and changes by the owner. `PayInv` relates a step to the escrow's account of
it (whatever is set aside or was paid is what the step owes) and to every
transaction under way: also one given up moves what its step owes, so a late one
changes who waits, not what is paid. `InTurn` is the core of the second: at
most one step reads the chain, and only what is not kept already, so the listing a step was
hired from is still the one kept when it is paid. In a run that hires in
parallel two reads of one listing may overlap, and finding 13 is the result.

**VerifierProofs.** `VerifiedMeansSound`, `HonestRunsPass`, `ReadableRunsVerify`, for any flows,
steps, agents, keys, rotations, failed reads and faults. Assumed: the planner accepted the flows, run
ids are derived, an output tells of the run that was hired for it, and agents disclose runs
(`FlowsAreAccepted` to `AgentsAreListed`). `VerifyInv` has two halves. `ChainInv` says
what was anchored: one receipt per step, its bundle, and the root a seal
folds. `FramesOK` says of each call of `verifyRun` under way, at each of
its stages, what its list of failures and gaps already rules out, and of a call
followed from another one that its result is the claim's: a clean call has looked at
every receipt it read, so a clean result is sound, and the conclusion of an inner
call is handed on as the outer one takes it in. `HonestInv` adds what a chain without
a fault is like and that the failures found on it are none; `ReadInv` that,
when every read succeeds, there are no gaps either. The last two have hypotheses
that `MCVerifier` has TLC evaluate. `NoLooseQuotes`: no step is anchored ok with an attestation that
only names its signer, which the executor allows a step that asks for
binding "present" and the verifier rejects (docs/attestation-structure.md:370-373 has it
so on purpose). `HiringIsShallow`: runs have ranks within `MaxHireDepth` that
descend from hirer to hired; the executor's limit of nesting (execute.ts, `maxDepth`) and the
verifier's (`maxHireDepth`) agree on it by default, and a deeper run would be incomplete.

**IndexerProofs.** `IndexServesTheChain`, for batches of any size, any finality depth and
any number of blocks, replaced blocks and failed passes. Assumed: blocks hold events
of the three contracts with steps that exist (`ContentsAreEvents`). That rows up to the cursor
are the chain's is not inductive: a failed pass leaves rows above the cursor,
of blocks that may be replaced before the next one. `IndexInv` therefore says what
such rows are worth: a row points at a recorded block (`RowOK`: `recordBlock` comes before
the upsert, so also between the two), a recorded block is the chain's or
in `Replaced`, and those lie above the cursor and are not final (`StoreOK`); the row of a block
that was not replaced is one of its events (`StepRowOK`, `SealRowOK`). `PassOK` says
what the scan has ruled out so far, and that from the first logs on every receipt of the batch is
fetched or written. A step is anchored in one block only (`AnchoredOnce`), so
writing one row loses no other; that there is a next log at all is the least-number principle three
times (`ThereIsANextLog`). The proof needs the last conjunct of `StoreOK`, and so showed
finding 4: with a bound of three blocks and finality 2 no block is both replaced
and final, and TLC alone had not met the case.

`DirectoryFollowsTheChain`, as long as no block was replaced, which is where finding 6
begins. What the rows say between passes is not inductive: a failed pass has
applied some events above the cursor, and the next applies them again, to rows that know
later ones. `DirInv` says the rows are what the events up to some *mark*, a place
in a block, make of them. What lies beyond the mark is `Pending`, and so may be some of
what lies before it; a row owes a field of the state at the mark (`ListingOK`, `BondOK`) only when no
pending event before the mark still sets it. For a bond that is a matter of one height: of
two heights the later wins. Applying an event before the mark again keeps
this up (`ListedAgain`, `BondedAgain`), a new one moves the mark on (`ListedAnew`,
`BondedAnew`): logs are applied in the order of the chain (`ReadInOrder`), so nothing
between the two marks concerns the row (`Walk`). Versions only grow and a slash
stays (`MarksOnward`), because the contracts emit nothing else (`AgentsAreLegal`). At rest
nothing is pending up to the cursor, and the state at the mark is the replay's. `Replay` is a
recursive function, and that there is one follows from the least block without one.

**IndexerProofs**, of the stores and the explorer: `TheStoresAgree`, `WithdrawnAgentsAreSpared`,
`SealedRunsAddUp`, for any number of runs, agents, blocks, failed passes, replaced blocks and
probes. Assumed: blocks hold events of the contracts (`BlocksHoldEvents`), agent ids are
numbers (`AgentsAreNumbers`), no row is null (`NullIsNoRow`), MemoryStore looks through some
number of runs (`RunsAreCut`). `MirrorInv` says of each
table that its rows are the values of the Map, each under its own key (`Mirrors`): every
upsert, conditional or not, keeps that up, because `ON CONFLICT` looks at the one row that
the Map has under the key, and a rollback drops the same rows on both sides.
The queries then agree one by one. A join of a run's steps with its seal has one row
a step, or one without a step, so that counting, the earliest and the latest block come out
as in `runFrom` (`SameRuns`); a page of listings is one expression of the same rows.
Runs are listed by their last block, which several may share, so Postgres
has a choice there, and the theorem is that what MemoryStore lists is among what it may
choose. `TurnsAreKept` is the invariant for that: each key has a turn of its own, through upserts
and rollbacks, so no two runs are met at the same turn (`TurnsApart`) and a set of them
has one order, a newest first one (`RunsInOrder`). An agent's runs are the same by the
same lemma, provided the recent runs are all there are (`AgentRunsAreAlike`); without that
the theorem would be false (finding 22). `ProbesAreListed`,
also in `MirrorInv`, is what a round of probes in progress relies on: no pass
runs meanwhile, so whom it asks is still listed when the answer comes. `AddUpInv` adds
three facts. `LogIsLawful`: receipts of a run are numbered apart and none
follows its seal, which holds their fold. `APrefixIsWritten`: the tables hold exactly
the log up to some event, which may lie *behind* the current position, since a failed pass
leaves what it wrote; with "the tables hold what was applied" instead, the invariant breaks at the first
`FailPass`. `RequestStands`: a run read as sealed still has its seal when its steps are read.
The written prefix that holds a seal holds every receipt of its run, the later query
reads at least as much as the earlier, and so the steps fold to the root. Asked in
the other order, a run sealed in between would be shown with too few of its receipts. `Sorted` and `Put` are written
out in `Stores` because the provers know nothing of TLC's `SetToSortSeq` and `@@`.

Only model-checked: the formats and the conformance suite (RECURSIVE operators, which
only `Canonical`, `Templates`, `Schemas` and the modules over them declare: what they
compute for every input takes an induction over data), and all liveness.

## 6. Plan

Written, in this order: ledger (registry, receipts) → agents → escrow → executor →
indexer → bonds; then what surrounds the core: evidence and verifier → hiring →
conformance → publishing → stores and explorer → wire and documents. What the
plan has left:

1. **Hiring over the contracts**: the payment over `FlowEscrow` in place of the
   escrow of one run that `Hiring` has.
2. **Configuration**, if it ever does more than read the environment.

## 7. Findings

Where code and documentation of the repository disagree; each is quoted in
`PROJECT.json`, and findings 1, 2, 3 and 22 have a run whose trace shows it.

1. A sweep withholds every allocation, also of steps that failed or never ran
   (FlowEscrowV2.sol:280); the comment above it says it withholds what was earned.
2. A trace that cannot be stored ends the run without receipt or seal
   (execute.ts:660); the specification says it is recorded as a failure.
3. A block the cursor has passed is never compared with the chain again
   (ingest.ts:121, :263); the module's comment says each unfinalised block is.
4. Rows of a block that a failed pass wrote, and that was replaced and became final
   before the next pass, are never compared again (ingest.ts:102).
5. Two siblings that hire one unpublished flow race to publish it, and the run
   that loses is abandoned (execute.ts:342); the planner accepts the case on purpose.
6. A rollback deletes an agent's listing and bond although the earlier events they
   were folded from still stand (postgres-store.ts:251).
7. No code indexes FlowPublished (ingest.ts:131); the specification says it is.
8. An attestation whose signer could not be looked up is a note, and the run
   "verified" (verify.ts:604); cli.ts reserves that for runs whose every check ran.
9. With a specification, `verifyRun` throws on a run that has fewer receipts than
   steps (verify.ts:733), instead of finding it incomplete.
10. `ownerOf` answers "no owner" to any error, so a sound run fails during an
    outage (sources.ts:245).
11. An unreadable price is a free agent (execute.ts:911): accepted, signed work may
    be neither paid nor reported unpaid.
12. The deadline sent to an agent is not when the executor stops waiting
    (execute.ts:550): retries and trickles go past it.
13. Steps of one wave may resolve different listings of one agent (adapters.ts:99),
    which adapters.ts:88 excludes.
14. The suite's envelope names no chain, so an agent that always signs is not
    conformant (checks.ts:99).
15. A required property without a description gets no golden value, and the input
    built is one the schema refuses (golden.ts:145).
16. The schema is fetched and the payee and price are encoded after the identity
    was minted (publish.ts:262): a failed check then costs an identity.
17. The explorer's rate counts skipped steps against the agent (server.ts:341);
    reputation.ts excludes them.
18. A run input without a canonical form makes `executeRun` throw after `startRun`
    (execute.ts:525): no receipts, no seal.
19. References with an unknown root, in object keys, or to declared but missing
    inputs pass the planner (plan.ts:148) and fail inside a step.
20. The Python port accepts a key `toJSON` (canonical.py:148), canonicalize.ts does not.
21. The planner accepts one level of nesting more than the executor (plan.ts:199).
22. MemoryStore looks for the runs of an agent or a flow among the 1000 most recent ones
    (memory-store.ts:234, :213), PostgresStore among all; both are held to one test suite.

## 8. Not modelled, and what the models leave out

*Components without a module*: configuration (reads the environment once), the
live-run, demo, probe and benchmark tools (scripts over the modelled
components), the version 1 contracts (superseded), the explorer's remaining pages
(one query and markup each), secp256k1 and keccak.

*Everywhere*: signatures are membership in what was signed, hashes are injective;
gas is only the fact that a transaction ends; wording, logging and layout are out.

*Executor*: a step's payment is one step that cannot fail the run, as in the code;
`Hiring` has it in full, with anchors that always succeed. There the outcome of
fetching a schema is open, and the bars of a flow are one bar on the stake.
An executor may anchor ok a step whose attestation is only "attested" when it
asks for binding "present", and the verifier then fails it; the manners of
`MCVerifier` leave that pair out.

*Verifier*: the formats of legacy attestation reports are one level of binding. It
checks neither `requireAttestation` and `requireSignedOutput` nor that the given
specification hashes to the flow id, so soundness does not speak of them. A run
with a disclosed hire is never better than incomplete; an honest run that is
still in progress with a gap in its receipts is reported failed, so
`HonestRunsNeverFail` speaks of complete reads.

*Conformance*: the suite rejects a null output that the executor anchors, and the
SDK passes a malformed attestation provider on; both are in the model. An
unserialisable `output: undefined` counts as absent. `GoldenInputsFit` excludes
schemas that refuse the values they give as examples, and those of finding 15.

*Publishing*: `hasAdapter` and `getAdapter` are one read; the command line's
`fetchSchema` has no timeout and is assumed to be answered or to fail; a negative
price is refused like a malformed payee.

*Indexer and explorer*: one run, one listing and one bond stand for all in `Indexer`,
since rows of different keys never meet. Columns that are carried along, the
table of flows (nothing writes it), `listRunsForFlow` (`listRunsForAgent` by another column, with
the same cut) and negative limits are out. Neither store breaks ties between runs of one last
block: MemoryStore lists them as they came in, and of PostgresStore every order is allowed, so two of
its pages may overlap; `StoresAgree` compares page with page and not the pages of one
listing with each other. Rolling a folded row back is finding 6, and
`DirectoryReplaysTheChain` speaks of histories without it. `HonestRunsAddUp` rests
on the order of the two queries; a block replaced between them may mix chains.

*Formats*: sizes are scaled down; invalid UTF-8, number formatting and the versions
of Unicode are out. `{{`, `}}` and each word of a path are one unit; `__proto__`
is no key; `identityRegistryOf` (sources.ts:217), which looks at no length, is not among
the answers of `AnswersAreReadRight`; values are shared or cyclic only as `Other`. `Documents` runs no
sub-flows, and a skipped step is one that failed. ownerOf and agentSigner turn
transport failures into negative answers, as in finding 10.

*Hazards without a property*: the rollback of folded rows (postgres-store.ts:251),
the two limits of nesting (plan.ts:199) and the cache that two parallel steps fill
(adapters.ts:99), all findings. That a flow which hires itself ends at all (execute.ts:323)
is not shown by `RunsEnd`, since every run of a bounded model ends; the check of the lineage is in
the model, and one job runs into it. A stake cancels a
withdrawal under way (AgentReputationV1.sol:123), by anybody and as often as they
pay for it; the contract means it so and promises no time, so there is nothing to
check. That following hired runs ends (verify.ts:748) is the shape of the model:
every frame has one hire less to spend.
