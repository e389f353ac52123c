------------------------------- MODULE Hiring -------------------------------
(***************************************************************************)
(* A run hires one agent in each of its steps (execute.ts: runStep,        *)
(* settleStep): it looks the agent up on chain, weighs it against the bar  *)
(* of the flow, calls it over HTTP, checks whose signature the answer      *)
(* carries, anchors the outcome and pays out of the run's escrow.          *)
(*                                                                         *)
(* The steps are the waves of one run: all in one wave, or each depending  *)
(* on the one before.  Meanwhile the agent's owner changes its listing,    *)
(* withdraws its bond or restarts the agent under another key, the chain's *)
(* node fails to answer, the funder takes the escrow back, and a           *)
(* transaction given up may still be mined.                                *)
(*                                                                         *)
(* What is read from chain is kept for the run by adapters.ts, stakes.ts   *)
(* and signers.ts/agents.ts, and what is kept includes a `null` that a     *)
(* failed read came to.  A value that may be null is an empty or           *)
(* one-element set; a cache entry is the set of the one value kept.        *)
(***************************************************************************)
EXTENDS AgentContract, Sequences, FiniteSetsExt

CONSTANTS
    NumSteps, Configs, Keys, Prices, Stakes, Outputs, Budget,
    MaxAttempts,    \* retries.max of the steps
    Timeout,        \* timeoutMs, in ticks of the clock
    MaxTrickles,    \* bound: how often an answer under way shows a sign of life
    MaxChanges      \* bound: changes to the agent's listing, bond and key

ASSUME HiringBounds ==
    /\ {NumSteps, MaxAttempts, Timeout} \subseteq Nat \ {0}
    /\ {MaxTrickles, MaxChanges, Budget} \cup Prices \cup Stakes \subseteq Nat
    /\ Outputs \cap {Unhashable, Bad} = {}
\* override: the caller says where the agent is, with endpointFor;
\* parallel: the steps form one wave; bar: policy.minStake; signedOnly:
\* requireSignedOutput; sdk: the agent is built with the SDK.
ASSUME ConfigsAssumption ==
    Configs \subseteq [override : BOOLEAN, parallel : BOOLEAN, bar : Nat, signedOnly : BOOLEAN, sdk : BOOLEAN]

VARIABLES
    config,
    chain,      \* the agent's listing and bond, as the contracts have them
    agentKey,   \* the key the agent's process signs with
    changes,    \* how often these changed
    cache,      \* kind of value -> what the run keeps of it
    step,       \* step -> the local state of its runStep and settleStep
    escrow,     \* the run's escrow
    mempool     \* transactions of the escrow client not yet mined
vars == <<config, chain, agentKey, changes, cache, step, escrow, mempool>>

Evidence == INSTANCE StepEvidence WITH Empty <- Null, Other <- Bad

Steps == 0 .. NumSteps - 1
Unknown == -1
\* payment: what the run's result says of the step's payment, if anything;
\* hired: the listing it resolved.
NotStarted == [at |-> "policy", fetching |-> FALSE, hired |-> {}, attempt |-> 0, timer |-> 0,
               trickles |-> 0, answer |-> Nothing, status |-> Unknown, awaiting |-> FALSE, payment |-> {}]

Init ==
    /\ config \in Configs
    /\ \E k \in Keys, p \in Prices, s \in Stakes :
           /\ chain = [active |-> TRUE, price |-> p, signer |-> k, stake |-> s]
           /\ agentKey = k
    /\ changes = 0
    /\ cache = [kind \in {"adapter", "stake", "signer"} |-> {}]
    /\ step = [i \in Steps |-> NotStarted]
    /\ escrow = [balance |-> Budget, closed |-> FALSE, paid |-> [i \in Steps |-> 0],
                 allocation |-> [i \in Steps |-> 0]]
    /\ mempool = <<>>

OnlySteps == UNCHANGED <<config, chain, agentKey, changes, cache, escrow, mempool>>

Is(i, at) == step[i].at = at
Moved(i, at) == [step[i] EXCEPT !.at = at, !.fetching = FALSE, !.timer = 0]
Ends(i, status) == [Moved(i, "anchor") EXCEPT !.status = status]
Becomes(i, state) == step' = [step EXCEPT ![i] = state]

\* Its turn: every step of an earlier wave is settled.
Started(i) == config.parallel \/ \A j \in 0 .. i - 1 : Is(j, "done")
Blocked(i) == ~config.parallel /\ \E j \in 0 .. i - 1 : step[j].status # Evidence!StatusOk

-----------------------------------------------------------------------------
\* Reading the chain.

\* What a step looks up where it is, and whether it needs to.
Kind(i) ==
    CASE Is(i, "policy") -> "stake"
      [] Is(i, "identity") -> "signer"
      [] OTHER -> "adapter"
Needs(i) ==
    CASE Is(i, "policy") -> config.bar > 0
      [] Is(i, "resolve") -> ~config.override
      [] Is(i, "schema") -> TRUE
      [] Is(i, "identity") -> step[i].answer.signature # {}
      [] Is(i, "settle") -> step[i].status = Evidence!StatusOk /\ step[i].answer.signature # {}
LookingUp(i) == step[i].at \in {"policy", "resolve", "schema", "identity", "settle"} /\ Started(i)

OnChain(kind) ==
    CASE kind = "adapter" -> [active |-> chain.active, price |-> chain.price]
      [] kind = "stake" -> chain.stake
      [] kind = "signer" -> chain.signer

\* evaluateReputation: an unknown bond meets no bar.
MeetsBar(stake) == config.bar = 0 \/ \E s \in stake : s >= config.bar

\* checkReputation, after the check for upstream failures.
Judge(i, stake) ==
    Becomes(i, IF Blocked(i) \/ ~MeetsBar(stake) THEN Ends(i, Evidence!StatusSkipped)
               ELSE Moved(i, "resolve"))

\* resolveEndpoint.
Resolve(i, adapter) ==
    Becomes(i, IF config.override \/ \E a \in adapter : a.active
               THEN [Moved(i, "schema") EXCEPT !.hired = adapter]
               ELSE Ends(i, Evidence!StatusFailed))

\* checkInputSchema: refuses only what a schema that was read refuses.
CheckInputSchema(i, adapter) ==
    \/ Becomes(i, Moved(i, "send"))
    \/ adapter # {} /\ Becomes(i, Ends(i, Evidence!StatusFailed))

\* The digest an agent signs for a step: it names the step and the output.
Claim(i, output) == Evidence!OutputClaim("run", i, "agent", "input", output)

\* The signature against the key the registry has for the agent.
CheckIdentity(i, key) ==
    LET answer == step[i].answer
        valid == Evidence!VerifyAgentSignature(Claim(i, answer.output), answer.signature, key)
    IN  Becomes(i, Ends(i, Evidence!DecideStepStatus(
            [attestation |-> FALSE, binding |-> "present", signedOutput |-> config.signedOnly],
            {}, "absent", valid)))

\* settleStep, up to the first transaction: what it pays is the listed price.
Price(i, adapter) ==
    LET unsigned == step[i].status = Evidence!StatusOk /\ step[i].answer.signature = {}
        amounts == IF unsigned THEN {0} ELSE {a.price : a \in adapter} \ {0}
    IN  Becomes(i, [Moved(i, IF unsigned \/ amounts = {} THEN "done" ELSE "allocate")
                       EXCEPT !.payment = {[amount |-> a, released |-> FALSE] : a \in amounts}])

Read(i, value) ==
    CASE Is(i, "policy") -> Judge(i, value)
      [] Is(i, "resolve") -> Resolve(i, value)
      [] Is(i, "schema") -> CheckInputSchema(i, value)
      [] Is(i, "identity") -> CheckIdentity(i, value)
      [] Is(i, "settle") -> Price(i, value)

\* Variant for the mutation checks: nothing is kept.
Kept_Never(value) == {}

\* Whatever the read came to is kept.
Kept(value) == {value}

Lookup(i) ==
    /\ LookingUp(i) /\ ~step[i].fetching
    /\ IF ~Needs(i) \/ (Is(i, "policy") /\ Blocked(i)) THEN Read(i, {})
       ELSE IF cache[Kind(i)] # {} THEN \E kept \in cache[Kind(i)] : Read(i, kept)
       ELSE step' = [step EXCEPT ![i].fetching = TRUE]
    /\ OnlySteps

\* The node answers, or the read fails, which comes to null.
Fetched(i) ==
    /\ step[i].fetching
    /\ \E value \in {{OnChain(Kind(i))}, {}} :
           /\ Read(i, value)
           /\ cache' = [cache EXCEPT ![Kind(i)] = Kept(value)]
    /\ UNCHANGED <<config, chain, agentKey, changes, escrow, mempool>>

-----------------------------------------------------------------------------
\* Calling the agent.

\* Each attempt waits for the whole timeout anew.
Send(i) ==
    /\ Is(i, "send")
    /\ step' = [step EXCEPT ![i].at = "waiting", ![i].attempt = @ + 1, ![i].timer = Timeout]
    /\ OnlySteps

\* What the agent's code comes to, for an agent built with the SDK.
Results(i) ==
    LET request == [input |-> {"input"}, bound |-> TRUE]
    IN  {TemplateInvoke(request, o, [by |-> agentKey, over |-> Claim(i, {o})]) : o \in Outputs}
        \cup {Returns([Nothing EXCEPT !.output = o, !.signature = s]) :
                  o \in {{}} \cup {{x} : x \in Outputs}, s \in {{}, {Bad}}}
        \cup {AgentError(500, TRUE), SchemaError, OtherError}

Responses(i) ==
    LET request == [input |-> {"input"}, bound |-> TRUE]
    IN  IF config.sdk THEN {HandleInvoke(request, result) : result \in Results(i)}
        ELSE {Response(200, {}), Response(200, {Nothing}), Response(503, {})}
             \cup {Response(500, ErrorBody(r)) : r \in {{}, {TRUE}, {FALSE}}}
             \cup {Response(200, {result.fields}) : result \in {x \in Results(i) : x.kind = "returns"}}

\* maxAttempts counts the first attempt too.
AttemptsLeft(i) == step[i].attempt < MaxAttempts

\* After a failed attempt.
TryAgain(i, retryable) ==
    Becomes(i, IF retryable /\ AttemptsLeft(i) THEN Moved(i, "send")
               ELSE Ends(i, Evidence!StatusFailed))

AgentAnswers(i) ==
    /\ Is(i, "waiting")
    /\ \E response \in Responses(i) :
           IF ~IsSuccess(response) THEN TryAgain(i, ParseError(response.body))
           ELSE IF ParseSuccess(response.body) = {}
           THEN Becomes(i, Ends(i, Evidence!StatusFailed))
           ELSE \E doc \in ParseSuccess(response.body) :
                    Becomes(i, [Moved(i, "identity") EXCEPT !.answer = doc])
    /\ OnlySteps

\* Variant for the mutation checks: nobody sets a timeout on the socket.
TimedOut_Never(i) == FALSE

\* The socket was idle for timeoutMs.
TimedOut(i) == step[i].timer = 0

\* A timeout, or the connection breaks: both count as worth another attempt.
TransportFails(i) ==
    /\ Is(i, "waiting")
    /\ TryAgain(i, TRUE)
    /\ OnlySteps
TimesOut(i) == TimedOut(i) /\ TransportFails(i)

\* A part of an answer arrives: the socket was not idle.
Trickles(i) ==
    /\ Is(i, "waiting") /\ step[i].timer < Timeout /\ step[i].trickles < MaxTrickles
    /\ step' = [step EXCEPT ![i].timer = Timeout, ![i].trickles = @ + 1]
    /\ OnlySteps

Less(n) == IF n = 0 THEN 0 ELSE n - 1
Tick ==
    /\ \E i \in Steps : Is(i, "waiting") /\ step[i].timer > 0
    /\ step' = [i \in Steps |->
           IF Is(i, "waiting") THEN [step[i] EXCEPT !.timer = Less(@)] ELSE step[i]]
    /\ OnlySteps

-----------------------------------------------------------------------------
\* Anchoring and paying, step after step once the whole wave came back.
Outcome(i) == step[i].at \in {"anchor", "settle", "allocate", "release", "done"}

Anchor(i) ==
    /\ Is(i, "anchor")
    /\ config.parallel => \A j \in Steps : Outcome(j)
    /\ \A j \in 0 .. i - 1 : Is(j, "done")
    /\ Becomes(i, Moved(i, "settle"))
    /\ OnlySteps

Anchored(i) == Outcome(i) /\ ~Is(i, "anchor")

\* FlowEscrowV2, for one run: allocate within the balance not yet spoken for;
\* release against a signature by the key the agent has now.
Passes(tx) ==
    LET i == tx.step
        others == MapThenSumSet(LAMBDA j : escrow.allocation[j], Steps \ {i})
        answer == step[i].answer
    IN  /\ ~escrow.closed /\ escrow.paid[i] = 0
        /\ CASE tx.op = "allocate" -> others + tx.amount <= escrow.balance
             [] tx.op = "release" ->
                  /\ escrow.allocation[i] # 0 /\ Anchored(i) /\ step[i].status = Evidence!StatusOk
                  /\ Evidence!VerifyAgentSignature(Claim(i, answer.output), answer.signature, {chain.signer})

Executed(tx) ==
    LET i == tx.step
    IN  IF tx.op = "allocate" THEN [escrow EXCEPT !.allocation[i] = tx.amount]
        ELSE [escrow EXCEPT !.allocation[i] = 0, !.paid[i] = escrow.allocation[i],
                            !.balance = @ - escrow.allocation[i]]

Paying(i) == step[i].at \in {"allocate", "release"}
Amount(i) == (CHOOSE p \in step[i].payment : TRUE).amount

\* ViemEscrow.send: a call that would revert now is not sent, and is an error
\* at once, as is a node that does not answer.
SendPayment(i) ==
    /\ Paying(i) /\ ~step[i].awaiting
    /\ LET tx == [op |-> step[i].at, step |-> i, amount |-> Amount(i), awaited |-> TRUE]
       IN  \/ /\ Passes(tx)
              /\ mempool' = Append(mempool, tx)
              /\ step' = [step EXCEPT ![i].awaiting = TRUE]
           \/ Becomes(i, Moved(i, "done")) /\ UNCHANGED mempool
    /\ UNCHANGED <<config, chain, agentKey, changes, cache, escrow>>

\* Variant for the mutation checks: a receipt is taken for a success.
Confirmed_AnyReceipt(i, passed) ==
    [step EXCEPT ![i].awaiting = FALSE,
                 ![i].at = IF Is(i, "allocate") THEN "release" ELSE "done",
                 ![i].payment = {[p EXCEPT !.released = Is(i, "release")] : p \in @}]

\* The receipt of a transaction the step waits for.
Confirmed(i, passed) ==
    [step EXCEPT ![i].awaiting = FALSE,
                 ![i].at = IF Is(i, "allocate") /\ passed THEN "release" ELSE "done",
                 ![i].payment = {[p EXCEPT !.released = Is(i, "release") /\ passed] : p \in @}]

Mine ==
    /\ mempool # <<>>
    /\ LET tx == Head(mempool)
       IN  /\ escrow' = IF Passes(tx) THEN Executed(tx) ELSE escrow
           /\ step' = IF tx.awaited THEN Confirmed(tx.step, Passes(tx)) ELSE step
    /\ mempool' = Tail(mempool)
    /\ UNCHANGED <<config, chain, agentKey, changes, cache>>

\* waitForReceipt gives up; the transaction may still be mined.
GiveUp(i) ==
    /\ step[i].awaiting
    /\ Becomes(i, [Moved(i, "done") EXCEPT !.awaiting = FALSE])
    /\ mempool' = [k \in DOMAIN mempool |->
                      [mempool[k] EXCEPT !.awaited = @ /\ mempool[k].step # i]]
    /\ UNCHANGED <<config, chain, agentKey, changes, cache, escrow>>

-----------------------------------------------------------------------------
\* The others: the owner of the agent, and the funder after the deadline.
OwnerActs ==
    /\ changes < MaxChanges /\ changes' = changes + 1
    /\ \/ /\ \E p \in Prices, k \in Keys, a \in BOOLEAN :
                 chain' = [chain EXCEPT !.price = p, !.signer = k, !.active = a]
          /\ UNCHANGED agentKey
       \/ chain' = [chain EXCEPT !.stake = 0] /\ UNCHANGED agentKey
       \/ agentKey' \in Keys /\ UNCHANGED chain
    /\ UNCHANGED <<config, cache, step, escrow, mempool>>

FunderTakesBack ==
    /\ ~escrow.closed
    /\ escrow' = [escrow EXCEPT !.closed = TRUE, !.balance = 0]
    /\ UNCHANGED <<config, chain, agentKey, changes, cache, step, mempool>>

StepAction(i) ==
    \/ Lookup(i) \/ Fetched(i) \/ Send(i) \/ TimesOut(i)
    \/ Anchor(i) \/ SendPayment(i) \/ GiveUp(i)
Done == \A i \in Steps : Is(i, "done")

Next ==
    \/ \E i \in Steps : StepAction(i) \/ AgentAnswers(i) \/ TransportFails(i) \/ Trickles(i)
    \/ Tick \/ Mine \/ OwnerActs \/ FunderTakesBack

Spec == Init /\ [][Next]_vars
\* The event loop runs, a read of the chain returns or fails, timers fire.
\* Nobody has to answer: not the agent, not the chain.
FairSpec == Spec /\ \A i \in Steps : WF_vars(StepAction(i)) /\ WF_vars(Tick)

-----------------------------------------------------------------------------
\* A payment reported as released was made, in the amount reported, however
\* late or failed the transactions before it were (escrow.ts send).
PaymentReportsAreTrue ==
    \A i \in Steps : \A p \in step[i].payment : p.released => escrow.paid[i] = p.amount

\* Where the agent is looked up before it is called and the run hires it one
\* step at a time, accepted signed work is paid, or reported unpaid, at the
\* price of the listing it was hired from, whatever the listing says by then.
PaidAsHired ==
    ~config.override /\ ~config.parallel =>
        \A i \in Steps : \A hired \in step[i].hired :
            Is(i, "done") /\ step[i].status = Evidence!StatusOk /\ step[i].answer.signature # {} =>
                {p.amount : p \in step[i].payment} = {hired.price} \ {0}

\* Every step ends, and its payment is decided, even if neither agent nor
\* chain ever answers, as long as an agent does not trickle for ever.
EveryStepSettles == <>Done
=============================================================================
