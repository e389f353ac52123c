--------------------------------- MODULE Wire ---------------------------------
(***************************************************************************)
(* What crosses between the programs and the contracts: calls, encoded by  *)
(* viem from the copied interfaces or by hand in calldata.ts; events, and  *)
(* the results of eth_call, decoded by hand in decode.ts, sources.ts and   *)
(* signers.ts, from answers that a node may have cut short; and the two    *)
(* commitments that programs and contracts compute each for themselves.    *)
(***************************************************************************)
EXTENDS Abi

CONSTANTS
    Samples,        \* the values a field of a type may take
    Strings,        \* the texts
    Domain, ChainId, ReceiptsAddress,
    Error

VARIABLES
    meant,          \* the call as its caller means it, or Absent
    calldata,       \* what is sent, or Absent: the encoder refused
    taken,          \* the arguments as the contract has bound them, or Absent
    answer,         \* a log or a result on its way, with what it is to say
    read            \* what the reader makes of it

wireVars == <<meant, calldata, taken, answer, read>>

WireInit == meant = Absent /\ calldata = Absent /\ taken = Absent /\ answer = Absent /\ read = Absent

-----------------------------------------------------------------------------
\* Calls.  viem refuses a number its type has no room for.
Call(name, fields, values) ==
    IF \E i \in DOMAIN fields : ~Fits(fields[i][2], values[i]) THEN Absent
    ELSE [name |-> name, types |-> Types(fields), data |-> AbiEncode(Types(fields), values)]

PublishFlow(v) == Call("publishFlow", FLOW_REGISTRY_ABI.publishFlow.inputs, <<v.flowId, v.specRoot, v.name>>)
StartRun(v) == Call("startRun", FLOW_REGISTRY_ABI.startRun.inputs, <<v.flowId, v.runId, v.executor>>)
AnchorStep(v) == Call("anchorStep", AnchorStepABI, Values(AnchorStepABI, v))
SealRun(v) ==
    Call("sealRun", EXECUTION_RECEIPTS_ABI.sealRun.inputs, <<v.runId, v.chainRoot, v.stepCount, v.outcome>>)
FundRun(v) == Call("fundRun", ESCROW_ABI.fundRun.inputs, <<v.runId, v.deadline>>)
Allocate(v) == Call("allocate", ESCROW_ABI.allocate.inputs, <<v.runId, v.stepIndex, v.amount>>)
ReleaseStep(v) == Call("releaseStep", ESCROW_ABI.releaseStep.inputs, <<v.runId, v.stepIndex, v.agentSig>>)
RefundUnspent(v) == Call("refundUnspent", ESCROW_ABI.refundUnspent.inputs, <<v.runId>>)
ReadContract(name, v) == Call(name, ABI[name].inputs, Values(ABI[name].inputs, v))
RefundExpired(v) == Call("refundExpired", ESCROW_ABI.refundExpired.inputs, <<v.runId>>)

\* calldata.ts, by hand: only a word's width and the form of an address are
\* checked here, the rest by the contract.
RegisterIdentity(v) ==
    [name |-> "register", types |-> <<"string">>, data |-> Word(W) \o StringTail(v.tokenURI)]

\* The tuple follows its offset; the offsets in it count from its own start.
AdapterCall(v, start) ==
    LET endpoint == StringTail(v.endpoint)
        endpointOffset == start + Len(AdapterStruct) * W
        metadataOffset == endpointOffset + Len(endpoint)
        tooWide == {name \in {"agentId", "kind", "schemaRoot", "version", "pricePerCall"} :
                        v[name] > Limit("uint256")}
    IN  IF tooWide # {} \/ v.payTo > Limit("address") \/ v.signer > Limit("address") THEN Absent
        ELSE [name |-> "registerAdapter", types |-> Types(AdapterStruct), data |->
                Word(W) \o Word(v.agentId) \o Word(v.kind) \o Word(endpointOffset) \o Word(v.schemaRoot)
                \o Word(v.version) \o Word(v.active) \o Word(v.payTo) \o Word(v.signer)
                \o Word(v.pricePerCall) \o Word(metadataOffset) \o endpoint \o StringTail(v.metadataURI)]

\* Variant for the mutation checks: the offsets count from the start of the calldata.
EncodeRegisterAdapter_FromCalldata(v) == AdapterCall(v, W)

EncodeRegisterAdapter(v) == AdapterCall(v, 0)

Encode(name, v) ==
    CASE name = "publishFlow" -> PublishFlow(v) [] name = "startRun" -> StartRun(v)
      [] name = "anchorStep" -> AnchorStep(v) [] name = "sealRun" -> SealRun(v) [] name = "fundRun" -> FundRun(v)
      [] name = "allocate" -> Allocate(v) [] name = "releaseStep" -> ReleaseStep(v)
      [] name = "refundUnspent" -> RefundUnspent(v) [] name = "refundExpired" -> RefundExpired(v)
      [] name = "register" -> RegisterIdentity(v) [] name = "registerAdapter" -> EncodeRegisterAdapter(v)
      [] OTHER -> ReadContract(name, v)

\* The values of a field: the number of its place, so that no two are alike,
\* or a boundary of its type; one field at a time.
Boundary(field) == IF IsDynamic(field[2]) THEN Strings ELSE Samples[field[2]]
Plain(fields) ==
    [name \in Names(fields) |->
        LET i == CHOOSE k \in DOMAIN fields : fields[k][1] = name
        IN  IF IsDynamic(fields[i][2]) THEN <<i % Base>>
            ELSE IF TypeBytes(fields[i][2]) = 1 THEN 1 ELSE i]
Cases(fields) ==
    {Plain(fields)} \cup
    UNION {{[Plain(fields) EXCEPT ![fields[i][1]] = x] : x \in Boundary(fields[i])} : i \in DOMAIN fields}

Send ==
    /\ meant = Absent /\ answer = Absent
    /\ \E name \in DOMAIN Declared : \E v \in Cases(Declared[name].inputs) :
           /\ meant' = [name |-> name, v |-> v]
           /\ calldata' = Encode(name, v)
    /\ UNCHANGED <<taken, answer, read>>

\* The contract is found by its selector: the name and the types.  A struct with
\* texts in it is read from where the first word says.
Arguments(call) ==
    IF call.name # "registerAdapter" THEN call.data
    ELSE SubSeq(call.data, Number(SubSeq(call.data, 1, W)) + 1, Len(call.data))

Bound(call) ==
    IF call = Absent \/ call.name \notin DOMAIN Declared \/ call.types # Types(Declared[call.name].inputs) THEN Absent
    ELSE LET values == AbiDecode(call.types, Arguments(call))
         IN  IF values = Absent THEN Absent ELSE Named(Declared[call.name].inputs, values)

Execute ==
    /\ taken = Absent /\ Bound(calldata) # Absent
    /\ taken' = Bound(calldata)
    /\ UNCHANGED <<meant, calldata, answer, read>>

-----------------------------------------------------------------------------
\* Answers.
Log(event, v) ==
    [kind |-> event, cut |-> FALSE,
     topics |-> [i \in DOMAIN Events[event].topics |-> Word(v[Events[event].topics[i][1]])],
     data |-> AbiEncode(Types(Events[event].data), Values(Events[event].data, v)), says |-> v]

Result(kind, data, says) == [kind |-> kind, cut |-> FALSE, topics |-> <<>>, data |-> data, says |-> says]

\* The contracts' events for a call they accept, and what a view returns.
Emit ==
    /\ taken # Absent /\ answer = Absent
    /\ \/ /\ Declared[meant.name].outputs # <<>>
          /\ \E v \in Cases(Declared[meant.name].outputs) :
                 LET fields == Declared[meant.name].outputs
                 IN  /\ \A i \in DOMAIN fields : Fits(fields[i][2], v[fields[i][1]])
                     /\ answer' = Result(meant.name, AbiEncode(Types(fields), Values(fields, v)), v)
       \/ /\ meant.name = "anchorStep" /\ taken.status <= 3 /\ taken.startedAt <= taken.endedAt
          /\ answer' = Log("StepAnchored", taken)
       \/ /\ meant.name = "sealRun" /\ taken.outcome <= 3
          /\ answer' = Log("RunSealed", taken)
       \/ /\ meant.name = "registerAdapter"
          /\ taken.kind <= 3 /\ taken.endpoint # <<>> /\ taken.payTo # 0 /\ taken.signer # 0
          /\ \/ \E owner \in Samples["owner"] : answer' = Log("AdapterRegistered", ("owner" :> owner) @@ taken)
             \/ answer' = Log("AdapterDeactivated", [agentId |-> taken.agentId, version |-> taken.version])
             \/ answer' = Result("getAdapter",
                    Word(W) \o AbiEncode(Types(AdapterStruct), Values(AdapterStruct, taken)), taken)
    /\ UNCHANGED <<meant, calldata, taken, read>>

\* A bond changes: what is said is the bond after the event.  Only the event
\* for a requested withdrawal does not restate the amount.
Bonded(event, v, amount, unlockAt, slashed) ==
    answer' = [Log(event, v) EXCEPT !.says =
                  [agentId |-> v.agentId, amount |-> amount, unlockAt |-> unlockAt, slashed |-> slashed]]

BondChanges ==
    /\ meant = Absent /\ answer = Absent
    /\ \E agentId, before, value \in Samples["uint256"] \cap 0 .. Limit("uint256") :
           \/ /\ value > 0 /\ before + value <= Limit("uint256")
              /\ Bonded("Staked", [agentId |-> agentId, from |-> 1, amount |-> value, total |-> before + value],
                        before + value, 0, FALSE)
           \/ /\ before > 0 /\ value <= Limit("uint64")
              /\ Bonded("UnstakeRequested", [agentId |-> agentId, unlockAt |-> value, held |-> before],
                        before, value, FALSE)
           \/ /\ before > 0
              /\ Bonded("Withdrawn", [agentId |-> agentId, to |-> 1, amount |-> before], 0, 0, FALSE)
           \/ /\ before > 0
              /\ Bonded("Slashed", [agentId |-> agentId, prover |-> 1, rewarded |-> before \div 2,
                        burned |-> before - before \div 2, runId |-> 3, stepIndex |-> 4], 0, 0, TRUE)
    /\ UNCHANGED <<meant, calldata, taken, read>>

\* The contracts are asked: who owns or signs for an agent, which signer 0G has
\* acknowledged for a provider, what is staked.  A call that reverts has no data.
Asked ==
    /\ meant = Absent /\ answer = Absent
    /\ \/ \E kind \in {"ownerOf", "signerOf"}, address \in Samples["address"] \cap 0 .. Limit("address") :
              answer' = Result(kind, Word(address), IF address = 0 THEN Absent ELSE address)
       \/ \E stake \in Samples["uint256"] \cap 0 .. Limit("uint256") : answer' = Result("stakeOf", Word(stake), stake)
       \/ \E signer \in Samples["address"] \cap 0 .. Limit("address"), acknowledged \in 0 .. 1 :
              answer' = Result("getService",
                  Word(W) \o FlattenSeq([i \in 1 .. 9 |-> Word(100 + i)]) \o Word(signer) \o Word(acknowledged),
                  [signer |-> signer, acknowledged |-> acknowledged = 1])
       \/ \E kind \in {"ownerOf", "signerOf", "stakeOf", "getService"} : answer' = Result(kind, <<>>, Absent)
    /\ UNCHANGED <<meant, calldata, taken, read>>

\* A node or a proxy on the way cuts the answer short.
Cut ==
    /\ answer # Absent /\ ~answer.cut /\ read = Absent
    /\ \E n \in 0 .. Len(answer.data) - 1 :
           answer' = [answer EXCEPT !.cut = TRUE, !.data = SubSeq(@, 1, n)]
    /\ UNCHANGED <<meant, calldata, taken, read>>

-----------------------------------------------------------------------------
\* decode.ts.  A decoder that throws reads Error.
\* word: the nth word, which must be there.
WordAt(data, index) ==
    IF Len(data) < (index + 1) * W THEN Error ELSE Number(SubSeq(data, index * W + 1, (index + 1) * W))

AsAddress(word) == IF word = Error THEN Error ELSE word % (Limit("address") + 1)

Decoded(fields) == IF \E name \in DOMAIN fields : fields[name] = Error THEN Error ELSE fields

DecodeStepAnchored(a) ==
    IF Number(a.topics[3]) > Limit("uint32") THEN Error
    ELSE IF WordAt(a.data, 7) # Error /\ WordAt(a.data, 7) > 3 THEN Error
    ELSE Decoded([flowId |-> Number(a.topics[1]), runId |-> Number(a.topics[2]), stepIndex |-> Number(a.topics[3]),
             agentId |-> WordAt(a.data, 0), inputHash |-> WordAt(a.data, 1), outputHash |-> WordAt(a.data, 2),
             traceRoot |-> WordAt(a.data, 3), attestationRef |-> WordAt(a.data, 4),
             startedAt |-> WordAt(a.data, 5), endedAt |-> WordAt(a.data, 6), status |-> WordAt(a.data, 7)])

DecodeRunSealed(a) ==
    Decoded([runId |-> Number(a.topics[1]), chainRoot |-> WordAt(a.data, 0),
             stepCount |-> WordAt(a.data, 1), outcome |-> WordAt(a.data, 2)])

\* Variant for the mutation checks: the length of a text is believed.
DynamicString_Trusting(data, index) ==
    LET offset == WordAt(data, index)
    IN  IF offset = Error \/ offset + W > Len(data) THEN Error
        ELSE LET length == Number(SubSeq(data, offset + 1, offset + W))
             IN  SubSeq(data, offset + W + 1, Min({offset + W + length, Len(data)}))

\* dynamicString: offset and length are held against the data there is.
DynamicString(data, index) ==
    LET offset == WordAt(data, index)
    IN  IF offset = Error \/ offset % W # 0 \/ offset + W > Len(data) THEN Error
        ELSE LET length == Number(SubSeq(data, offset + 1, offset + W))
             IN  IF offset + W + length > Len(data) THEN Error
                 ELSE SubSeq(data, offset + W + 1, offset + W + length)

DecodeAdapterRegistered(a) ==
    LET kind == WordAt(a.data, 0)
        version == WordAt(a.data, 3)
        active == WordAt(a.data, 4)
    IN  IF Error \in {kind, version} THEN Error
        ELSE IF kind > Limit("uint8") \/ version > Limit("uint32") THEN Error
        ELSE Decoded([agentId |-> Number(a.topics[1]), owner |-> AsAddress(Number(a.topics[2])), kind |-> kind,
                endpoint |-> DynamicString(a.data, 1), schemaRoot |-> WordAt(a.data, 2), version |-> version,
                active |-> IF active = Error THEN Error ELSE IF active # 0 THEN 1 ELSE 0,
                payTo |-> AsAddress(WordAt(a.data, 5)), signer |-> AsAddress(WordAt(a.data, 6)),
                pricePerCall |-> WordAt(a.data, 7), metadataURI |-> DynamicString(a.data, 8)])

DecodeAdapterDeactivated(a) == Decoded([agentId |-> Number(a.topics[1]), version |-> WordAt(a.data, 0)])

BondChange(a, amount, unlockAt, slashed) ==
    Decoded([agentId |-> Number(a.topics[1]), amount |-> amount, unlockAt |-> unlockAt, slashed |-> slashed])
DecodeStaked(a) == BondChange(a, WordAt(a.data, 1), 0, FALSE)
DecodeUnstakeRequested(a, current) == BondChange(a, current, WordAt(a.data, 0), FALSE)
DecodeWithdrawn(a) == BondChange(a, 0, 0, FALSE)
DecodeSlashed(a) == BondChange(a, 0, 0, TRUE)

\* sources.ts and stakes.ts: no data, or too little of it, is a negative answer.
AddressResult(data) ==
    IF Len(data) < W THEN Absent
    ELSE LET address == Number(SubSeq(data, Len(data) - TypeBytes("address") + 1, Len(data)))
         IN  IF address = 0 THEN Absent ELSE address

StakeOf(data) == IF Len(data) < W THEN Absent ELSE Number(data)

\* acknowledgedSigner, twice the same: the layout is checked as far as it can be.
AcknowledgedSigner(data) ==
    IF Len(data) < 12 * W THEN Absent
    ELSE IF \/ WordAt(data, 0) # W \/ WordAt(data, 10) > Limit("address") \/ WordAt(data, 11) > 1 THEN Absent
    ELSE [signer |-> WordAt(data, 10), acknowledged |-> WordAt(data, 11) = 1]

\* chain.ts and escrow.ts: viem decodes what the program's interface announces,
\* and throws at less.
ReadResult(name, data) ==
    LET values == AbiDecode(Types(ABI[name].outputs), data)
    IN  IF values = Absent THEN Error ELSE Named(ABI[name].outputs, values)

\* adapters.ts: viem decodes the tuple, and a failure to is no adapter.
ResolvedAdapter(data) ==
    IF Len(data) < W THEN Absent
    ELSE LET values == AbiDecode(Types(ADAPTER_ABI), SubSeq(data, W + 1, Len(data)))
         IN  IF values = Absent THEN Absent ELSE Named(ADAPTER_ABI, values)

Decode(a) ==
    CASE a.kind = "StepAnchored" -> DecodeStepAnchored(a)
      [] a.kind = "RunSealed" -> DecodeRunSealed(a)
      [] a.kind = "AdapterRegistered" -> DecodeAdapterRegistered(a)
      [] a.kind = "AdapterDeactivated" -> DecodeAdapterDeactivated(a)
      [] a.kind = "Staked" -> DecodeStaked(a)
      [] a.kind = "UnstakeRequested" -> DecodeUnstakeRequested(a, a.says.amount)
      [] a.kind = "Withdrawn" -> DecodeWithdrawn(a)
      [] a.kind = "Slashed" -> DecodeSlashed(a)
      [] a.kind \in {"ownerOf", "signerOf"} -> AddressResult(a.data)
      [] a.kind = "stakeOf" -> StakeOf(a.data)
      [] a.kind = "getService" -> AcknowledgedSigner(a.data)
      [] a.kind = "getAdapter" -> ResolvedAdapter(a.data)
      [] OTHER -> ReadResult(a.kind, a.data)

Receive ==
    /\ answer # Absent /\ read = Absent
    /\ read' = [value |-> Decode(answer)]
    /\ UNCHANGED <<meant, calldata, taken, answer>>

-----------------------------------------------------------------------------
WireNext == Send \/ Execute \/ Emit \/ BondChanges \/ Asked \/ Cut \/ Receive
WireSpec == WireInit /\ [][WireNext]_wireVars

\* The commitments.  A hash is the text it is of.
EncodeReceipt(r) ==
    FlattenSeq(<<Word(r.flowId), Word(r.runId), Word(r.stepIndex), Word(r.agentId), Word(r.inputHash),
                 Word(r.outputHash), Word(r.traceRoot), Word(r.attestationRef), Word(r.startedAt),
                 Word(r.endedAt), Word(r.status)>>)

AgentOutputDigest(r) ==
    FlattenSeq(<<Word(Domain), Word(ChainId), Word(ReceiptsAddress), Word(r.runId), Word(r.stepIndex),
                 Word(r.agentId), Word(r.inputHash), Word(r.outputHash)>>)

\* FlowEscrowV2 and AgentReputationV1: abi.encode of what is stored of the step.
EscrowDigest(r) ==
    AbiEncode(<<"bytes32", "uint256", "address", "bytes32", "uint256", "uint256", "bytes32", "bytes32">>,
              <<Domain, ChainId, ReceiptsAddress, r.runId, r.stepIndex, r.agentId, r.inputHash, r.outputHash>>)

-----------------------------------------------------------------------------
\* abi.ts: "a stale ABI here means silently encoding the wrong calldata".  What
\* the caller means is what the contract binds, if all of it fits its types; if
\* not it is refused, on one side or the other, and never cut to fit.
CallsMeanWhatTheySay ==
    meant # Absent =>
        LET fields == Declared[meant.name].inputs
        IN  Bound(calldata) =
                IF \A i \in DOMAIN fields : Fits(fields[i][2], meant.v[fields[i][1]]) THEN meant.v ELSE Absent

\* What is read is what was said, of whole answers always; an answer that was
\* cut short is refused, or nothing of it was missing: "a directory entry with
\* a silently truncated endpoint is worse than one that fails to decode".  The
\* text a reader of the log hashes for the chain root, and the one the agent
\* signed, are then those of the contracts that stored the step.
AnswersAreReadRight ==
    read # Absent =>
        /\ \/ read.value = answer.says
           \/ answer.cut /\ read.value \in {Error, Absent}
        /\ answer.kind = "StepAnchored" /\ read.value # Error =>
               /\ EncodeReceipt(read.value) = AbiEncode(Types(ReceiptStruct), Values(ReceiptStruct, taken))
               /\ AgentOutputDigest(read.value) = EscrowDigest(taken)
=============================================================================
