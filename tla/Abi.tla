--------------------------------- MODULE Abi ---------------------------------
(***************************************************************************)
(* The interfaces between the programs and the contracts, twice: as the    *)
(* contracts declare them, and as the programs have them in abi.ts, which  *)
(* is generated but only on demand, and by hand in escrow.ts, adapters.ts  *)
(* and calldata.ts.  A field is a name and a type, a function its fields.  *)
(* Data is a sequence of bytes, W of them to a word; W, a byte's values    *)
(* and the sizes of the types are scaled down, in the same order.          *)
(***************************************************************************)
EXTENDS Integers, Sequences, FiniteSets, SequencesExt, TLC

CONSTANTS Base, W, Absent

ASSUME AbiBounds == Base \in Nat /\ Base > 4 /\ W \in Nat /\ W > 3

TypeBytes(type) ==
    CASE type \in {"uint8", "bool"} -> 1
      [] type = "uint32" -> 2
      [] type \in {"uint64", "address"} -> 3
      [] OTHER -> W

Limit(type) == IF type = "bool" THEN 1 ELSE Base ^ TypeBytes(type) - 1
IsDynamic(type) == type \in {"string", "bytes"}
Fits(type, v) == IsDynamic(type) \/ v \in 0 .. Limit(type)

Names(fields) == {fields[i][1] : i \in DOMAIN fields}
Types(fields) == [i \in DOMAIN fields |-> fields[i][2]]
Values(fields, v) == [i \in DOMAIN fields |-> v[fields[i][1]]]
Named(fields, values) ==
    [name \in Names(fields) |-> values[CHOOSE i \in DOMAIN fields : fields[i][1] = name]]

-----------------------------------------------------------------------------
\* Words, and the standard encoding: a head of one word for each value, in
\* place of a dynamic one its offset; then the tails.
Number(bytes) == FoldLeft(LAMBDA acc, b : acc * Base + b, 0, bytes)
Word(n) == [i \in 1 .. W |-> (n \div Base ^ (W - i)) % Base]
Zeros(n) == [i \in 1 .. n |-> 0]

StringTail(s) == Word(Len(s)) \o s \o Zeros((W - (Len(s) % W)) % W)

AbiEncode(types, values) ==
    LET tails == [i \in DOMAIN types |-> IF IsDynamic(types[i]) THEN StringTail(values[i]) ELSE <<>>]
        offset(i) == Len(types) * W + Len(FlattenSeq(SubSeq(tails, 1, i - 1)))
    IN  FlattenSeq([i \in DOMAIN types |-> Word(IF IsDynamic(types[i]) THEN offset(i) ELSE values[i])])
        \o FlattenSeq(tails)

\* Solidity reads its arguments strictly: it reverts at what does not fit.
AbiDecode(types, data) ==
    LET at(offset) == Number(SubSeq(data, offset + 1, offset + W))
        start(i) == IF IsDynamic(types[i]) THEN at((i - 1) * W) ELSE (i - 1) * W
        readable(i) ==
            /\ start(i) + W <= Len(data)
            /\ IsDynamic(types[i]) => start(i) + W + at(start(i)) <= Len(data)
        value(i) == IF IsDynamic(types[i]) THEN SubSeq(data, start(i) + W + 1, start(i) + W + at(start(i)))
                    ELSE at(start(i))
    IN  IF Len(data) < Len(types) * W \/ \E i \in DOMAIN types : ~readable(i) \/ ~Fits(types[i], value(i))
        THEN Absent ELSE [i \in DOMAIN types |-> value(i)]

-----------------------------------------------------------------------------
\* What the contracts declare.
ReceiptStruct ==
    <<<<"flowId", "bytes32">>, <<"runId", "bytes32">>, <<"stepIndex", "uint32">>, <<"agentId", "uint256">>,
      <<"inputHash", "bytes32">>, <<"outputHash", "bytes32">>, <<"traceRoot", "bytes32">>,
      <<"attestationRef", "bytes32">>, <<"startedAt", "uint64">>, <<"endedAt", "uint64">>, <<"status", "uint8">>>>

AdapterStruct ==
    <<<<"agentId", "uint256">>, <<"kind", "uint8">>, <<"endpoint", "string">>, <<"schemaRoot", "bytes32">>,
      <<"version", "uint32">>, <<"active", "bool">>, <<"payTo", "address">>, <<"signer", "address">>,
      <<"pricePerCall", "uint256">>, <<"metadataURI", "string">>>>

Fn(inputs, outputs) == [inputs |-> inputs, outputs |-> outputs]
RunKey == <<<<"runId", "bytes32">>>>
StepKey == <<<<"runId", "bytes32">>, <<"stepIndex", "uint32">>>>
One(type) == <<<<"value", type>>>>

FlowRegistryFunctions ==
    [publishFlow |-> Fn(<<<<"flowId", "bytes32">>, <<"specRoot", "bytes32">>, <<"name", "string">>>>, <<>>),
     startRun |-> Fn(<<<<"flowId", "bytes32">>, <<"runId", "bytes32">>, <<"executor", "address">>>>, <<>>),
     runs |-> Fn(RunKey, <<<<"flowId", "bytes32">>, <<"executor", "address">>, <<"startedAt", "uint64">>>>),
     executorOf |-> Fn(RunKey, One("address")), flowOf |-> Fn(RunKey, One("bytes32")),
     isPublished |-> Fn(<<<<"flowId", "bytes32">>>>, One("bool"))]

ReceiptsFunctions ==
    [anchorStep |-> Fn(ReceiptStruct, <<>>),
     sealRun |-> Fn(<<<<"runId", "bytes32">>, <<"chainRoot", "bytes32">>, <<"stepCount", "uint32">>,
                      <<"outcome", "uint8">>>>, <<>>),
     sealOf |-> Fn(RunKey, <<<<"chainRoot", "bytes32">>, <<"stepCount", "uint32">>, <<"outcome", "uint8">>,
                      <<"sealedAt", "uint64">>>>),
     isSealed |-> Fn(RunKey, One("bool")), isAnchored |-> Fn(StepKey, One("bool")),
     statusOf |-> Fn(StepKey, One("uint8")), anchoredCount |-> Fn(RunKey, One("uint32"))]

EscrowFunctions ==
    [fundRun |-> Fn(<<<<"runId", "bytes32">>, <<"deadline", "uint64">>>>, <<>>),
     allocate |-> Fn(StepKey \o <<<<"amount", "uint256">>>>, <<>>),
     releaseStep |-> Fn(StepKey \o <<<<"agentSig", "bytes">>>>, <<>>),
     refundUnspent |-> Fn(RunKey, <<>>), refundExpired |-> Fn(RunKey, <<>>),
     balanceOf |-> Fn(RunKey, One("uint256")), allocationOf |-> Fn(StepKey, One("uint256")),
     isReleased |-> Fn(StepKey, One("bool"))]

Declared ==
    FlowRegistryFunctions @@ ReceiptsFunctions @@ EscrowFunctions
    @@ [register |-> Fn(<<<<"tokenURI", "string">>>>, <<>>), registerAdapter |-> Fn(AdapterStruct, <<>>)]

\* The events: the indexed fields are topics, the others data.
Events ==
    [StepAnchored |-> [topics |-> SubSeq(ReceiptStruct, 1, 3), data |-> SubSeq(ReceiptStruct, 4, 11)],
     RunSealed |-> [topics |-> <<<<"runId", "bytes32">>>>,
        data |-> <<<<"chainRoot", "bytes32">>, <<"stepCount", "uint32">>, <<"outcome", "uint8">>>>],
     AdapterRegistered |-> [topics |-> <<<<"agentId", "uint256">>, <<"owner", "address">>>>,
        data |-> SubSeq(AdapterStruct, 2, 10)],
     AdapterDeactivated |-> [topics |-> <<<<"agentId", "uint256">>>>, data |-> <<<<"version", "uint32">>>>],
     Staked |-> [topics |-> <<<<"agentId", "uint256">>, <<"from", "address">>>>,
        data |-> <<<<"amount", "uint256">>, <<"total", "uint256">>>>],
     UnstakeRequested |-> [topics |-> <<<<"agentId", "uint256">>>>, data |-> <<<<"unlockAt", "uint64">>>>],
     Withdrawn |-> [topics |-> <<<<"agentId", "uint256">>, <<"to", "address">>>>, data |-> <<<<"amount", "uint256">>>>],
     Slashed |-> [topics |-> <<<<"agentId", "uint256">>, <<"prover", "address">>>>,
        data |-> <<<<"rewarded", "uint256">>, <<"burned", "uint256">>, <<"runId", "bytes32">>, <<"stepIndex", "uint32">>>>]]

-----------------------------------------------------------------------------
\* What the programs have of it.
FLOW_REGISTRY_ABI ==
    [executorOf |-> Fn(RunKey, One("address")), flowOf |-> Fn(RunKey, One("bytes32")),
     isPublished |-> Fn(<<<<"flowId", "bytes32">>>>, One("bool")),
     publishFlow |-> Fn(<<<<"flowId", "bytes32">>, <<"specRoot", "bytes32">>, <<"name", "string">>>>, <<>>),
     runs |-> Fn(RunKey, <<<<"flowId", "bytes32">>, <<"executor", "address">>, <<"startedAt", "uint64">>>>),
     startRun |-> Fn(<<<<"flowId", "bytes32">>, <<"runId", "bytes32">>, <<"executor", "address">>>>, <<>>)]

AnchorStepABI ==
    <<<<"flowId", "bytes32">>, <<"runId", "bytes32">>, <<"stepIndex", "uint32">>, <<"agentId", "uint256">>,
      <<"inputHash", "bytes32">>, <<"outputHash", "bytes32">>, <<"traceRoot", "bytes32">>,
      <<"attestationRef", "bytes32">>, <<"startedAt", "uint64">>, <<"endedAt", "uint64">>, <<"status", "uint8">>>>

EXECUTION_RECEIPTS_ABI ==
    [anchorStep |-> Fn(AnchorStepABI, <<>>), anchoredCount |-> Fn(RunKey, One("uint32")),
     isAnchored |-> Fn(StepKey, One("bool")), isSealed |-> Fn(RunKey, One("bool")),
     sealOf |-> Fn(RunKey, <<<<"chainRoot", "bytes32">>, <<"stepCount", "uint32">>, <<"outcome", "uint8">>,
                      <<"sealedAt", "uint64">>>>),
     sealRun |-> Fn(<<<<"runId", "bytes32">>, <<"chainRoot", "bytes32">>, <<"stepCount", "uint32">>,
                      <<"outcome", "uint8">>>>, <<>>),
     statusOf |-> Fn(StepKey, One("uint8"))]

ESCROW_ABI ==
    [fundRun |-> Fn(<<<<"runId", "bytes32">>, <<"deadline", "uint64">>>>, <<>>),
     allocate |-> Fn(StepKey \o <<<<"amount", "uint256">>>>, <<>>),
     releaseStep |-> Fn(StepKey \o <<<<"agentSig", "bytes">>>>, <<>>),
     refundUnspent |-> Fn(RunKey, <<>>), refundExpired |-> Fn(RunKey, <<>>),
     balanceOf |-> Fn(RunKey, One("uint256")), allocationOf |-> Fn(StepKey, One("uint256")),
     isReleased |-> Fn(StepKey, One("bool"))]

ABI == FLOW_REGISTRY_ABI @@ EXECUTION_RECEIPTS_ABI @@ ESCROW_ABI

ADAPTER_ABI ==
    <<<<"agentId", "uint256">>, <<"kind", "uint8">>, <<"endpoint", "string">>, <<"schemaRoot", "bytes32">>,
      <<"version", "uint32">>, <<"active", "bool">>, <<"payTo", "address">>, <<"signer", "address">>,
      <<"pricePerCall", "uint256">>, <<"metadataURI", "string">>>>
=============================================================================
