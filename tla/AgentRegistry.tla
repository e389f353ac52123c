---------------------------- MODULE AgentRegistry ----------------------------
(***************************************************************************)
(* AgentIdentityRegistry.sol (who owns which agent identity) and           *)
(* AgentAdapterRegistryV2.sol (how an agent is reached, what it charges,   *)
(* where it is paid and which key speaks for it).  The second asks the     *)
(* first who owns an identity on every call, so ownership moves authority  *)
(* over the listing at once; the operator an owner appointed stays.        *)
(*                                                                         *)
(* Endpoint, schema root, metadata and kind are stored and emitted but     *)
(* only checked for being present and in range: one flag, wellFormed, of   *)
(* the submitted record stands for those checks.                           *)
(***************************************************************************)
EXTENDS Chain, Integers, Sequences, FiniteSets, SequencesExt

CONSTANTS
    Keys,           \* addresses an agent may publish as its signer
    MaxAgents,      \* bound: how many identities are minted
    URIs,           \* registration documents
    MaxVersion,     \* bound: adapter versions
    Prices          \* prices an adapter may ask

ASSUME ZeroIsNobody == Zero \notin Accounts \cup Keys \cup URIs
ASSUME RegistryBounds == MaxAgents \in Nat /\ MaxVersion \in Nat /\ Prices \subseteq Nat

\* Ids start at 1: agent 0 is unrepresentable.
Identities == 1 .. MaxAgents

VARIABLES
    nextId,         \* the id the next mint takes
    owners,         \* id -> owner, Zero before the mint
    balances,       \* account -> how many identities it holds
    tokenURIs,      \* id -> its registration document, Zero before the mint
    adapters,       \* id -> its adapter record
    known,          \* id -> whether it was ever listed
    directory,      \* the ids ever listed, in the order they first were
    operators       \* id -> who besides the owner may publish, Zero for nobody

identityVars == <<nextId, owners, balances, tokenURIs>>
adapterVars == <<adapters, known, directory, operators>>
agentVars == <<nextId, owners, balances, tokenURIs, adapters, known, directory, operators>>

NoAdapter == [version |-> 0, active |-> FALSE, payTo |-> Zero, signer |-> Zero, price |-> 0]

\* What a caller may submit; a zero payTo or signer is there to be refused.
Submissions == [version : 0 .. MaxVersion, active : BOOLEAN, payTo : Accounts \cup {Zero},
                signer : Keys \cup {Zero}, price : Prices]

AgentsInit ==
    /\ nextId = 1
    /\ owners = [id \in Identities |-> Zero]
    /\ balances = [a \in Accounts |-> 0]
    /\ tokenURIs = [id \in Identities |-> Zero]
    /\ adapters = [id \in Identities |-> NoAdapter]
    /\ known = [id \in Identities |-> FALSE]
    /\ directory = <<>>
    /\ operators = [id \in Identities |-> Zero]

IsMinted(id) == owners[id] # Zero
SignerOf(id) == adapters[id].signer     \* Zero for an agent never listed
PayToOf(id) == adapters[id].payTo
-----------------------------------------------------------------------------
\* AgentIdentityRegistry: mint to the caller, replace the document, hand over.
Register(caller, uri) ==
    /\ nextId <= MaxAgents
    /\ nextId' = nextId + 1
    /\ owners' = [owners EXCEPT ![nextId] = caller]
    /\ balances' = [balances EXCEPT ![caller] = @ + 1]
    /\ tokenURIs' = [tokenURIs EXCEPT ![nextId] = uri]
    /\ UNCHANGED adapterVars

SetTokenURI(caller, id, uri) ==
    /\ IsMinted(id)
    /\ owners[id] = caller
    /\ tokenURIs' = [tokenURIs EXCEPT ![id] = uri]
    /\ UNCHANGED <<nextId, owners, balances>>
    /\ UNCHANGED adapterVars

\* The balance after the two updates of transferFrom, in their order: a
\* transfer to oneself takes one away and then gives it back.
Moved(from, to) ==
    LET taken == [balances EXCEPT ![from] = @ - 1]
    IN  [taken EXCEPT ![to] = @ + 1]

\* Variant for the mutation checks: the zero address may receive.
MayTransfer_Burn(caller, from, to, id) ==
    IsMinted(id) /\ owners[id] = caller /\ owners[id] = from

MayTransfer(caller, from, to, id) ==
    /\ IsMinted(id)
    /\ owners[id] = caller /\ owners[id] = from
    /\ to # Zero

TransferFrom(caller, from, to, id) ==
    /\ MayTransfer(caller, from, to, id)
    /\ balances' = Moved(from, to)
    /\ owners' = [owners EXCEPT ![id] = to]
    /\ UNCHANGED <<nextId, tokenURIs>>
    /\ UNCHANGED adapterVars

-----------------------------------------------------------------------------
\* AgentAdapterRegistryV2.
MayPublish(caller, id) ==
    /\ IsMinted(id)
    /\ caller \in {owners[id], operators[id]}

\* Variants for the mutation checks: registerAdapter with one check missing.
CanRegisterAdapter_NoPayee(caller, id, a, wellFormed) ==
    /\ MayPublish(caller, id) /\ wellFormed /\ a.signer # Zero
    /\ known[id] => a.version > adapters[id].version
CanRegisterAdapter_SameVersion(caller, id, a, wellFormed) ==
    /\ MayPublish(caller, id) /\ wellFormed /\ a.payTo # Zero /\ a.signer # Zero
    /\ known[id] => a.version >= adapters[id].version

CanRegisterAdapter(caller, id, a, wellFormed) ==
    /\ MayPublish(caller, id)
    /\ wellFormed                   \* kind in range, endpoint not empty
    /\ a.payTo # Zero
    /\ a.signer # Zero
    /\ known[id] => a.version > adapters[id].version

RegisterAdapter(caller, id, a, wellFormed) ==
    /\ CanRegisterAdapter(caller, id, a, wellFormed)
    /\ adapters' = [adapters EXCEPT ![id] = a]
    /\ known' = [known EXCEPT ![id] = TRUE]
    /\ directory' = IF known[id] THEN directory ELSE Append(directory, id)
    /\ UNCHANGED operators
    /\ UNCHANGED identityVars

Deactivate(caller, id) ==
    /\ known[id]
    /\ MayPublish(caller, id)
    /\ adapters' = [adapters EXCEPT ![id].active = FALSE]
    /\ UNCHANGED <<known, directory, operators>>
    /\ UNCHANGED identityVars

SetOperator(caller, id, operator) ==
    /\ IsMinted(id)
    /\ owners[id] = caller
    /\ operators' = [operators EXCEPT ![id] = operator]
    /\ UNCHANGED <<adapters, known, directory>>
    /\ UNCHANGED identityVars

AgentsCall(caller) ==
    \/ \E uri \in URIs : Register(caller, uri)
    \/ \E id \in Identities, uri \in URIs : SetTokenURI(caller, id, uri)
    \/ \E id \in Identities, from \in Accounts, to \in Accounts \cup {Zero} :
           TransferFrom(caller, from, to, id)
    \/ \E id \in Identities, a \in Submissions, wellFormed \in BOOLEAN :
           RegisterAdapter(caller, id, a, wellFormed)
    \/ \E id \in Identities : Deactivate(caller, id)
    \/ \E id \in Identities, operator \in Accounts \cup {Zero} : SetOperator(caller, id, operator)

AgentsNext == \E caller \in Accounts : AgentsCall(caller)

AgentsSpec == AgentsInit /\ [][AgentsNext]_agentVars

-----------------------------------------------------------------------------
\* Variant for the mutation checks: inactive entries count against the offset.
ListActive_CountsInactive(offset, limit) ==
    LET rest == SubSeq(directory, offset + 1, Len(directory))
        active == SelectSeq(rest, LAMBDA id : adapters[id].active)
    IN  SubSeq(active, 1, IF limit < Len(active) THEN limit ELSE Len(active))

\* One entry of the directory, after others: it is passed over while the page is
\* not begun, and left alone once the page is full.
Look(seen, id, offset, limit) ==
    IF Len(seen.page) >= limit \/ ~adapters[id].active THEN seen
    ELSE IF seen.skipped < offset THEN [seen EXCEPT !.skipped = @ + 1]
    ELSE [seen EXCEPT !.page = Append(@, id)]

\* listActive(offset, limit): one pass over the directory that skips the first
\* `offset` active entries and stops once `limit` are found.
ListActive(offset, limit) ==
    LET scan[i \in 0 .. Len(directory)] ==      \* after looking at i entries
            IF i = 0 THEN [page |-> <<>>, skipped |-> 0]
            ELSE Look(scan[i - 1], directory[i], offset, limit)
    IN  scan[Len(directory)].page

\* Reading the directory page after page, by any page size, lists every agent
\* that is active once, in the order of first listing, and no other.
ListedAt(id) == CHOOSE k \in DOMAIN directory : directory[k] = id

PagesCoverTheDirectory ==
    \A limit \in 1 .. MaxAgents :
        LET page(k) == ListActive((k - 1) * limit, limit)
        IN  /\ UNION {ToSet(page(k)) : k \in 1 .. MaxAgents} = {id \in Identities : adapters[id].active}
            /\ \A k, l \in 1 .. MaxAgents : \A i \in DOMAIN page(k), j \in DOMAIN page(l) :
                   k < l \/ (k = l /\ i < j) => ListedAt(page(k)[i]) < ListedAt(page(l)[j])

\* The two registries implement the directory the escrow is composed with:
\* an agent unlisted has neither signer nor payee, one listed always has both,
\* whoever owns the identity and whoever publishes for it.
Directory == INSTANCE AgentDirectory WITH
    AgentIds <- Identities,
    listing <- [id \in Identities |-> [signer |-> SignerOf(id), payTo |-> PayToOf(id)]]

ImplementsAgentDirectory == Directory!DirectorySpec

\* They also implement what the bond contract asks of them: an identity never
\* loses its owner, nor a listed agent its key, and one call changes only one
\* of owner, operator and key.
Authority == INSTANCE AgentAuthority WITH
    AgentIds <- Identities, owner <- owners, operator <- operators,
    signer <- [id \in Identities |-> SignerOf(id)]

ImplementsAgentAuthority == Authority!AuthoritySpec

=============================================================================
