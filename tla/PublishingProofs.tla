------------------------- MODULE PublishingProofs -------------------------
(***************************************************************************)
(* For every set of accounts, keys and documents and any number of         *)
(* identities and versions: what the two agent registries keep to, and     *)
(* that they implement AgentDirectory, which the escrow stands on, and     *)
(* AgentAuthority, which the bonds stand on.                               *)
(*                                                                         *)
(* Then, for any number of publications besides: what the command line and *)
(* the web page report as published is on chain as it was entered, and no  *)
(* listing is replaced by one who had not seen it.                         *)
(***************************************************************************)
EXTENDS Publishing, FiniteSetTheorems, WellFoundedInduction, TLAPS

-----------------------------------------------------------------------------
\* The agent registries.
OwnedBy(a) == {id \in Identities : owners[id] = a}

AgentsTypeOK ==
    /\ nextId \in 1 .. MaxAgents + 1
    /\ owners \in [Identities -> Accounts \cup {Zero}]
    /\ balances \in [Accounts -> Nat]
    /\ tokenURIs \in [Identities -> URIs \cup {Zero}]
    /\ adapters \in [Identities -> Submissions \cup {NoAdapter}]
    /\ known \in [Identities -> BOOLEAN]
    /\ directory \in Seq(Identities)
    /\ operators \in [Identities -> Accounts \cup {Zero}]

\* A balance is the number of identities its account owns.
BalancesCountOwnedIdentities ==
    \A a \in Accounts : balances[a] = Cardinality(OwnedBy(a))

\* Exactly the ids below the next one are minted; only minted ones are listed.
OwnersKept ==
    \A id \in Identities :
        /\ IsMinted(id) <=> id < nextId
        /\ known[id] => IsMinted(id)

\* A listed agent has a key and a payee; one never listed has neither.
AdaptersKept ==
    \A id \in Identities :
        IF known[id] THEN SignerOf(id) # Zero /\ PayToOf(id) # Zero
        ELSE adapters[id] = NoAdapter

\* The directory holds every id ever listed, once.
DirectoryKept ==
    /\ \A id \in Identities : known[id] <=> \E k \in 1 .. Len(directory) : directory[k] = id
    /\ \A j, k \in 1 .. Len(directory) : directory[j] = directory[k] => j = k

IInv ==
    /\ AgentsTypeOK
    /\ BalancesCountOwnedIdentities
    /\ OwnersKept
    /\ AdaptersKept
    /\ DirectoryKept

-----------------------------------------------------------------------------
LEMMA OwnedFinite ==
    ASSUME NEW a PROVE IsFiniteSet(OwnedBy(a)) /\ Cardinality(OwnedBy(a)) \in Nat
<1>1. IsFiniteSet(Identities)
  BY FS_Interval, RegistryBounds DEF Identities
<1>2. OwnedBy(a) \in SUBSET Identities
  BY DEF OwnedBy
<1> QED
  BY <1>1, <1>2, FS_Subset, FS_CardinalityType

LEMMA InitIInv == AgentsInit => IInv
<1> SUFFICES ASSUME AgentsInit PROVE IInv
  OBVIOUS
<1>1. AgentsTypeOK
  BY RegistryBounds DEF AgentsInit, AgentsTypeOK
<1>2. BalancesCountOwnedIdentities
  <2>1. \A a \in Accounts : OwnedBy(a) = {}
    BY ZeroIsNobody DEF AgentsInit, OwnedBy
  <2> QED
    BY <2>1, FS_EmptySet DEF AgentsInit, BalancesCountOwnedIdentities
<1>3. OwnersKept /\ AdaptersKept
  BY RegistryBounds DEF AgentsInit, OwnersKept, IsMinted, AdaptersKept, Identities
<1>4. DirectoryKept
  BY DEF AgentsInit, DirectoryKept
<1> QED
  BY <1>1, <1>2, <1>3, <1>4 DEF IInv

\* An identity that changes hands changes two balances by one, or none when it
\* goes back to the same hands.
LEMMA HandOver ==
    ASSUME AgentsTypeOK, BalancesCountOwnedIdentities,
           NEW from \in Accounts, NEW to \in Accounts, NEW id \in Identities,
           owners[id] = from, owners' = [owners EXCEPT ![id] = to], balances' = Moved(from, to)
    PROVE  balances' \in [Accounts -> Nat] /\ BalancesCountOwnedIdentities'
<1> DEFINE taken == [balances EXCEPT ![from] = @ - 1]
<1>1. /\ owners \in [Identities -> Accounts \cup {Zero}] /\ balances \in [Accounts -> Nat]
      /\ \A a \in Accounts : balances[a] = Cardinality(OwnedBy(a))
  BY DEF AgentsTypeOK, BalancesCountOwnedIdentities
<1>2. \A a : IsFiniteSet(OwnedBy(a)) /\ Cardinality(OwnedBy(a)) \in Nat
  BY OwnedFinite
<1>3. id \in OwnedBy(from)
  BY DEF OwnedBy
<1>4. \A a \in Accounts : balances'[a] = Cardinality(OwnedBy(a)') /\ balances'[a] \in Nat
  <2> SUFFICES ASSUME NEW a \in Accounts
               PROVE  balances'[a] = Cardinality(OwnedBy(a)') /\ balances'[a] \in Nat
    OBVIOUS
  <2>1. CASE from = to
    <3>1. OwnedBy(a)' = OwnedBy(a)
      BY <1>1, <2>1 DEF OwnedBy
    <3>2. balances'[a] = balances[a]
      BY <1>1, <2>1 DEF Moved
    <3> QED
      BY <3>1, <3>2, <1>1
  <2>2. CASE from # to /\ a = from
    <3>1. OwnedBy(a)' = OwnedBy(a) \ {id}
      BY <1>1, <2>2 DEF OwnedBy
    <3>2. balances'[a] = balances[a] - 1
      BY <1>1, <2>2 DEF Moved
    <3>3. Cardinality(OwnedBy(a)') = Cardinality(OwnedBy(a)) - 1
      BY <3>1, <1>2, <1>3, <2>2, FS_RemoveElement
    <3>4. Cardinality(OwnedBy(a)) # 0
      BY <1>2, <1>3, <2>2, FS_EmptySet
    <3>5. Cardinality(OwnedBy(a)) \in Nat
      BY <1>2
    <3> QED
      BY <3>2, <3>3, <3>4, <3>5, <1>1
  <2>3. CASE from # to /\ a = to
    <3>1. OwnedBy(a)' = OwnedBy(a) \cup {id} /\ id \notin OwnedBy(a)
      BY <1>1, <2>3 DEF OwnedBy
    <3>2. balances'[a] = balances[a] + 1
      BY <1>1, <2>3 DEF Moved
    <3>3. Cardinality(OwnedBy(a)') = Cardinality(OwnedBy(a)) + 1
      BY <3>1, <1>2, FS_AddElement
    <3>4. Cardinality(OwnedBy(a)) \in Nat
      BY <1>2
    <3> QED
      BY <3>2, <3>3, <3>4, <1>1
  <2>4. CASE a # from /\ a # to
    <3>1. OwnedBy(a)' = OwnedBy(a)
      BY <1>1, <2>4 DEF OwnedBy
    <3>2. balances'[a] = balances[a]
      BY <1>1, <2>4 DEF Moved
    <3> QED
      BY <3>1, <3>2, <1>1
  <2> QED
    BY <2>1, <2>2, <2>3, <2>4
<1>5. balances' \in [Accounts -> Int]
  BY <1>1 DEF Moved
<1> QED
  BY <1>4, <1>5 DEF BalancesCountOwnedIdentities

LEMMA NextIInv == IInv /\ [AgentsNext]_agentVars => IInv'
<1> SUFFICES ASSUME IInv, [AgentsNext]_agentVars PROVE IInv'
  OBVIOUS
<1> USE DEF identityVars, adapterVars
<1>0. AgentsTypeOK /\ BalancesCountOwnedIdentities /\ OwnersKept /\ AdaptersKept /\ DirectoryKept
  BY DEF IInv
<1>1. ASSUME NEW caller \in Accounts, NEW uri \in URIs, Register(caller, uri)
      PROVE  IInv'
  <2>0. nextId \in Identities /\ owners[nextId] = Zero /\ caller # Zero
    BY <1>0, <1>1, RegistryBounds, ZeroIsNobody DEF AgentsTypeOK, OwnersKept, IsMinted, Register, Identities
  <2>1. AgentsTypeOK'
    BY <1>0, <1>1, <2>0, RegistryBounds DEF AgentsTypeOK, Register, Identities
  <2>2. BalancesCountOwnedIdentities'
    <3> SUFFICES ASSUME NEW a \in Accounts PROVE balances'[a] = Cardinality(OwnedBy(a)')
      BY DEF BalancesCountOwnedIdentities
    <3>1. IsFiniteSet(OwnedBy(a)) /\ Cardinality(OwnedBy(a)) \in Nat /\ balances[a] = Cardinality(OwnedBy(a))
      BY <1>0, OwnedFinite DEF BalancesCountOwnedIdentities
    <3>2. CASE a = caller
      <4>1. OwnedBy(a)' = OwnedBy(a) \cup {nextId} /\ nextId \notin OwnedBy(a)
        BY <1>0, <1>1, <2>0, <3>2 DEF OwnedBy, Register, AgentsTypeOK
      <4>2. balances'[a] = balances[a] + 1
        BY <1>0, <1>1, <3>2 DEF Register, AgentsTypeOK
      <4> QED
        BY <3>1, <4>1, <4>2, FS_AddElement
    <3>3. CASE a # caller
      <4>1. OwnedBy(a)' = OwnedBy(a)
        BY <1>0, <1>1, <2>0, <3>3, ZeroIsNobody DEF OwnedBy, Register, AgentsTypeOK
      <4>2. balances'[a] = balances[a]
        BY <1>0, <1>1, <3>3 DEF Register, AgentsTypeOK
      <4> QED
        BY <3>1, <4>1, <4>2
    <3> QED
      BY <3>2, <3>3
  <2>3. OwnersKept'
    BY <1>0, <1>1, <2>0, RegistryBounds DEF AgentsTypeOK, OwnersKept, IsMinted, Register, Identities
  <2>4. AdaptersKept' /\ DirectoryKept'
    BY <1>0, <1>1 DEF AdaptersKept, DirectoryKept, Register, SignerOf, PayToOf
  <2> QED
    BY <2>1, <2>2, <2>3, <2>4 DEF IInv
<1>2. ASSUME NEW caller \in Accounts, NEW id \in Identities, NEW uri \in URIs,
             SetTokenURI(caller, id, uri)
      PROVE  IInv'
  BY <1>0, <1>2 DEF IInv, AgentsTypeOK, BalancesCountOwnedIdentities, OwnedBy, OwnersKept, IsMinted,
     AdaptersKept, DirectoryKept, SetTokenURI, SignerOf, PayToOf
<1>3. ASSUME NEW caller \in Accounts, NEW id \in Identities, NEW from \in Accounts,
             NEW to \in Accounts \cup {Zero}, TransferFrom(caller, from, to, id)
      PROVE  IInv'
  <2>1. /\ to \in Accounts /\ owners[id] = from /\ IsMinted(id) /\ UNCHANGED <<nextId, tokenURIs, adapterVars>>
        /\ owners' = [owners EXCEPT ![id] = to] /\ balances' = Moved(from, to)
    BY <1>3 DEF TransferFrom, MayTransfer
  <2>2. balances' \in [Accounts -> Nat] /\ BalancesCountOwnedIdentities'
    BY <1>0, <2>1, HandOver
  <2>3. AgentsTypeOK'
    BY <1>0, <2>1, <2>2 DEF AgentsTypeOK
  <2>4. OwnersKept'
    BY <1>0, <2>1, ZeroIsNobody DEF AgentsTypeOK, OwnersKept, IsMinted
  <2>5. AdaptersKept' /\ DirectoryKept'
    BY <1>0, <2>1 DEF AdaptersKept, DirectoryKept, SignerOf, PayToOf
  <2> QED
    BY <2>2, <2>3, <2>4, <2>5 DEF IInv
<1>4. ASSUME NEW caller \in Accounts, NEW id \in Identities, NEW a \in Submissions,
             NEW wellFormed \in BOOLEAN, RegisterAdapter(caller, id, a, wellFormed)
      PROVE  IInv'
  <2>1. /\ IsMinted(id) /\ a.payTo # Zero /\ a.signer # Zero
        /\ adapters' = [adapters EXCEPT ![id] = a] /\ known' = [known EXCEPT ![id] = TRUE]
        /\ directory' = IF known[id] THEN directory ELSE Append(directory, id)
        /\ UNCHANGED <<nextId, owners, balances, tokenURIs, operators>>
    BY <1>4 DEF RegisterAdapter, CanRegisterAdapter, MayPublish
  <2>2. AgentsTypeOK'
    BY <1>0, <2>1 DEF AgentsTypeOK
  <2>3. BalancesCountOwnedIdentities' /\ OwnersKept'
    BY <1>0, <2>1 DEF AgentsTypeOK, BalancesCountOwnedIdentities, OwnedBy, OwnersKept, IsMinted
  <2>4. AdaptersKept'
    BY <1>0, <2>1 DEF AgentsTypeOK, AdaptersKept, SignerOf, PayToOf
  <2>5. DirectoryKept'
    <3>1. CASE known[id]
      BY <1>0, <2>1, <3>1 DEF AgentsTypeOK, DirectoryKept
    <3>2. CASE ~known[id]
      <4>1. /\ Len(directory) \in Nat /\ Len(directory') = Len(directory) + 1
            /\ \A k \in 1 .. Len(directory) : directory'[k] = directory[k]
            /\ directory'[Len(directory) + 1] = id
        BY <1>0, <2>1, <3>2 DEF AgentsTypeOK
      <4>2. \A j \in Identities : known'[j] <=> known[j] \/ j = id
        BY <1>0, <2>1 DEF AgentsTypeOK
      <4>3. \A k \in 1 .. Len(directory) : directory[k] # id
        BY <1>0, <3>2 DEF DirectoryKept
      <4>4. \A k \in 1 .. Len(directory') : k \in 1 .. Len(directory) \/ k = Len(directory) + 1
        BY <4>1
      <4>5. Len(directory) + 1 \in 1 .. Len(directory') /\ 1 .. Len(directory) \subseteq 1 .. Len(directory')
        BY <4>1
      <4>6. \A j \in Identities : known'[j] <=> \E k \in 1 .. Len(directory') : directory'[k] = j
        BY <1>0, <4>1, <4>2, <4>4, <4>5 DEF DirectoryKept
      <4>7. \A j, k \in 1 .. Len(directory') : directory'[j] = directory'[k] => j = k
        BY <1>0, <4>1, <4>3, <4>4 DEF DirectoryKept
      <4> QED
        BY <4>6, <4>7 DEF DirectoryKept
    <3> QED
      BY <3>1, <3>2
  <2> QED
    BY <2>2, <2>3, <2>4, <2>5 DEF IInv
<1>5. ASSUME NEW caller \in Accounts, NEW id \in Identities, Deactivate(caller, id)
      PROVE  IInv'
  <2>1. /\ known[id] /\ adapters' = [adapters EXCEPT ![id].active = FALSE]
        /\ UNCHANGED <<identityVars, known, directory, operators>>
    BY <1>5 DEF Deactivate
  <2>2. adapters[id] \in Submissions
    BY <1>0, <2>1 DEF AgentsTypeOK, AdaptersKept, NoAdapter, SignerOf
  <2>3. AgentsTypeOK'
    BY <1>0, <2>1, <2>2 DEF AgentsTypeOK, Submissions
  <2>4. BalancesCountOwnedIdentities' /\ OwnersKept' /\ DirectoryKept'
    BY <1>0, <2>1 DEF AgentsTypeOK, BalancesCountOwnedIdentities, OwnedBy, OwnersKept, IsMinted, DirectoryKept
  <2>5. AdaptersKept'
    BY <1>0, <2>1 DEF AgentsTypeOK, AdaptersKept, SignerOf, PayToOf
  <2> QED
    BY <2>3, <2>4, <2>5 DEF IInv
<1>6. ASSUME NEW caller \in Accounts, NEW id \in Identities, NEW operator \in Accounts \cup {Zero},
             SetOperator(caller, id, operator)
      PROVE  IInv'
  BY <1>0, <1>6 DEF IInv, AgentsTypeOK, BalancesCountOwnedIdentities, OwnedBy, OwnersKept, IsMinted,
     AdaptersKept, DirectoryKept, SetOperator, SignerOf, PayToOf
<1>7. CASE UNCHANGED agentVars
  BY <1>0, <1>7 DEF IInv, AgentsTypeOK, BalancesCountOwnedIdentities, OwnedBy, OwnersKept, IsMinted,
     AdaptersKept, DirectoryKept, agentVars, SignerOf, PayToOf
<1> QED
  BY <1>1, <1>2, <1>3, <1>4, <1>5, <1>6, <1>7 DEF AgentsNext, AgentsCall

LEMMA Invariance == AgentsSpec => []IInv
BY InitIInv, NextIInv, PTL DEF AgentsSpec

\* The storage of both registries is always well typed.
THEOREM AgentsTyped == AgentsSpec => []AgentsTypeOK
BY Invariance, PTL DEF IInv

\* balanceOf of the identity registry is the number of identities owned,
\* whatever is minted, handed over, or handed to its owner.
THEOREM BalancesCount == AgentsSpec => []BalancesCountOwnedIdentities
BY Invariance, PTL DEF IInv

\* The directory of the adapter registry lists every agent ever listed, once.
THEOREM DirectoryComplete == AgentsSpec => []DirectoryKept
BY Invariance, PTL DEF IInv

-----------------------------------------------------------------------------
\* Pages.  How many of the first entries of the directory are active.
IsActive(i) == adapters[directory[i]].active
ActiveTo(i) == Cardinality({j \in 1 .. i : IsActive(j)})

LEMMA ActiveIsNat == ASSUME NEW i \in Nat PROVE ActiveTo(i) \in 0 .. i /\ ActiveTo(i) \in Nat
<1>1. IsFiniteSet(1 .. i) /\ Cardinality(1 .. i) = i
  BY FS_Interval
<1>2. {j \in 1 .. i : IsActive(j)} \subseteq 1 .. i
  OBVIOUS
<1>3. /\ IsFiniteSet({j \in 1 .. i : IsActive(j)})
      /\ Cardinality({j \in 1 .. i : IsActive(j)}) <= Cardinality(1 .. i)
  BY <1>1, <1>2, FS_Subset
<1>4. Cardinality({j \in 1 .. i : IsActive(j)}) \in Nat
  BY <1>3, FS_CardinalityType
<1> QED
  BY <1>1, <1>3, <1>4 DEF ActiveTo

LEMMA ActiveNext ==
    ASSUME NEW i \in Nat \ {0}
    PROVE  ActiveTo(i) = IF IsActive(i) THEN ActiveTo(i - 1) + 1 ELSE ActiveTo(i - 1)
<1> DEFINE S(k) == {j \in 1 .. k : IsActive(j)}
<1>1. IsFiniteSet(S(i - 1))
  <2>1. IsFiniteSet(1 .. i - 1)
    BY FS_Interval
  <2> QED
    BY <2>1, FS_Subset
<1>2. CASE IsActive(i)
  <2>1. S(i) = S(i - 1) \cup {i} /\ i \notin S(i - 1)
    BY <1>2
  <2> HIDE DEF S
  <2>2. Cardinality(S(i)) = Cardinality(S(i - 1)) + 1
    BY <1>1, <2>1, FS_AddElement
  <2> QED
    BY <1>2, <2>2 DEF ActiveTo, S
<1>3. CASE ~IsActive(i)
  <2>1. S(i) = S(i - 1)
    <3>1. \A j : j \in 1 .. i /\ j # i <=> j \in 1 .. i - 1
      OBVIOUS
    <3> QED
      BY <1>3, <3>1
  <2> QED
    BY <1>3, <2>1 DEF ActiveTo
<1> QED
  BY <1>2, <1>3

LEMMA ActiveGrows ==
    ASSUME NEW j \in Nat, NEW k \in Nat, j < k
    PROVE  /\ ActiveTo(j) <= ActiveTo(k)
           /\ IsActive(k) => ActiveTo(j) < ActiveTo(k)
<1>1. ASSUME NEW i \in Nat, j <= i PROVE ActiveTo(j) <= ActiveTo(i)
  <2> DEFINE S(n) == {l \in 1 .. n : IsActive(l)}
  <2>1. S(j) \subseteq S(i)
    BY <1>1
  <2>2. IsFiniteSet(S(i))
    <3>1. IsFiniteSet(1 .. i)
      BY FS_Interval
    <3> QED
      BY <3>1, FS_Subset
  <2> HIDE DEF S
  <2>3. Cardinality(S(j)) <= Cardinality(S(i))
    BY <2>1, <2>2, FS_Subset
  <2> QED
    BY <2>3 DEF ActiveTo, S
<1>2. ActiveTo(j) <= ActiveTo(k - 1)
  BY <1>1
<1>3. ActiveTo(k) = IF IsActive(k) THEN ActiveTo(k - 1) + 1 ELSE ActiveTo(k - 1)
  BY ActiveNext
<1>4. PICK a \in Nat, b \in Nat, c \in Nat : a = ActiveTo(j) /\ b = ActiveTo(k - 1) /\ c = ActiveTo(k)
  <2>1. ActiveTo(j) \in Nat /\ ActiveTo(k - 1) \in Nat /\ ActiveTo(k) \in Nat
    BY ActiveIsNat
  <2> QED
    BY <2>1
<1> QED
  BY <1>2, <1>3, <1>4

-----------------------------------------------------------------------------
\* listActive exists: what it knows after each entry follows from what it knew
\* before.
Nothing == [page |-> <<>>, skipped |-> 0]
Scans(offset, limit, n, scan) ==
    /\ scan = [i \in 0 .. n |-> scan[i]]
    /\ scan[0] = Nothing
    /\ \A i \in 1 .. n : scan[i] = Look(scan[i - 1], directory[i], offset, limit)

LEMMA LeastNatural ==
    ASSUME NEW S, S \subseteq Nat, S # {}
    PROVE  \E n \in S : \A m \in S : n <= m
<1>1. PICK n \in S : \A m \in S : <<m, n>> \notin OpToRel(<, Nat)
  BY NatLessThanWellFounded, WFMin
<1>2. \A m \in S : ~(m < n)
  BY <1>1 DEF OpToRel
<1>3. \A m \in S : n <= m
  <2> TAKE m \in S
  <2>1. m \in Nat /\ n \in Nat /\ ~(m < n)
    BY <1>2
  <2> QED
    BY <2>1
<1> QED
  BY <1>3

LEMMA ScansExist ==
    ASSUME NEW offset, NEW limit, NEW n \in Nat
    PROVE  \E scan : Scans(offset, limit, n, scan)
<1> SUFFICES ASSUME ~\E scan : Scans(offset, limit, n, scan) PROVE FALSE
  OBVIOUS
<1> DEFINE S == {k \in Nat : ~\E scan : Scans(offset, limit, k, scan)}
<1>1. PICK k \in S : \A m \in S : k <= m
  BY LeastNatural
<1>2. k # 0
  <2> DEFINE scan == [i \in 0 .. 0 |-> Nothing]
  <2>1. Scans(offset, limit, 0, scan)
    BY DEF Scans
  <2> QED
    BY <2>1
<1>3. k \in Nat /\ k - 1 \in Nat /\ k - 1 \notin S
  BY <1>1, <1>2
<1>4. PICK scan : Scans(offset, limit, k - 1, scan)
  BY <1>3
<1>5. PICK last : last = Look(scan[k - 1], directory[k], offset, limit)
  OBVIOUS
<1> DEFINE more == [i \in 0 .. k |-> IF i = k THEN last ELSE scan[i]]
<1>6. /\ \A i \in 0 .. k - 1 : more[i] = scan[i]
      /\ more[k] = last /\ more = [i \in 0 .. k |-> more[i]]
  BY <1>3
<1> HIDE DEF more
<1>7. more[0] = Nothing
  <2>1. 0 \in 0 .. k - 1
    BY <1>3
  <2>2. scan[0] = Nothing
    BY <1>4 DEF Scans
  <2> QED
    BY ONLY <1>6, <2>1, <2>2
<1>8. ASSUME NEW i \in 1 .. k PROVE more[i] = Look(more[i - 1], directory[i], offset, limit)
  <2>1. CASE i = k
    <3>1. k - 1 \in 0 .. k - 1 /\ i - 1 = k - 1
      BY <1>3, <2>1
    <3>2. more[i - 1] = scan[k - 1]
      BY ONLY <1>6, <3>1
    <3> QED
      BY <1>5, <1>6, <2>1, <3>2
  <2>2. CASE i # k
    <3>1. i \in 1 .. k - 1 /\ i - 1 \in 0 .. k - 1 /\ i \in 0 .. k - 1
      BY <1>3, <2>2
    <3> QED
      BY <1>4, <1>6, <3>1 DEF Scans
  <2> QED
    BY <2>1, <2>2
<1>9. Scans(offset, limit, k, more)
  BY <1>6, <1>7, <1>8 DEF Scans
<1> QED
  BY <1>1, <1>9

LEMMA ListActiveScans ==
    ASSUME NEW offset, NEW limit, Len(directory) \in Nat
    PROVE  \E scan : /\ Scans(offset, limit, Len(directory), scan)
                     /\ ListActive(offset, limit) = scan[Len(directory)].page
<1>1. PICK n \in Nat : n = Len(directory)
  OBVIOUS
<1> DEFINE IsScan(f) == f = [i \in 0 .. n |->
               IF i = 0 THEN Nothing ELSE Look(f[i - 1], directory[i], offset, limit)]
<1>2. ListActive(offset, limit) = (CHOOSE f : IsScan(f))[n].page
  BY <1>1, Zenon DEF ListActive, Nothing
<1>3. PICK scan : Scans(offset, limit, n, scan)
  BY ScansExist
<1>4. IsScan(scan)
  <2>1. ASSUME NEW i \in 0 .. n
        PROVE  scan[i] = IF i = 0 THEN Nothing ELSE Look(scan[i - 1], directory[i], offset, limit)
    <3>1. i # 0 => i \in 1 .. n
      OBVIOUS
    <3> QED
      BY <1>3, <3>1 DEF Scans
  <2> QED
    BY <1>3, <2>1 DEF Scans
<1>5. PICK f : f = (CHOOSE g : IsScan(g)) /\ IsScan(f)
  <2> HIDE DEF IsScan
  <2> QED
    BY <1>4
<1>6. Scans(offset, limit, n, f)
  <2>1. f[0] = Nothing
    <3>1. 0 \in 0 .. n
      OBVIOUS
    <3>2. f[0] = IF 0 = 0 THEN Nothing ELSE Look(f[0 - 1], directory[0], offset, limit)
      BY <1>5, <3>1
    <3> QED
      BY <3>2
  <2>2. ASSUME NEW i \in 1 .. n PROVE f[i] = Look(f[i - 1], directory[i], offset, limit)
    <3>1. i \in 0 .. n /\ i # 0
      OBVIOUS
    <3>2. f[i] = IF i = 0 THEN Nothing ELSE Look(f[i - 1], directory[i], offset, limit)
      BY <1>5, <3>1
    <3> QED
      BY <3>1, <3>2
  <2>3. f = [i \in 0 .. n |-> f[i]]
    BY <1>5
  <2> QED
    BY <2>1, <2>2, <2>3 DEF Scans
<1> QED
  BY <1>1, <1>2, <1>5, <1>6

-----------------------------------------------------------------------------
\* What listActive has found after i entries: the active ones among them from
\* the offset on, as long as the page has room, in their order.
Found(offset, limit, seen, i) ==
    /\ DOMAIN seen = {"page", "skipped"} /\ seen.page \in Seq(Identities)
    /\ seen.skipped = IF ActiveTo(i) <= offset THEN ActiveTo(i) ELSE offset
    /\ Len(seen.page) = IF ActiveTo(i) <= offset THEN 0
                        ELSE IF ActiveTo(i) - offset <= limit THEN ActiveTo(i) - offset ELSE limit
    /\ \A r \in 1 .. Len(seen.page) : \E j \in 1 .. i :
          directory[j] = seen.page[r] /\ IsActive(j) /\ ActiveTo(j) = offset + r

LEMMA FoundNext ==
    ASSUME directory \in Seq(Identities), NEW offset \in Nat, NEW limit \in Nat \ {0},
           NEW i \in 1 .. Len(directory), NEW seen, Found(offset, limit, seen, i - 1)
    PROVE  Found(offset, limit, Look(seen, directory[i], offset, limit), i)
<1>1. PICK a \in Nat, b \in Nat : a = ActiveTo(i - 1) /\ b = ActiveTo(i)
  <2>1. ActiveTo(i - 1) \in Nat /\ ActiveTo(i) \in Nat
    BY ActiveIsNat
  <2> QED
    BY <2>1
<1>2. b = IF IsActive(i) THEN a + 1 ELSE a
  BY <1>1, ActiveNext
<1>a. PICK skipped : skipped = seen.skipped
  OBVIOUS
<1>3. PICK shown \in Seq(Identities), m \in Nat : shown = seen.page /\ m = Len(shown) /\ skipped = seen.skipped
  BY <1>a DEF Found
<1>4. /\ DOMAIN seen = {"page", "skipped"}
      /\ skipped = IF a <= offset THEN a ELSE offset
      /\ m = IF a <= offset THEN 0 ELSE IF a - offset <= limit THEN a - offset ELSE limit
      /\ \A r \in 1 .. m : \E j \in 1 .. i - 1 :
            directory[j] = shown[r] /\ IsActive(j) /\ ActiveTo(j) = offset + r
  BY <1>1, <1>3 DEF Found
<1>5. PICK id \in Identities : id = directory[i]
  OBVIOUS
<1>6. \A r \in 1 .. m : \E j \in 1 .. i :
         directory[j] = shown[r] /\ IsActive(j) /\ ActiveTo(j) = offset + r
  <2>1. 1 .. i - 1 \subseteq 1 .. i
    OBVIOUS
  <2> QED
    BY ONLY <1>4, <2>1
<1>7. CASE m >= limit \/ ~IsActive(i)
  <2>1. Look(seen, id, offset, limit) = seen
    BY <1>3, <1>5, <1>7 DEF Look, IsActive
  <2>2. skipped = (IF b <= offset THEN b ELSE offset)
    BY <1>2, <1>4, <1>7
  <2>3. m = (IF b <= offset THEN 0 ELSE IF b - offset <= limit THEN b - offset ELSE limit)
    BY <1>2, <1>4, <1>7
  <2> QED
    BY <1>1, <1>3, <1>4, <1>5, <1>6, <2>1, <2>2, <2>3 DEF Found
<1>8. CASE m < limit /\ IsActive(i) /\ skipped < offset
  <2>1. Look(seen, id, offset, limit) = [seen EXCEPT !.skipped = @ + 1]
    BY <1>3, <1>5, <1>8 DEF Look, IsActive
  <2>2. PICK next : next = [seen EXCEPT !.skipped = @ + 1]
    OBVIOUS
  <2>3. DOMAIN next = {"page", "skipped"} /\ next.page = shown /\ next.skipped = skipped + 1
    BY <1>3, <1>4, <2>2
  <2>4. a < offset /\ b = a + 1 /\ skipped = a /\ m = 0
    BY <1>2, <1>4, <1>8
  <2> QED
    BY <1>1, <1>3, <1>5, <2>1, <2>2, <2>3, <2>4 DEF Found
<1>9. CASE m < limit /\ IsActive(i) /\ ~(skipped < offset)
  <2>1. Look(seen, id, offset, limit) = [seen EXCEPT !.page = Append(@, id)]
    BY <1>3, <1>5, <1>9 DEF Look, IsActive
  <2>2. PICK next : next = [seen EXCEPT !.page = Append(@, id)]
    OBVIOUS
  <2>3. DOMAIN next = {"page", "skipped"} /\ next.page = Append(shown, id) /\ next.skipped = skipped
    BY <1>3, <1>4, <2>2
  <2>4. PICK longer : longer = Append(shown, id)
    OBVIOUS
  <2>5. /\ longer \in Seq(Identities) /\ Len(longer) = m + 1 /\ longer[m + 1] = id
        /\ \A r \in 1 .. m : longer[r] = shown[r]
    BY <1>3, <2>4
  <2>6. a >= offset /\ b = a + 1 /\ skipped = offset /\ m = a - offset
    BY <1>2, <1>4, <1>9
  <2>7. ASSUME NEW r \in 1 .. m + 1
        PROVE  \E j \in 1 .. i : directory[j] = longer[r] /\ IsActive(j) /\ ActiveTo(j) = offset + r
    <3>1. CASE r \in 1 .. m
      <4>1. longer[r] = shown[r]
        BY <2>5, <3>1
      <4> QED
        BY ONLY <1>6, <3>1, <4>1
    <3>2. CASE r = m + 1
      <4>1. ActiveTo(i) = offset + r
        <5>1. b = offset + r
          BY <2>6, <3>2
        <5> QED
          BY ONLY <1>1, <5>1
      <4>3. i \in 1 .. i
        OBVIOUS
      <4>2. directory[i] = longer[r]
        BY <1>5, <2>5, <3>2
      <4> QED
        BY ONLY <1>9, <4>1, <4>2, <4>3
    <3> QED
      BY ONLY <3>1, <3>2, m \in Nat, r \in 1 .. m + 1
  <2>8. m + 1 = (IF b <= offset THEN 0 ELSE IF b - offset <= limit THEN b - offset ELSE limit)
    BY <1>9, <2>6
  <2>9. offset = (IF b <= offset THEN b ELSE offset)
    BY <2>6
  <2>10. next.page = longer /\ Len(longer) = m + 1
    BY <2>3, <2>4, <2>5
  <2>11. \A r \in 1 .. Len(longer) : \E j \in 1 .. i :
            directory[j] = longer[r] /\ IsActive(j) /\ ActiveTo(j) = offset + r
    BY <2>5, <2>7
  <2>12. Found(offset, limit, next, i)
    BY ONLY <1>1, <2>3, <2>5, <2>6, <2>8, <2>9, <2>10, <2>11 DEF Found
  <2> QED
    BY ONLY <1>5, <2>1, <2>2, <2>12
<1> QED
  BY <1>3, <1>4, <1>7, <1>8, <1>9

\* The page that starts at an offset holds the active entries from there on.
PageHolds(shown, offset, limit) ==
    /\ shown \in Seq(Identities)
    /\ Len(shown) = IF ActiveTo(Len(directory)) <= offset THEN 0
                   ELSE IF ActiveTo(Len(directory)) - offset <= limit THEN ActiveTo(Len(directory)) - offset
                   ELSE limit
    /\ \A r \in 1 .. Len(shown) : \E j \in 1 .. Len(directory) :
          directory[j] = shown[r] /\ IsActive(j) /\ ActiveTo(j) = offset + r

LEMMA PageIs ==
    ASSUME directory \in Seq(Identities), NEW offset \in Nat, NEW limit \in Nat \ {0}
    PROVE  PageHolds(ListActive(offset, limit), offset, limit)
<1>1. PICK n \in Nat : n = Len(directory) /\ DOMAIN directory = 1 .. n
  OBVIOUS
<1>2. PICK scan : Scans(offset, limit, n, scan) /\ ListActive(offset, limit) = scan[n].page
  BY <1>1, ListActiveScans
<1>3. Found(offset, limit, scan[0], 0)
  <2>1. ActiveTo(0) = 0
    BY ActiveIsNat
  <2>2. scan[0] = Nothing
    BY <1>2 DEF Scans
  <2> QED
    BY <2>1, <2>2 DEF Found, Nothing
<1> DEFINE S == {i \in 0 .. n : ~Found(offset, limit, scan[i], i)}
<1>4. S = {}
  <2> SUFFICES ASSUME S # {} PROVE FALSE
    OBVIOUS
  <2>1. PICK i \in S : \A j \in S : i <= j
    <3>1. S \subseteq Nat
      BY <1>1
    <3> HIDE DEF S
    <3> QED
      BY <3>1, LeastNatural
  <2>2. i \in 1 .. n /\ i - 1 \in 0 .. n /\ i - 1 \notin S
    BY <1>1, <1>3, <2>1
  <2>3. Found(offset, limit, scan[i - 1], i - 1)
    BY <2>2
  <2>4. scan[i] = Look(scan[i - 1], directory[i], offset, limit)
    BY <1>2, <2>2 DEF Scans
  <2>5. Found(offset, limit, scan[i], i)
    BY <1>1, <2>2, <2>3, <2>4, FoundNext
  <2> QED
    BY <2>1, <2>5
<1>5. Found(offset, limit, scan[n], n)
  BY <1>1, <1>4
<1> QED
  BY <1>1, <1>2, <1>5 DEF Found, PageHolds

\* Every number is on some page, at some place of it.
LEMMA OnSomePage ==
    ASSUME NEW limit \in Nat \ {0}, NEW n \in Nat \ {0}
    PROVE  \E k \in 1 .. n, i \in 1 .. limit : n = (k - 1) * limit + i
<1> DEFINE Placed(m) == \E k \in 1 .. m, i \in 1 .. limit : m = (k - 1) * limit + i
<1> DEFINE S == {m \in Nat \ {0} : ~Placed(m)}
<1> SUFFICES ASSUME S # {} PROVE FALSE
  OBVIOUS
<1>1. PICK m \in S : \A l \in S : m <= l
  <2>1. S \subseteq Nat
    OBVIOUS
  <2> HIDE DEF S
  <2> QED
    BY <2>1, LeastNatural
<1>2. CASE m = 1
  <2>1. 1 = (1 - 1) * limit + 1 /\ 1 \in 1 .. 1 /\ 1 \in 1 .. limit
    OBVIOUS
  <2> QED
    BY <1>1, <1>2, <2>1
<1>3. CASE m # 1
  <2>1. m - 1 \in Nat \ {0} /\ m - 1 \notin S
    BY <1>1, <1>3
  <2>2. PICK k \in 1 .. m - 1, i \in 1 .. limit : m - 1 = (k - 1) * limit + i
    BY <2>1
  <2>3. CASE i < limit
    <3>1. i + 1 \in 1 .. limit /\ m = (k - 1) * limit + (i + 1) /\ k \in 1 .. m
      BY <2>1, <2>2, <2>3
    <3> QED
      BY <1>1, <3>1
  <2>4. CASE i = limit
    <3>1. (k - 1) * limit + limit = k * limit
      BY <2>1, <2>2
    <3>2. k + 1 \in 1 .. m /\ 1 \in 1 .. limit /\ m = ((k + 1) - 1) * limit + 1
      BY <2>1, <2>2, <2>4, <3>1
    <3> QED
      BY <1>1, <3>2
  <2> QED
    BY <2>3, <2>4
<1> QED
  BY <1>2, <1>3

\* A directory is no longer than there are identities.
LEMMA DirectoryFits ==
    ASSUME directory \in Seq(Identities), DirectoryKept
    PROVE  Len(directory) \in 0 .. MaxAgents
<1>1. PICK n \in Nat : n = Len(directory) /\ DOMAIN directory = 1 .. n
  OBVIOUS
<1> DEFINE entry == [j \in 1 .. n |-> directory[j]]
<1>2. entry \in [1 .. n -> Identities] /\ \A j, k \in 1 .. n : entry[j] = entry[k] => j = k
  BY <1>1 DEF DirectoryKept
<1>3. DOMAIN entry = 1 .. n
  OBVIOUS
<1> HIDE DEF entry
<1>4. entry \in Injection(1 .. n, Identities)
  BY <1>2, <1>3, Zenon DEF Injection, IsInjective
<1>5. IsFiniteSet(Identities) /\ Cardinality(Identities) = MaxAgents /\ Cardinality(1 .. n) = n
  BY FS_Interval, RegistryBounds DEF Identities
<1>6. Cardinality(1 .. n) <= Cardinality(Identities)
  BY <1>4, <1>5, FS_Injection
<1> QED
  BY <1>1, <1>5, <1>6, RegistryBounds

LEMMA PagesCover ==
    ASSUME directory \in Seq(Identities), AdaptersKept, DirectoryKept
    PROVE  PagesCoverTheDirectory
<1>1. PICK n \in 0 .. MaxAgents : n = Len(directory) /\ DOMAIN directory = 1 .. n
  BY DirectoryFits
<1>2. n \in Nat /\ MaxAgents \in Nat
  BY <1>1, RegistryBounds
<1> SUFFICES ASSUME NEW limit \in 1 .. MaxAgents
             PROVE  LET shown(k) == ListActive((k - 1) * limit, limit)
                    IN  /\ UNION {ToSet(shown(k)) : k \in 1 .. MaxAgents} = {id \in Identities : adapters[id].active}
                        /\ \A k, l \in 1 .. MaxAgents : \A i \in DOMAIN shown(k), j \in DOMAIN shown(l) :
                              k < l \/ (k = l /\ i < j) => ListedAt(shown(k)[i]) < ListedAt(shown(l)[j])
  BY Zenon DEF PagesCoverTheDirectory
<1> DEFINE Page == [k \in 1 .. MaxAgents |-> ListActive((k - 1) * limit, limit)]
<1> DEFINE First == [k \in 1 .. MaxAgents |-> (k - 1) * limit]
<1>3. limit \in Nat \ {0}
  BY <1>2
<1>4. PICK total \in Nat : total = ActiveTo(n)
  BY <1>2, ActiveIsNat
<1>a. PICK shown, first : shown = Page /\ first = First
  OBVIOUS
<1>5. ASSUME NEW k \in 1 .. MaxAgents
      PROVE  /\ first[k] \in Nat /\ first[k] = (k - 1) * limit
             /\ shown[k] = ListActive((k - 1) * limit, limit)
             /\ shown[k] \in Seq(Identities) /\ DOMAIN shown[k] = 1 .. Len(shown[k])
             /\ Len(shown[k]) = IF total <= first[k] THEN 0
                               ELSE IF total - first[k] <= limit THEN total - first[k] ELSE limit
             /\ \A i \in DOMAIN shown[k] : \E j \in 1 .. n :
                   directory[j] = shown[k][i] /\ IsActive(j) /\ ActiveTo(j) = first[k] + i
  <2>1. PICK offset : offset = (k - 1) * limit
    OBVIOUS
  <2>2. offset \in Nat
    BY <1>2, <1>3, <2>1
  <2>3. PICK p : p = ListActive(offset, limit)
    OBVIOUS
  <2>4. PageHolds(p, offset, limit)
    BY <1>3, <2>2, <2>3, PageIs
  <2>5. shown[k] = p /\ first[k] = offset
    BY <1>a, <2>1, <2>3
  <2>6. /\ p \in Seq(Identities) /\ DOMAIN p = 1 .. Len(p)
        /\ Len(p) = IF total <= offset THEN 0 ELSE IF total - offset <= limit THEN total - offset ELSE limit
        /\ \A i \in 1 .. Len(p) : \E j \in 1 .. n :
              directory[j] = p[i] /\ IsActive(j) /\ ActiveTo(j) = offset + i
    <3>1. p \in Seq(Identities) /\ DOMAIN p = 1 .. Len(p)
      BY <2>4 DEF PageHolds
    <3>2. Len(p) = IF ActiveTo(n) <= offset THEN 0 ELSE IF ActiveTo(n) - offset <= limit THEN ActiveTo(n) - offset
                   ELSE limit
      BY <1>1, <2>4, Zenon DEF PageHolds
    <3>3. \A i \in 1 .. Len(p) : \E j \in 1 .. n :
             directory[j] = p[i] /\ IsActive(j) /\ ActiveTo(j) = offset + i
      BY <1>1, <2>4, Zenon DEF PageHolds
    <3> QED
      BY <1>4, <3>1, <3>2, <3>3
  <2> QED
    BY ONLY <2>1, <2>2, <2>3, <2>5, <2>6
<1> HIDE DEF Page, First
<1>b. \A k \in 1 .. MaxAgents : DOMAIN shown[k] \subseteq 1 .. limit
  <2> SUFFICES ASSUME NEW k \in 1 .. MaxAgents PROVE DOMAIN shown[k] \subseteq 1 .. limit
    OBVIOUS
  <2>1. PICK m, offset : m = Len(shown[k]) /\ offset = first[k]
    OBVIOUS
  <2>2. /\ offset \in Nat /\ DOMAIN shown[k] = 1 .. m
        /\ m = IF total <= offset THEN 0 ELSE IF total - offset <= limit THEN total - offset ELSE limit
    BY <1>5, <2>1
  <2>3. m \in Nat /\ m <= limit
    BY <1>3, <2>2
  <2> QED
    BY <1>3, <2>2, <2>3
<1>c. \A p, q \in 1 .. n : IsActive(p) /\ IsActive(q) /\ ActiveTo(p) = ActiveTo(q) => p = q
  <2> SUFFICES ASSUME NEW p \in 1 .. n, NEW q \in 1 .. n, IsActive(p), IsActive(q), ActiveTo(p) = ActiveTo(q)
               PROVE  p = q
    OBVIOUS
  <2>2. p \in Nat /\ q \in Nat
    BY <1>2
  <2>1. PICK a \in Nat : a = ActiveTo(p)
    <3>1. ActiveTo(p) \in Nat
      BY <2>2, ActiveIsNat
    <3> QED
      BY <3>1
  <2>3. ~(p < q)
    BY <2>1, <2>2, ActiveGrows
  <2>4. ~(q < p)
    BY <2>1, <2>2, ActiveGrows
  <2> QED
    BY <2>2, <2>3, <2>4
<1>6. ASSUME NEW id \in Identities, adapters[id].active
      PROVE  \E k \in 1 .. MaxAgents : \E i \in DOMAIN shown[k] : shown[k][i] = id
  <2>1. known[id]
    <3>1. NoAdapter.active = FALSE
      BY DEF NoAdapter
    <3> QED
      BY <1>6, <3>1, Zenon DEF AdaptersKept
  <2>2. PICK p \in 1 .. n : directory[p] = id
    BY <1>1, <2>1 DEF DirectoryKept
  <2>3. IsActive(p)
    BY <1>6, <2>2 DEF IsActive
  <2>4. PICK r \in Nat : r = ActiveTo(p) /\ r <= p
    <3>1. p \in Nat
      BY <1>2
    <3>2. ActiveTo(p) \in 0 .. p
      BY <3>1, ActiveIsNat
    <3> QED
      BY <3>1, <3>2
  <2>5. r >= 1 /\ r <= total
    <3>1. p \in Nat /\ 0 < p
      BY <1>2
    <3>2. ActiveTo(0) \in 0 .. 0
      BY ActiveIsNat
    <3>3. ActiveTo(0) < ActiveTo(p)
      BY <2>3, <3>1, ActiveGrows
    <3>4. p < n => ActiveTo(p) <= ActiveTo(n)
      BY <1>2, <3>1, ActiveGrows
    <3> QED
      BY <1>2, <1>4, <2>2, <2>4, <3>2, <3>3, <3>4
  <2>6. PICK k \in 1 .. r, i \in 1 .. limit : r = (k - 1) * limit + i
    <3>1. r \in Nat \ {0}
      BY <2>4, <2>5
    <3> QED
      BY <1>3, <3>1, OnSomePage
  <2>7. k \in 1 .. MaxAgents
    BY <1>1, <1>2, <2>2, <2>4, <2>5, <2>6
  <2>8. PICK seq, m, offset : seq = shown[k] /\ m = Len(seq) /\ offset = first[k]
    OBVIOUS
  <2>9. /\ offset \in Nat /\ offset = (k - 1) * limit /\ DOMAIN seq = 1 .. m
        /\ m = IF total <= offset THEN 0 ELSE IF total - offset <= limit THEN total - offset ELSE limit
        /\ \A h \in DOMAIN seq : \E j \in 1 .. n :
              directory[j] = seq[h] /\ IsActive(j) /\ ActiveTo(j) = offset + h
    BY ONLY <1>5, <2>7, <2>8
  <2>10. r = offset + i
    BY <2>6, <2>9
  <2>11. i \in DOMAIN seq
    BY <1>3, <2>5, <2>9, <2>10
  <2>12. PICK j \in 1 .. n : directory[j] = seq[i] /\ IsActive(j) /\ ActiveTo(j) = offset + i
    BY <2>9, <2>11
  <2>13. j = p
    BY <1>c, <2>3, <2>4, <2>10, <2>12
  <2> QED
    BY <2>2, <2>7, <2>8, <2>11, <2>12, <2>13
<1>7. ASSUME NEW k \in 1 .. MaxAgents, NEW i \in DOMAIN shown[k]
      PROVE  shown[k][i] \in Identities /\ adapters[shown[k][i]].active
  <2>1. PICK j \in 1 .. n : directory[j] = shown[k][i] /\ IsActive(j)
    BY ONLY <1>5
  <2>2. directory[j] \in Identities
    BY <1>1
  <2> QED
    BY <2>1, <2>2 DEF IsActive
<1>8. UNION {ToSet(shown[k]) : k \in 1 .. MaxAgents} = {id \in Identities : adapters[id].active}
  <2>1. PICK pages : pages = {ToSet(shown[k]) : k \in 1 .. MaxAgents}
    OBVIOUS
  <2>2. \A p : p \in pages <=> \E k \in 1 .. MaxAgents : p = ToSet(shown[k])
    BY ONLY <2>1
  <2>3. ASSUME NEW k, NEW id PROVE id \in ToSet(shown[k]) <=> \E i \in DOMAIN shown[k] : shown[k][i] = id
    BY DEF ToSet
  <2>4. ASSUME NEW id \in Identities, adapters[id].active PROVE id \in UNION pages
    <3>1. PICK k \in 1 .. MaxAgents : \E i \in DOMAIN shown[k] : shown[k][i] = id
      BY <1>6, <2>4
    <3>2. id \in ToSet(shown[k]) /\ ToSet(shown[k]) \in pages
      BY <2>2, <2>3, <3>1
    <3> QED
      BY ONLY <3>2
  <2>5. ASSUME NEW id \in UNION pages PROVE id \in Identities /\ adapters[id].active
    <3>1. PICK p \in pages : id \in p
      BY ONLY <2>5
    <3>2. PICK k \in 1 .. MaxAgents : id \in ToSet(shown[k])
      BY <2>2, <3>1
    <3>3. PICK i \in DOMAIN shown[k] : shown[k][i] = id
      BY <2>3, <3>2
    <3> QED
      BY <1>7, <3>3
  <2> QED
    BY <2>1, <2>4, <2>5
<1>9. ASSUME NEW h \in 1 .. n PROVE ListedAt(directory[h]) = h
  <2>1. \A g \in DOMAIN directory : directory[g] = directory[h] => g = h
    BY <1>1 DEF DirectoryKept
  <2> QED
    BY <1>1, <2>1 DEF ListedAt
<1>10. ASSUME NEW k \in 1 .. MaxAgents, NEW l \in 1 .. MaxAgents, NEW i \in DOMAIN shown[k], NEW j \in DOMAIN shown[l],
              k < l \/ (k = l /\ i < j)
       PROVE  ListedAt(shown[k][i]) < ListedAt(shown[l][j])
  <2>1. PICK p \in 1 .. n : directory[p] = shown[k][i] /\ IsActive(p) /\ ActiveTo(p) = first[k] + i
    BY <1>5
  <2>2. PICK q \in 1 .. n : directory[q] = shown[l][j] /\ IsActive(q) /\ ActiveTo(q) = first[l] + j
    BY <1>5
  <2>3. i \in 1 .. limit /\ j \in 1 .. limit
    BY <1>b
  <2>4. first[k] + i < first[l] + j
    <3>1. first[k] \in Nat /\ first[k] = (k - 1) * limit /\ first[l] \in Nat /\ first[l] = (l - 1) * limit
      BY <1>5
    <3>2. CASE k = l
      BY <1>3, <1>10, <2>3, <3>1, <3>2
    <3>3. CASE k < l
      <4>1. PICK d \in Nat : l = k + 1 + d
        <5>1. l - (k + 1) \in Nat /\ l = k + 1 + (l - (k + 1))
          BY <1>2, <3>3
        <5> QED
          BY <5>1
      <4>2. d * limit \in Nat
        BY <1>3, <4>1
      <4>3. (l - 1) * limit = (k - 1) * limit + limit + d * limit
        <5>1. k \in Int /\ limit \in Int /\ d \in Int /\ l - 1 = (k - 1) + 1 + d
          BY <1>2, <1>3, <4>1
        <5>2. ((k - 1) + 1 + d) * limit = (k - 1) * limit + limit + d * limit
          BY ONLY <5>1
        <5> QED
          BY <5>1, <5>2
      <4>4. PICK b \in Nat, c \in Nat : b = first[k] /\ c = d * limit
        BY <3>1, <4>2
      <4>5. first[l] = b + limit + c
        BY <3>1, <4>3, <4>4
      <4> QED
        BY ONLY <1>3, <2>3, <4>4, <4>5
    <3> QED
      BY <1>2, <1>10, <3>2, <3>3
  <2>5. p < q
    <3>1. p \in Nat /\ q \in Nat
      BY <1>2
    <3>2. PICK a \in Nat, b \in Nat : a = ActiveTo(p) /\ b = ActiveTo(q)
      <4>1. ActiveTo(p) \in 0 .. p /\ ActiveTo(q) \in 0 .. q
        BY <3>1, ActiveIsNat
      <4> QED
        BY <4>1
    <3>3. a < b
      BY <2>1, <2>2, <2>4, <3>2
    <3>4. q < p => ActiveTo(q) <= ActiveTo(p)
      BY <3>1, ActiveGrows
    <3> QED
      BY <3>1, <3>2, <3>3, <3>4
  <2> QED
    BY <1>9, <2>1, <2>2, <2>5
<1>11. \A k \in 1 .. MaxAgents : ListActive((k - 1) * limit, limit) = shown[k]
  BY <1>5
<1>12. {ToSet(ListActive((k - 1) * limit, limit)) : k \in 1 .. MaxAgents} = {ToSet(shown[k]) : k \in 1 .. MaxAgents}
  BY <1>11, Zenon
<1> QED
  BY <1>8, <1>10, <1>11, <1>12, Zenon

\* listActive, asked for one page after the other, gives every active agent
\* once and in the order of first listing, after any registrations, withdrawals
\* and new versions, and for any page size.
THEOREM PagesAreComplete == AgentsSpec => []PagesCoverTheDirectory
<1>1. IInv => PagesCoverTheDirectory
  BY PagesCover DEF IInv, AgentsTypeOK
<1> QED
  BY <1>1, Invariance, PTL

-----------------------------------------------------------------------------
\* Refinement of the directory: a listing changes only by registerAdapter, to
\* one with a key and a payee.
LEMMA DirectoryStep ==
    IInv /\ [AgentsNext]_agentVars
        => [Directory!DirectoryNext]_[id \in Identities |-> [signer |-> SignerOf(id), payTo |-> PayToOf(id)]]
<1> DEFINE view == [id \in Identities |-> [signer |-> SignerOf(id), payTo |-> PayToOf(id)]]
<1> SUFFICES ASSUME IInv, [AgentsNext]_agentVars
             PROVE  [Directory!DirectoryNext]_view
  OBVIOUS
<1> USE DEF identityVars, adapterVars
<1>0. adapters \in [Identities -> Submissions \cup {NoAdapter}]
  BY DEF IInv, AgentsTypeOK
<1>1. ASSUME NEW caller \in Accounts, NEW id \in Identities, NEW a \in Submissions,
             NEW wellFormed \in BOOLEAN, RegisterAdapter(caller, id, a, wellFormed)
      PROVE  Directory!DirectoryNext
  <2> DEFINE entry == [signer |-> a.signer, payTo |-> a.payTo]
  <2>1. adapters' = [adapters EXCEPT ![id] = a] /\ a.payTo # Zero /\ a.signer # Zero
    BY <1>1 DEF RegisterAdapter, CanRegisterAdapter
  <2>2. entry \in Directory!Listed
    BY <2>1 DEF Submissions, Directory!Listed
  <2>3. view' = [view EXCEPT ![id] = entry]
    BY <1>0, <2>1 DEF SignerOf, PayToOf
  <2> QED
    BY <2>2, <2>3 DEF Directory!DirectoryNext, Directory!List
<1>2. ASSUME NEW caller \in Accounts, NEW id \in Identities, Deactivate(caller, id)
      PROVE  UNCHANGED view
  BY <1>0, <1>2 DEF Deactivate, SignerOf, PayToOf
<1>3. CASE UNCHANGED adapters
  BY <1>3 DEF SignerOf, PayToOf
<1> QED
  BY <1>1, <1>2, <1>3 DEF AgentsNext, AgentsCall, Register, SetTokenURI, TransferFrom, SetOperator, agentVars

\* The two registries implement the directory that FlowEscrow is composed with.
THEOREM AgentsRefineDirectory == AgentsSpec => ImplementsAgentDirectory
<1>1. AgentsInit => Directory!DirectoryInit
  BY DEF AgentsInit, Directory!DirectoryInit, Directory!Unlisted, SignerOf, PayToOf, NoAdapter
<1> QED
  BY <1>1, DirectoryStep, Invariance, PTL
     DEF AgentsSpec, ImplementsAgentDirectory, Directory!DirectorySpec

-----------------------------------------------------------------------------
\* Refinement of the authority: a call changes one of owner, operator and key,
\* and the last two only of an identity that has an owner.
LEMMA AuthorityStep ==
    IInv /\ [AgentsNext]_agentVars => [Authority!AuthorityNext]_(Authority!authorityVars)
<1> DEFINE keys == [id \in Identities |-> SignerOf(id)]
<1> SUFFICES ASSUME IInv, [AgentsNext]_agentVars
             PROVE  [Authority!AuthorityNext]_(Authority!authorityVars)
  OBVIOUS
<1> USE DEF identityVars, adapterVars
<1>0. /\ adapters \in [Identities -> Submissions \cup {NoAdapter}]
      /\ nextId \in 1 .. MaxAgents + 1
  BY DEF IInv, AgentsTypeOK
<1>1. ASSUME NEW caller \in Accounts, NEW uri \in URIs, Register(caller, uri)
      PROVE  Authority!AuthorityNext
  <2>1. nextId \in Identities
    BY <1>0, <1>1, RegistryBounds DEF Register, Identities
  <2>2. Authority!HandTo(nextId, caller)
    BY <1>1 DEF Register, Authority!HandTo, SignerOf
  <2> QED
    BY <2>1, <2>2 DEF Authority!AuthorityNext
<1>2. ASSUME NEW caller \in Accounts, NEW id \in Identities, NEW from \in Accounts,
             NEW to \in Accounts \cup {Zero}, TransferFrom(caller, from, to, id)
      PROVE  Authority!AuthorityNext
  BY <1>2 DEF TransferFrom, MayTransfer, SignerOf, Authority!AuthorityNext, Authority!HandTo
<1>3. ASSUME NEW caller \in Accounts, NEW id \in Identities, NEW a \in Submissions,
             NEW wellFormed \in BOOLEAN, RegisterAdapter(caller, id, a, wellFormed)
      PROVE  Authority!AuthorityNext
  <2>1. /\ adapters' = [adapters EXCEPT ![id] = a] /\ a.signer # Zero /\ owners[id] # Zero
        /\ UNCHANGED <<owners, operators>>
    BY <1>3 DEF RegisterAdapter, CanRegisterAdapter, MayPublish, IsMinted
  <2>2. keys' = [keys EXCEPT ![id] = a.signer]
    BY <1>0, <2>1 DEF SignerOf
  <2>3. a.signer \in Keys
    BY <2>1 DEF Submissions
  <2> QED
    BY <2>1, <2>2, <2>3 DEF Authority!AuthorityNext, Authority!Publish
<1>4. ASSUME NEW caller \in Accounts, NEW id \in Identities, NEW operator \in Accounts \cup {Zero},
             SetOperator(caller, id, operator)
      PROVE  Authority!AuthorityNext
  BY <1>4 DEF SetOperator, IsMinted, SignerOf, Authority!AuthorityNext, Authority!Appoint
<1>5. ASSUME NEW caller \in Accounts, NEW id \in Identities, Deactivate(caller, id)
      PROVE  UNCHANGED Authority!authorityVars
  BY <1>0, <1>5 DEF Deactivate, SignerOf, Authority!authorityVars
<1>6. ASSUME UNCHANGED <<owners, operators, adapters>>
      PROVE  UNCHANGED Authority!authorityVars
  BY <1>6 DEF SignerOf, Authority!authorityVars
<1> QED
  <2>1. ASSUME NEW caller \in Accounts, NEW id \in Identities, NEW uri \in URIs, SetTokenURI(caller, id, uri)
        PROVE  UNCHANGED Authority!authorityVars
    BY <2>1, <1>6 DEF SetTokenURI
  <2>2. CASE UNCHANGED agentVars
    BY <2>2, <1>6 DEF agentVars
  <2> QED
    BY <1>1, <1>2, <1>3, <1>4, <1>5, <2>1, <2>2 DEF AgentsNext, AgentsCall

\* The two registries implement the authority that AgentReputation is composed
\* with.
THEOREM AgentsRefineAuthority == AgentsSpec => ImplementsAgentAuthority
<1>1. AgentsInit => Authority!AuthorityInit
  BY DEF AgentsInit, Authority!AuthorityInit, SignerOf, NoAdapter
<1> QED
  BY <1>1, AuthorityStep, Invariance, PTL
     DEF AgentsSpec, ImplementsAgentAuthority, Authority!AuthoritySpec

-----------------------------------------------------------------------------
\* The publishing tool and the publish page: the inductive invariant.
Listings == [version : Nat, active : BOOLEAN, signer : Keys \cup {Zero},
             payTo : Accounts \cup {Zero}, price : Prices \cup {0}]
Descriptions == [endpoint : Endpoints \cup {Zero}, root : Endpoints \cup {Zero}, conformant : BOOLEAN]
Places == {"off", "gate", "identity", "minting", "schema", "version", "list", "listing",
           "published", "failed"}
JobStates == [pc : Places, front : {"cli", "page"}, endpoint : Endpoints \cup {Zero},
              conformant : BOOLEAN, root : Endpoints \cup {Zero}, form : Forms, id : Nat,
              seen : Nat, receipt : {"none", "success", "reverted"}]
PageStates == [phase : {"form", "checking", "checked", "publishing", "done"},
               preflight : SUBSET Descriptions, asked : SUBSET Endpoints]
Transactions == [job : Jobs, kind : {"mint", "list"}, id : Nat, listing : Listings,
                 description : Descriptions]

PubTypeOK ==
    /\ nextId \in Nat \ {0}
    /\ adapters \in [Identities -> Listings]
    /\ known \in [Identities -> BOOLEAN]
    /\ described \in [Identities -> Descriptions]
    /\ page \in PageStates
    /\ jobs \in [Jobs -> JobStates]
    /\ txs \in Seq(Transactions)

\* A listing says that its agent is conformant only when it passed.
SaysPassed(description) == description.conformant => description.endpoint \in passed

\* The listing of a job is on chain, or was replaced by a later version.
ListingKept(job) ==
    /\ known[job.id] /\ adapters[job.id].version >= job.seen + 1
    /\ adapters[job.id].version = job.seen + 1 =>
        /\ adapters[job.id] \in {Submitted(job), [Submitted(job) EXCEPT !.active = FALSE]}
        /\ described[job.id] = Description(job)

\* What holds of a publication where it is; versions only grow, so that it has
\* read one that is not above the one on chain.
JobOK(job) ==
    /\ SaysPassed(Description(job))
    /\ job.pc \in {"schema", "version", "list", "listing", "published"} => job.id \in Identities
    /\ job.pc = "minting" /\ job.receipt = "success" => job.id \in Identities
    /\ job.pc \in {"list", "listing"} => adapters[job.id].version >= job.seen
    /\ (job.pc = "listing" /\ job.receipt = "success") \/ job.pc = "published" => ListingKept(job)

\* A transaction is the one its job waits for, or was given up.
TxOK(tx) ==
    /\ jobs[tx.job].pc \in {"minting", "listing", "failed"}
    /\ jobs[tx.job].pc = "minting" => tx.kind = "mint" /\ jobs[tx.job].receipt = "none"
    /\ jobs[tx.job].pc = "listing" =>
        /\ tx.kind = "list" /\ jobs[tx.job].receipt = "none" /\ tx.id = jobs[tx.job].id
        /\ tx.listing = Submitted(jobs[tx.job]) /\ tx.description = Description(jobs[tx.job])
    /\ tx.kind = "list" =>
        /\ tx.id \in Identities /\ tx.listing.version >= 1
        /\ adapters[tx.id].version >= tx.listing.version - 1

OneTxEach == \A k, l \in DOMAIN txs : txs[k].job = txs[l].job => k = l

PubInv ==
    /\ PubTypeOK
    /\ \A id \in Identities : ~known[id] => adapters[id] = NoAdapter
    /\ \A preflight \in page.preflight : SaysPassed(preflight)
    /\ \A j \in Jobs : JobOK(jobs[j])
    /\ \A k \in DOMAIN txs : TxOK(txs[k])
    /\ OneTxEach

-----------------------------------------------------------------------------
\* Versions only grow, and a listing whose version stays is the same but for
\* being deactivated.
Grows ==
    /\ passed \subseteq passed'
    /\ \A id \in Identities :
        /\ adapters'[id].version >= adapters[id].version
        /\ known[id] => known'[id]
        /\ known[id] /\ adapters'[id].version = adapters[id].version =>
            /\ adapters'[id] \in {adapters[id], [adapters[id] EXCEPT !.active = FALSE]}
            /\ described'[id] = described[id]

LEMMA UnchangedGrows ==
    ASSUME PubInv, UNCHANGED <<agentVars, described>>, passed \subseteq passed'
    PROVE  Grows
BY DEF agentVars, Grows, PubInv, PubTypeOK, Listings

LEMMA KeptListing ==
    ASSUME PubInv, Grows, NEW j \in Jobs, jobs[j].id \in Identities, ListingKept(jobs[j]),
           UNCHANGED jobs[j], adapters' \in [Identities -> Listings]
    PROVE  ListingKept(jobs[j])'
<1> DEFINE job == jobs[j]
           id == jobs[j].id
<1>1. /\ adapters[id] \in Listings /\ adapters'[id] \in Listings /\ job.seen \in Nat
      /\ adapters[id].version \in Nat /\ adapters'[id].version \in Nat
  BY DEF PubInv, PubTypeOK, JobStates, Listings
<1>2. /\ known'[id] /\ adapters'[id].version >= job.seen + 1
      /\ adapters'[id].version = job.seen + 1 =>
            /\ adapters'[id].version = adapters[id].version
            /\ adapters[id] \in {Submitted(job), [Submitted(job) EXCEPT !.active = FALSE]}
            /\ described[id] = Description(job)
  <2>1. known[id] /\ known'[id]
    BY DEF Grows, ListingKept
  <2>2. adapters'[id].version >= adapters[id].version /\ adapters[id].version >= job.seen + 1
    BY DEF Grows, ListingKept
  <2>3. adapters[id].version = job.seen + 1 =>
            /\ adapters[id] \in {Submitted(job), [Submitted(job) EXCEPT !.active = FALSE]}
            /\ described[id] = Description(job)
    BY DEF ListingKept
  <2>4. /\ adapters'[id].version >= job.seen + 1
        /\ adapters'[id].version = job.seen + 1 =>
              adapters'[id].version = adapters[id].version /\ adapters[id].version = job.seen + 1
    BY <1>1, <2>2
  <2> QED
    BY <2>1, <2>3, <2>4
<1>3. adapters'[id].version = job.seen + 1 =>
        /\ adapters'[id] \in {adapters[id], [adapters[id] EXCEPT !.active = FALSE]}
        /\ described'[id] = Description(job)
  BY <1>2 DEF Grows, ListingKept
<1>4. [[Submitted(job) EXCEPT !.active = FALSE] EXCEPT !.active = FALSE]
        = [Submitted(job) EXCEPT !.active = FALSE]
  BY DEF Submitted
<1>5. adapters'[id].version = job.seen + 1 =>
        adapters'[id] \in {Submitted(job), [Submitted(job) EXCEPT !.active = FALSE]}
  BY <1>2, <1>3, <1>4
<1>6. Submitted(jobs[j])' = Submitted(job) /\ Description(jobs[j])' = Description(job)
  BY DEF Submitted, Description
<1> QED
  BY <1>2, <1>3, <1>5, <1>6 DEF ListingKept

LEMMA JobKept ==
    ASSUME PubInv, Grows, NEW j \in Jobs, UNCHANGED jobs[j], adapters' \in [Identities -> Listings]
    PROVE  JobOK(jobs[j])'
<1>1. JobOK(jobs[j]) /\ jobs[j] \in JobStates
  BY DEF PubInv, PubTypeOK
<1>2. SaysPassed(Description(jobs[j]))'
  BY <1>1 DEF JobOK, SaysPassed, Description, Grows
<1>3. jobs[j].pc \in {"list", "listing"} => adapters'[jobs[j].id].version >= jobs[j].seen
  <2> SUFFICES ASSUME jobs[j].pc \in {"list", "listing"}
               PROVE  adapters'[jobs[j].id].version >= jobs[j].seen
    OBVIOUS
  <2>1. jobs[j].id \in Identities /\ adapters[jobs[j].id].version >= jobs[j].seen
    BY <1>1 DEF JobOK
  <2>2. /\ adapters[jobs[j].id].version \in Nat /\ adapters'[jobs[j].id].version \in Nat
        /\ jobs[j].seen \in Nat
    BY <1>1, <2>1 DEF PubInv, PubTypeOK, Listings, JobStates
  <2> QED
    BY <2>1, <2>2 DEF Grows
<1>4. (jobs[j].pc = "listing" /\ jobs[j].receipt = "success") \/ jobs[j].pc = "published"
        => ListingKept(jobs[j])'
  BY <1>1, KeptListing DEF JobOK
<1> QED
  BY <1>1, <1>2, <1>3, <1>4 DEF JobOK

LEMMA TxKept ==
    ASSUME PubInv, Grows, adapters' \in [Identities -> Listings],
           NEW tx \in Transactions, TxOK(tx), UNCHANGED jobs[tx.job] \/ jobs'[tx.job].pc = "failed"
    PROVE  TxOK(tx)'
<1>1. tx.kind = "list" => adapters'[tx.id].version >= tx.listing.version - 1
  <2> SUFFICES ASSUME tx.kind = "list" PROVE adapters'[tx.id].version >= tx.listing.version - 1
    OBVIOUS
  <2>1. tx.id \in Identities /\ adapters[tx.id].version >= tx.listing.version - 1
    BY DEF TxOK
  <2>2. /\ adapters[tx.id].version \in Nat /\ adapters'[tx.id].version \in Nat
        /\ tx.listing.version \in Nat
    BY <2>1 DEF PubInv, PubTypeOK, Listings, Transactions
  <2> QED
    BY <2>1, <2>2 DEF Grows
<1> QED
  BY <1>1 DEF TxOK, Submitted, Description

-----------------------------------------------------------------------------
\* A publication whose transaction is not in the pool.
Alone(j) == \A k \in DOMAIN txs : txs[k].job # j

\* A step of one publication that only reads the chain.
LEMMA LocalKeeps ==
    ASSUME PubInv, NEW j \in Jobs, UNCHANGED <<agentVars, described, txs>>,
           passed \subseteq passed', page' \in PageStates,
           \A preflight \in page'.preflight : SaysPassed(preflight)',
           jobs' \in [Jobs -> JobStates], \A i \in Jobs : i # j => jobs'[i] = jobs[i],
           JobOK(jobs[j])', jobs'[j].pc = "failed" \/ Alone(j)
    PROVE  PubInv'
<1>1. Grows /\ PubTypeOK
  BY UnchangedGrows DEF PubInv
<1>2. PubTypeOK' /\ adapters' \in [Identities -> Listings]
  BY <1>1 DEF PubTypeOK, agentVars
<1>3. \A i \in Jobs : JobOK(jobs[i])'
  BY <1>1, <1>2, JobKept
<1>4. ASSUME NEW k \in DOMAIN txs' PROVE TxOK(txs[k])'
  <2>1. PICK tx \in Transactions : tx = txs[k] /\ tx = txs'[k] /\ k \in DOMAIN txs
    BY <1>1 DEF PubTypeOK
  <2>2. TxOK(tx) /\ tx.job \in Jobs
    BY <2>1 DEF PubInv, Transactions
  <2>3. UNCHANGED jobs[tx.job] \/ jobs'[tx.job].pc = "failed"
    BY <2>1, <2>2 DEF Alone
  <2>4. TxOK(tx)'
    BY <1>1, <1>2, <2>2, <2>3, TxKept
  <2> QED
    BY <2>1, <2>4 DEF TxOK
<1>5. /\ \A id \in Identities : ~known'[id] => adapters'[id] = NoAdapter
      /\ OneTxEach'
  BY DEF PubInv, agentVars, OneTxEach
<1> QED
  BY <1>2, <1>3, <1>4, <1>5 DEF PubInv

LEMMA NoJobTyped ==
    /\ NoJob \in JobStates /\ NoJob.conformant = FALSE /\ NoJob.pc = "off"
    /\ [NoJob EXCEPT !.pc = "failed"] \in JobStates
    /\ [NoJob EXCEPT !.pc = "failed"].pc = "failed"
    /\ [NoJob EXCEPT !.pc = "failed"].conformant = FALSE
<1>1. (CHOOSE f \in Forms : TRUE) \in Forms
  BY PublishingAssumption
<1> DEFINE form == CHOOSE f \in Forms : TRUE
<1>2. form \in Forms
  BY <1>1
<1> HIDE DEF form
<1>3. NoJob = [pc |-> "off", front |-> "cli", endpoint |-> Zero, conformant |-> FALSE, root |-> Zero,
               form |-> form, id |-> 0, seen |-> 0, receipt |-> "none"]
  BY DEF NoJob, form
<1> QED
  BY <1>2, <1>3 DEF JobStates, Places

LEMMA Failing ==
    ASSUME PubInv, NEW j \in Jobs, Fails(j)
    PROVE  /\ jobs' \in [Jobs -> JobStates] /\ \A i \in Jobs : i # j => jobs'[i] = jobs[i]
           /\ jobs'[j].pc = "failed" /\ JobOK(jobs[j])'
<1>1. /\ jobs' = [jobs EXCEPT ![j] = [NoJob EXCEPT !.pc = "failed"]]
      /\ jobs \in [Jobs -> JobStates]
  BY DEF Fails, PubInv, PubTypeOK
<1>2. jobs' \in [Jobs -> JobStates] /\ \A i \in Jobs : i # j => jobs'[i] = jobs[i]
  BY <1>1, NoJobTyped
<1>3. jobs'[j].pc = "failed" /\ jobs'[j].conformant = FALSE
  BY <1>1, NoJobTyped
<1>4. JobOK(jobs[j])'
  BY <1>3 DEF JobOK, SaysPassed, Description
<1> QED
  BY <1>2, <1>3, <1>4

\* What ends a publication ends it in order.
LEMMA FailKeeps ==
    ASSUME PubInv, NEW j \in Jobs, Fails(j), Elsewhere,
           page' = page \/ \E phase \in {"checked", "done"} : Ends(j, phase)
    PROVE  PubInv'
<1>1. UNCHANGED <<agentVars, described, txs, passed>>
  BY DEF Elsewhere
<1>2. page' \in PageStates /\ page'.preflight = page.preflight
  BY DEF PubInv, PubTypeOK, PageStates, Ends
<1>3. \A preflight \in page'.preflight : SaysPassed(preflight)'
  BY <1>1, <1>2 DEF PubInv, SaysPassed
<1> QED
  BY <1>1, <1>2, <1>3, Failing, LocalKeeps

\* Moving a publication on keeps its other fields.
LEMMA PlaceSet ==
    ASSUME NEW s \in JobStates, NEW pc \in Places, NEW u, u = [s EXCEPT !.pc = pc]
    PROVE  /\ u \in JobStates /\ u.pc = pc
           /\ u.endpoint = s.endpoint /\ u.conformant = s.conformant /\ u.root = s.root
           /\ u.form = s.form /\ u.id = s.id /\ u.seen = s.seen
<1>1. u \in JobStates /\ u.pc = pc
  BY DEF JobStates
<1>2. u.endpoint = s.endpoint /\ u.conformant = s.conformant /\ u.root = s.root
  BY DEF JobStates
<1>3. u.form = s.form /\ u.id = s.id /\ u.seen = s.seen
  BY DEF JobStates
<1> QED
  BY <1>1, <1>2, <1>3

LEMMA Moving ==
    ASSUME PubInv, NEW j \in Jobs, NEW pc \in Places, Goes(j, pc)
    PROVE  /\ jobs' \in [Jobs -> JobStates] /\ \A i \in Jobs : i # j => jobs'[i] = jobs[i]
           /\ jobs'[j] = [jobs[j] EXCEPT !.pc = pc] /\ jobs[j] \in JobStates
<1>1. jobs' = [jobs EXCEPT ![j].pc = pc] /\ jobs \in [Jobs -> JobStates]
  BY DEF Goes, PubInv, PubTypeOK
<1>2. \A s \in JobStates : [s EXCEPT !.pc = pc] \in JobStates
  BY DEF JobStates
<1> QED
  BY <1>1, <1>2

\* A publication that waits for nothing has no transaction in the pool.
LEMMA AloneAt ==
    ASSUME PubInv, NEW j \in Jobs,
           jobs[j].pc \notin {"minting", "listing", "failed"} \/ jobs[j].receipt # "none",
           jobs[j].pc # "failed"
    PROVE  Alone(j)
<1> SUFFICES ASSUME NEW k \in DOMAIN txs, txs[k].job = j PROVE FALSE
  BY DEF Alone
<1> QED
  BY DEF PubInv, TxOK

\* The rest of the state, of a step that reads the chain and leaves the page.
LEMMA PageKept ==
    ASSUME PubInv, UNCHANGED page, passed \subseteq passed'
    PROVE  page' \in PageStates /\ \A preflight \in page'.preflight : SaysPassed(preflight)'
BY DEF PubInv, PubTypeOK, SaysPassed

LEMMA GateKeeps ==
    ASSUME PubInv, NEW j \in Jobs, Gate(j)
    PROVE  PubInv'
<1>1. /\ jobs[j].pc = "gate" /\ UNCHANGED <<agentVars, described, page, txs>>
      /\ JobOK(jobs[j]) /\ jobs[j] \in JobStates /\ jobs \in [Jobs -> JobStates]
  BY DEF Gate, At, PubInv, PubTypeOK
<1>2. Alone(j)
  BY <1>1, AloneAt
<1>3. CASE /\ passed' = passed \cup {jobs[j].endpoint}
           /\ jobs' = [jobs EXCEPT ![j].pc = "identity", ![j].conformant = TRUE]
  <2>1. \A s \in JobStates :
            LET t == [[s EXCEPT !.pc = "identity"] EXCEPT !.conformant = TRUE]
            IN  /\ t \in JobStates /\ t.pc = "identity" /\ t.endpoint = s.endpoint
                /\ t.form = s.form
    <3> TAKE s \in JobStates
    <3>1. PICK v : v = [s EXCEPT !.pc = "identity"]
      OBVIOUS
    <3>2. v \in JobStates /\ v.pc = "identity" /\ v.endpoint = s.endpoint /\ v.form = s.form
      BY <3>1, PlaceSet DEF Places
    <3>3. LET t == [v EXCEPT !.conformant = TRUE]
          IN  t \in JobStates /\ t.pc = v.pc /\ t.endpoint = v.endpoint /\ t.form = v.form
      BY <3>2 DEF JobStates
    <3> QED
      BY <3>1, <3>2, <3>3
  <2>2. /\ jobs' \in [Jobs -> JobStates] /\ \A i \in Jobs : i # j => jobs'[i] = jobs[i]
        /\ jobs'[j] = [[jobs[j] EXCEPT !.pc = "identity"] EXCEPT !.conformant = TRUE]
    BY <1>1, <1>3, <2>1
  <2>3. jobs'[j].pc = "identity" /\ jobs'[j].endpoint = jobs[j].endpoint
    BY <1>1, <2>1, <2>2
  <2>4. JobOK(jobs[j])'
    BY <1>3, <2>3 DEF JobOK, SaysPassed, Description
  <2> QED
    BY <1>1, <1>2, <1>3, <2>2, <2>4, PageKept, LocalKeeps
<1>4. CASE Goes(j, "identity") /\ UNCHANGED passed
  <2>1. /\ jobs' \in [Jobs -> JobStates] /\ \A i \in Jobs : i # j => jobs'[i] = jobs[i]
        /\ jobs'[j] = [jobs[j] EXCEPT !.pc = "identity"]
    BY <1>4, Moving DEF Places
  <2>2. /\ jobs'[j].pc = "identity" /\ jobs'[j].endpoint = jobs[j].endpoint
        /\ jobs'[j].conformant = jobs[j].conformant
    BY <1>1, <2>1 DEF JobStates
  <2>3. JobOK(jobs[j])'
    BY <1>1, <1>4, <2>2 DEF JobOK, SaysPassed, Description
  <2> QED
    BY <1>1, <1>2, <1>4, <2>1, <2>3, PageKept, LocalKeeps
<1>5. CASE Fails(j) /\ UNCHANGED passed
  BY <1>1, <1>5, PageKept, Failing, LocalKeeps
<1> QED
  BY <1>3, <1>4, <1>5 DEF Gate

\* A step that changes what a publication has of its identity or its schema.
LEMMA IdentityStepsKeep ==
    ASSUME PubInv, NEW j \in Jobs,
           UseIdentity(j) \/ Minted(j) \/ StoreSchema(j) \/ ReadVersion(j)
    PROVE  PubInv'
<1> DEFINE job == jobs[j]
<1>1. /\ UNCHANGED <<agentVars, described, txs, passed, page>> /\ Elsewhere
      /\ JobOK(jobs[j]) /\ jobs[j] \in JobStates /\ jobs \in [Jobs -> JobStates]
  BY DEF UseIdentity, Minted, StoreSchema, ReadVersion, Elsewhere, PubInv, PubTypeOK
<1>2. Alone(j)
  BY AloneAt DEF UseIdentity, Minted, StoreSchema, ReadVersion, At
<1>3. ASSUME jobs' \in [Jobs -> JobStates], \A i \in Jobs : i # j => jobs'[i] = jobs[i],
             UNCHANGED <<jobs[j].endpoint, jobs[j].conformant>>,
             jobs'[j].pc \in {"schema", "version", "list"}, jobs'[j].id \in Identities,
             jobs'[j].pc = "list" => adapters[jobs'[j].id].version >= jobs'[j].seen
      PROVE  PubInv'
  <2>1. SaysPassed(Description(jobs[j]))'
    BY <1>1, <1>3 DEF JobOK, SaysPassed, Description
  <2>2. JobOK(jobs[j])'
    BY <1>1, <1>3, <2>1 DEF JobOK, agentVars
  <2> QED
    BY <1>1, <1>2, <1>3, <2>2, PageKept, LocalKeeps
<1>4. ASSUME Fails(j) PROVE PubInv'
  BY <1>1, <1>4, FailKeeps
<1>5. CASE UseIdentity(j)
  <2>1. CASE Fails(j)
    BY <2>1, <1>4
  <2>2. CASE jobs' = [jobs EXCEPT ![j].id = job.form.named,
                                  ![j].pc = IF job.front = "cli" THEN "schema" ELSE "version"]
    <3>1. job.form.named \in Identities /\ job.form.named \in Nat
      BY <1>1, <1>5, PublishingAssumption, RegistryBounds DEF UseIdentity, JobStates, Identities
    <3> DEFINE named == job.form.named
               pc == IF job.front = "cli" THEN "schema" ELSE "version"
    <3>2. pc \in {"schema", "version"}
      OBVIOUS
    <3>3. jobs' = [jobs EXCEPT ![j].id = named, ![j].pc = pc]
      BY <2>2
    <3>4. named \in Identities /\ named \in Nat
      BY <3>1
    <3> HIDE DEF named, pc
    <3>5. \A s \in JobStates :
              LET u == [[s EXCEPT !.id = named] EXCEPT !.pc = pc]
              IN  /\ u \in JobStates /\ u.pc = pc /\ u.endpoint = s.endpoint
                  /\ u.conformant = s.conformant /\ u.id = named
      <4> TAKE s \in JobStates
      <4>1. PICK v : v = [s EXCEPT !.pc = pc]
        OBVIOUS
      <4>2. /\ v \in JobStates /\ v.pc = pc /\ v.endpoint = s.endpoint
            /\ v.conformant = s.conformant /\ v.id = s.id
        BY <3>2, <4>1, PlaceSet DEF Places
      <4>3. LET u == [v EXCEPT !.id = named]
            IN  /\ u \in JobStates /\ u.pc = v.pc /\ u.endpoint = v.endpoint
                /\ u.conformant = v.conformant /\ u.id = named
        BY <3>4, <4>2 DEF JobStates
      <4> QED
        BY <4>1, <4>2, <4>3
    <3>6. /\ jobs' \in [Jobs -> JobStates] /\ \A i \in Jobs : i # j => jobs'[i] = jobs[i]
          /\ jobs'[j] = [[jobs[j] EXCEPT !.id = named] EXCEPT !.pc = pc]
      BY <1>1, <3>3, <3>5
    <3>7. /\ jobs'[j].pc \in {"schema", "version"} /\ jobs'[j].id \in Identities
          /\ UNCHANGED <<jobs[j].endpoint, jobs[j].conformant>>
      BY <1>1, <3>2, <3>4, <3>5, <3>6
    <3> QED
      BY <1>3, <3>6, <3>7
  <2> QED
    BY <1>5, <2>1, <2>2 DEF UseIdentity
<1>6. CASE Minted(j)
  <2>1. PICK pc \in {"schema", "version"} : Goes(j, pc)
    BY <1>6 DEF Minted
  <2>2. job.id \in Identities
    BY <1>1, <1>6 DEF Minted, At, JobOK
  <2>3. /\ jobs' \in [Jobs -> JobStates] /\ \A i \in Jobs : i # j => jobs'[i] = jobs[i]
        /\ jobs'[j] = [jobs[j] EXCEPT !.pc = pc]
    BY <2>1, Moving DEF Places
  <2>4. /\ jobs'[j].pc = pc /\ UNCHANGED <<jobs[j].endpoint, jobs[j].conformant, jobs[j].id>>
    BY <1>1, <2>3 DEF JobStates
  <2> QED
    BY <1>3, <2>2, <2>3, <2>4
<1>7. CASE StoreSchema(j)
  <2>1. CASE Fails(j)
    BY <2>1, <1>4
  <2>2. CASE jobs' = [jobs EXCEPT ![j].pc = "version", ![j].root = job.endpoint]
    <3> DEFINE root == job.endpoint
    <3>1. root \in Endpoints \cup {Zero} /\ jobs' = [jobs EXCEPT ![j].pc = "version", ![j].root = root]
      BY <1>1, <2>2 DEF JobStates
    <3>2. job.id \in Identities
      BY <1>1, <1>7 DEF StoreSchema, At, JobOK
    <3> HIDE DEF root
    <3>3. \A s \in JobStates :
              LET u == [[s EXCEPT !.pc = "version"] EXCEPT !.root = root]
              IN  /\ u \in JobStates /\ u.pc = "version" /\ u.endpoint = s.endpoint
                  /\ u.conformant = s.conformant /\ u.id = s.id
      <4> TAKE s \in JobStates
      <4>1. PICK v : v = [s EXCEPT !.pc = "version"]
        OBVIOUS
      <4>2. /\ v \in JobStates /\ v.pc = "version" /\ v.endpoint = s.endpoint
            /\ v.conformant = s.conformant /\ v.id = s.id
        BY <4>1, PlaceSet DEF Places
      <4>3. LET u == [v EXCEPT !.root = root]
            IN  /\ u \in JobStates /\ u.pc = v.pc /\ u.endpoint = v.endpoint
                /\ u.conformant = v.conformant /\ u.id = v.id
        BY <3>1, <4>2 DEF JobStates
      <4> QED
        BY <4>1, <4>2, <4>3
    <3>4. /\ jobs' \in [Jobs -> JobStates] /\ \A i \in Jobs : i # j => jobs'[i] = jobs[i]
          /\ jobs'[j] = [[jobs[j] EXCEPT !.pc = "version"] EXCEPT !.root = root]
      BY <1>1, <3>1, <3>3
    <3>5. /\ jobs'[j].pc = "version"
          /\ UNCHANGED <<jobs[j].endpoint, jobs[j].conformant, jobs[j].id>>
      BY <1>1, <3>3, <3>4
    <3> QED
      BY <1>3, <3>2, <3>4, <3>5
  <2> QED
    BY <1>7, <2>1, <2>2 DEF StoreSchema
<1>8. CASE ReadVersion(j)
  <2> DEFINE seen == IF known[job.id] THEN adapters[job.id].version ELSE 0
  <2>1. jobs' = [jobs EXCEPT ![j].pc = "list", ![j].seen = seen]
    BY <1>8 DEF ReadVersion
  <2>2. job.id \in Identities
    BY <1>1, <1>8 DEF ReadVersion, At, JobOK
  <2>3. adapters[job.id].version \in Nat
    BY <2>2 DEF PubInv, PubTypeOK, Listings
  <2>4. seen \in Nat /\ adapters[job.id].version >= seen
    BY <2>3
  <2> HIDE DEF seen
  <2>5. \A s \in JobStates :
            LET u == [[s EXCEPT !.pc = "list"] EXCEPT !.seen = seen]
            IN  /\ u \in JobStates /\ u.pc = "list" /\ u.endpoint = s.endpoint
                /\ u.conformant = s.conformant /\ u.id = s.id /\ u.seen = seen
    <3> TAKE s \in JobStates
    <3>1. PICK v : v = [s EXCEPT !.pc = "list"]
      OBVIOUS
    <3>2. /\ v \in JobStates /\ v.pc = "list" /\ v.endpoint = s.endpoint
          /\ v.conformant = s.conformant /\ v.id = s.id
      BY <3>1, PlaceSet DEF Places
    <3>3. LET u == [v EXCEPT !.seen = seen]
          IN  /\ u \in JobStates /\ u.pc = v.pc /\ u.endpoint = v.endpoint
              /\ u.conformant = v.conformant /\ u.id = v.id /\ u.seen = seen
      BY <2>4, <3>2 DEF JobStates
    <3> QED
      BY <3>1, <3>2, <3>3
  <2>6. /\ jobs' \in [Jobs -> JobStates] /\ \A i \in Jobs : i # j => jobs'[i] = jobs[i]
        /\ jobs'[j] = [[jobs[j] EXCEPT !.pc = "list"] EXCEPT !.seen = seen]
    BY <1>1, <2>1, <2>5
  <2>7. /\ jobs'[j].pc = "list" /\ jobs'[j].seen = seen
        /\ UNCHANGED <<jobs[j].endpoint, jobs[j].conformant, jobs[j].id>>
    BY <1>1, <2>5, <2>6
  <2> QED
    BY <1>3, <2>2, <2>4, <2>6, <2>7
<1> QED
  BY <1>5, <1>6, <1>7, <1>8

\* A publication that fails: in the wallet, by a receipt, by the deadline.
LEMMA FailuresKeep ==
    ASSUME PubInv, NEW j \in Jobs, RejectInWallet(j) \/ Reverted(j) \/ GiveUp(j)
    PROVE  PubInv'
<1>1. Fails(j) /\ Ends(j, "checked") /\ Elsewhere
  BY DEF RejectInWallet, Reverted, GiveUp
<1> QED
  BY <1>1, FailKeeps

LEMMA ConfirmKeeps ==
    ASSUME PubInv, NEW j \in Jobs, Confirm(j)
    PROVE  PubInv'
<1>1. /\ jobs[j].pc = "listing" /\ jobs[j].receipt = "success" /\ Elsewhere
      /\ UNCHANGED <<agentVars, described, txs, passed>>
      /\ JobOK(jobs[j]) /\ jobs[j] \in JobStates
  BY DEF Confirm, At, Elsewhere, PubInv, PubTypeOK
<1>2. CASE Fails(j) /\ Ends(j, "checked")
  BY <1>1, <1>2, FailKeeps
<1>3. CASE Goes(j, "published") /\ Ends(j, "done")
  <2>1. /\ jobs' \in [Jobs -> JobStates] /\ \A i \in Jobs : i # j => jobs'[i] = jobs[i]
        /\ jobs'[j] = [jobs[j] EXCEPT !.pc = "published"]
    BY <1>3, Moving DEF Places
  <2>2. /\ jobs'[j].pc = "published"
        /\ UNCHANGED <<jobs[j].endpoint, jobs[j].conformant, jobs[j].id, jobs[j].seen,
                       jobs[j].form, jobs[j].root>>
    BY <1>1, <2>1 DEF JobStates
  <2>3. ListingKept(jobs[j]) /\ jobs[j].id \in Identities /\ SaysPassed(Description(jobs[j]))
    BY <1>1 DEF JobOK
  <2>4. Submitted(jobs[j])' = Submitted(jobs[j]) /\ Description(jobs[j])' = Description(jobs[j])
    BY <2>2 DEF Submitted, Description
  <2>5. JobOK(jobs[j])'
    BY <1>1, <2>2, <2>3, <2>4 DEF JobOK, ListingKept, SaysPassed, agentVars
  <2>6. page' \in PageStates /\ page'.preflight = page.preflight
    BY <1>3 DEF PubInv, PubTypeOK, PageStates, Ends
  <2>7. \A preflight \in page'.preflight : SaysPassed(preflight)'
    BY <1>1, <2>6 DEF PubInv, SaysPassed
  <2>8. Alone(j)
    BY <1>1, AloneAt
  <2> QED
    BY <1>1, <2>1, <2>5, <2>6, <2>7, <2>8, LocalKeeps
<1> QED
  BY <1>2, <1>3 DEF Confirm

\* A publication begins.
LEMMA BeginningKeeps ==
    ASSUME PubInv, NEW j \in Jobs, ClickPublish(j) \/ StartCli(j)
    PROVE  PubInv'
<1>1. /\ jobs[j].pc = "off" /\ UNCHANGED <<agentVars, described, txs, passed>>
      /\ jobs \in [Jobs -> JobStates]
  BY DEF ClickPublish, StartCli, At, Elsewhere, PubInv, PubTypeOK
<1>2. Alone(j)
  BY <1>1, AloneAt
<1>3. CASE ClickPublish(j)
  <2>1. PICK preflight \in page.preflight, form \in Forms :
            jobs' = [jobs EXCEPT ![j] = [NoJob EXCEPT !.pc = "identity", !.front = "page",
                        !.endpoint = preflight.endpoint, !.conformant = preflight.conformant,
                        !.root = preflight.root, !.form = form]]
    BY <1>3 DEF ClickPublish
  <2>2. preflight \in Descriptions /\ SaysPassed(preflight)
    BY DEF PubInv, PubTypeOK, PageStates
  <2> DEFINE state == [NoJob EXCEPT !.pc = "identity", !.front = "page",
                          !.endpoint = preflight.endpoint, !.conformant = preflight.conformant,
                          !.root = preflight.root, !.form = form]
  <2>3. /\ state \in JobStates /\ state.pc = "identity"
        /\ state.endpoint = preflight.endpoint /\ state.conformant = preflight.conformant
    BY <2>2, NoJobTyped DEF JobStates, Places, Descriptions
  <2>4. jobs' = [jobs EXCEPT ![j] = state]
    BY <2>1
  <2> HIDE DEF state
  <2>5. /\ jobs' \in [Jobs -> JobStates] /\ \A i \in Jobs : i # j => jobs'[i] = jobs[i]
        /\ jobs'[j].pc = "identity" /\ jobs'[j].endpoint = preflight.endpoint
        /\ jobs'[j].conformant = preflight.conformant
    BY <1>1, <2>3, <2>4
  <2>6. JobOK(jobs[j])'
    BY <1>1, <2>2, <2>5 DEF JobOK, SaysPassed, Description
  <2>7. page' \in PageStates /\ page'.preflight = page.preflight
    BY <1>3 DEF PubInv, PubTypeOK, PageStates, ClickPublish
  <2>8. \A q \in page'.preflight : SaysPassed(q)'
    BY <1>1, <2>7 DEF PubInv, SaysPassed
  <2> QED
    BY <1>1, <1>2, <2>5, <2>6, <2>7, <2>8, LocalKeeps
<1>4. CASE StartCli(j)
  <2>1. PICK form \in Forms :
            jobs' = [jobs EXCEPT ![j] = [NoJob EXCEPT !.pc = "gate", !.endpoint = form.endpoint,
                                                      !.form = form]]
    BY <1>4 DEF StartCli
  <2>2. form.endpoint \in Endpoints
    BY PublishingAssumption
  <2> DEFINE state == [NoJob EXCEPT !.pc = "gate", !.endpoint = form.endpoint, !.form = form]
  <2>3. state \in JobStates /\ state.pc = "gate" /\ state.conformant = FALSE
    BY <2>2, NoJobTyped DEF JobStates, Places
  <2>4. jobs' = [jobs EXCEPT ![j] = state]
    BY <2>1
  <2> HIDE DEF state
  <2>5. /\ jobs' \in [Jobs -> JobStates] /\ \A i \in Jobs : i # j => jobs'[i] = jobs[i]
        /\ jobs'[j].pc = "gate" /\ jobs'[j].conformant = FALSE
    BY <1>1, <2>3, <2>4
  <2>6. JobOK(jobs[j])'
    BY <2>5 DEF JobOK, SaysPassed, Description
  <2> QED
    BY <1>1, <1>2, <1>4, <2>5, <2>6, PageKept, LocalKeeps DEF StartCli
<1> QED
  BY <1>3, <1>4

\* The page runs a preflight.
LEMMA PreflightsKeep ==
    ASSUME PubInv, RunPreflight \/ PreflightDone
    PROVE  PubInv'
<1>1. UNCHANGED <<agentVars, described, txs, jobs>> /\ passed \subseteq passed'
  BY DEF RunPreflight, PreflightDone
<1>2. page' \in PageStates /\ \A preflight \in page'.preflight : SaysPassed(preflight)'
  <2>1. page \in PageStates /\ \A preflight \in page.preflight : SaysPassed(preflight)
    BY DEF PubInv, PubTypeOK
  <2>2. CASE RunPreflight
    <3>1. PICK e \in Endpoints :
              page' = [page EXCEPT !.phase = "checking", !.preflight = {}, !.asked = @ \cup {e}]
      BY <2>2 DEF RunPreflight
    <3> DEFINE asked == page.asked \cup {e}
    <3>2. asked \in SUBSET Endpoints
      BY <2>1 DEF PageStates
    <3>3. page' = [[[page EXCEPT !.phase = "checking"] EXCEPT !.preflight = {}]
                      EXCEPT !.asked = asked]
      BY ONLY <2>1, <3>1 DEF PageStates
    <3> HIDE DEF asked
    <3>4. page' \in PageStates /\ page'.preflight = {}
      <4>1. PICK p1 : p1 = [page EXCEPT !.phase = "checking"]
        OBVIOUS
      <4>2. PICK p2 : p2 = [p1 EXCEPT !.preflight = {}]
        OBVIOUS
      <4>3. p2 \in PageStates /\ p2.preflight = {}
        BY <2>1, <4>1, <4>2 DEF PageStates
      <4>4. page' = [p2 EXCEPT !.asked = asked]
        BY <3>3, <4>1, <4>2
      <4> QED
        BY <3>2, <4>3, <4>4 DEF PageStates
    <3> QED
      BY <3>4
  <2>3. CASE PreflightDone
    <3>1. PICK e \in page.asked :
             \/ /\ \E phase \in {"form", "checked"} :
                       page' = [page EXCEPT !.phase = phase, !.asked = @ \ {e}]
                /\ UNCHANGED passed
             \/ /\ page' = [page EXCEPT !.phase = "checked", !.asked = @ \ {e},
                              !.preflight = {[endpoint |-> e, conformant |-> TRUE, root |-> e]}]
                /\ passed' = passed \cup {e}
      BY <2>3 DEF PreflightDone
    <3>2. e \in Endpoints /\ page.asked \ {e} \in SUBSET Endpoints
      BY <2>1 DEF PageStates
    <3>3. CASE page' = [page EXCEPT !.phase = "checked", !.asked = @ \ {e},
                          !.preflight = {[endpoint |-> e, conformant |-> TRUE, root |-> e]}]
               /\ passed' = passed \cup {e}
      <4> DEFINE found == [endpoint |-> e, conformant |-> TRUE, root |-> e]
      <4>0. {found} \in SUBSET Descriptions /\ page.asked \ {e} \in SUBSET Endpoints
        BY <3>2 DEF Descriptions
      <4> HIDE DEF found
      <4>1. PICK asked \in SUBSET Endpoints, kept \in SUBSET Descriptions :
                asked = page.asked \ {e} /\ kept = {found}
        BY <4>0
      <4>2. page' = [[[page EXCEPT !.phase = "checked"] EXCEPT !.preflight = kept]
                        EXCEPT !.asked = asked]
        BY <2>1, <3>3, <4>1 DEF PageStates, found
      <4>3. \A q \in kept : q.endpoint \in passed'
        BY <3>3, <4>1 DEF found
      <4>4. page' \in PageStates /\ page'.preflight = kept
        BY <2>1, <4>2 DEF PageStates
      <4> QED
        BY <4>3, <4>4 DEF SaysPassed
    <3>4. CASE (\E phase \in {"form", "checked"} :
                   page' = [page EXCEPT !.phase = phase, !.asked = @ \ {e}]) /\ UNCHANGED passed
      BY <2>1, <3>2, <3>4 DEF PageStates, SaysPassed
    <3> QED
      BY <3>1, <3>3, <3>4
  <2> QED
    BY <2>2, <2>3
<1>3. Grows
  BY <1>1, UnchangedGrows
<1>4. PubTypeOK' /\ adapters' \in [Identities -> Listings]
  BY <1>1, <1>2 DEF PubInv, PubTypeOK, agentVars
<1>5. \A i \in Jobs : JobOK(jobs[i])'
  BY <1>1, <1>3, <1>4, JobKept
<1>6. ASSUME NEW k \in DOMAIN txs' PROVE TxOK(txs[k])'
  BY <1>1 DEF PubInv, TxOK, agentVars, Submitted, Description
<1>7. /\ \A id \in Identities : ~known'[id] => adapters'[id] = NoAdapter
      /\ OneTxEach'
  BY <1>1 DEF PubInv, agentVars, OneTxEach
<1> QED
  BY <1>2, <1>4, <1>5, <1>6, <1>7 DEF PubInv

-----------------------------------------------------------------------------
\* A transaction is sent.
LEMMA SubmitKeeps ==
    ASSUME PubInv, NEW j \in Jobs, NEW tx \in Transactions, NEW pc \in {"minting", "listing"},
           Submit(j, tx, pc), Alone(j), tx.job = j, jobs[j].pc # "failed",
           UNCHANGED <<agentVars, described, page, passed>>,
           pc = "minting" => tx.kind = "mint",
           pc = "listing" =>
               /\ jobs[j].pc = "list" /\ tx.kind = "list" /\ tx.id = jobs[j].id
               /\ tx.listing = Submitted(jobs[j]) /\ tx.description = Description(jobs[j])
    PROVE  PubInv'
<1>1. /\ txs \in Seq(Transactions) /\ jobs \in [Jobs -> JobStates] /\ jobs[j] \in JobStates
      /\ JobOK(jobs[j]) /\ PubTypeOK
  BY DEF PubInv, PubTypeOK
<1>2. /\ txs' = Append(txs, tx)
      /\ jobs' = [jobs EXCEPT ![j].pc = pc, ![j].receipt = "none"]
  BY DEF Submit
<1>3. \A s \in JobStates :
          LET u == [[s EXCEPT !.pc = pc] EXCEPT !.receipt = "none"]
          IN  /\ u \in JobStates /\ u.pc = pc /\ u.receipt = "none" /\ u.endpoint = s.endpoint
              /\ u.conformant = s.conformant /\ u.root = s.root /\ u.form = s.form
              /\ u.id = s.id /\ u.seen = s.seen
  <2> TAKE s \in JobStates
  <2>1. PICK v : v = [s EXCEPT !.pc = pc]
    OBVIOUS
  <2>2. /\ v \in JobStates /\ v.pc = pc
        /\ v.endpoint = s.endpoint /\ v.conformant = s.conformant /\ v.root = s.root
        /\ v.form = s.form /\ v.id = s.id /\ v.seen = s.seen
    BY <2>1, PlaceSet DEF Places
  <2>3. PICK u : u = [v EXCEPT !.receipt = "none"]
    OBVIOUS
  <2>4. u \in JobStates /\ u.pc = v.pc /\ u.receipt = "none"
    BY <2>2, <2>3 DEF JobStates
  <2>5. /\ u.endpoint = v.endpoint /\ u.conformant = v.conformant /\ u.root = v.root
        /\ u.form = v.form /\ u.id = v.id /\ u.seen = v.seen
    BY <2>2, <2>3 DEF JobStates
  <2> QED
    BY <2>1, <2>2, <2>3, <2>4, <2>5
<1>4. /\ jobs' \in [Jobs -> JobStates] /\ \A i \in Jobs : i # j => jobs'[i] = jobs[i]
      /\ jobs'[j] = [[jobs[j] EXCEPT !.pc = pc] EXCEPT !.receipt = "none"]
  <2>1. PICK u : u = [[jobs[j] EXCEPT !.pc = pc] EXCEPT !.receipt = "none"]
    OBVIOUS
  <2>2. u \in JobStates
    BY <1>1, <1>3, <2>1
  <2>3. jobs' = [jobs EXCEPT ![j] = u]
    BY ONLY <1>1, <1>2, <2>1
  <2> QED
    BY <1>1, <2>1, <2>2, <2>3
<1>5. /\ jobs'[j].pc = pc /\ jobs'[j].receipt = "none"
      /\ UNCHANGED <<jobs[j].endpoint, jobs[j].conformant, jobs[j].root, jobs[j].form,
                     jobs[j].id, jobs[j].seen>>
  <2>1. LET s == jobs[j] u == [[s EXCEPT !.pc = pc] EXCEPT !.receipt = "none"]
        IN  /\ u.pc = pc /\ u.receipt = "none" /\ u.endpoint = s.endpoint
            /\ u.conformant = s.conformant /\ u.root = s.root /\ u.form = s.form
            /\ u.id = s.id /\ u.seen = s.seen
    BY ONLY <1>1, <1>3
  <2> QED
    BY ONLY <1>4, <2>1
<1>6. Grows /\ adapters' \in [Identities -> Listings]
  BY <1>1, UnchangedGrows DEF agentVars, PubTypeOK
<1>7. PubTypeOK'
  BY <1>1, <1>2, <1>4 DEF PubTypeOK, agentVars
<1>8. UNCHANGED adapters /\ Submitted(jobs[j])' = Submitted(jobs[j])
      /\ Description(jobs[j])' = Description(jobs[j])
  BY <1>5 DEF agentVars, Submitted, Description
<1>9. JobOK(jobs[j])'
  BY <1>1, <1>5, <1>8 DEF JobOK, SaysPassed
<1>10. \A i \in Jobs : JobOK(jobs[i])'
  BY <1>4, <1>6, <1>9, JobKept
<1>11. /\ DOMAIN txs' = 1 .. Len(txs) + 1 /\ DOMAIN txs = 1 .. Len(txs) /\ Len(txs) \in Nat
       /\ txs'[Len(txs) + 1] = tx
       /\ \A k \in DOMAIN txs : txs'[k] = txs[k]
  BY <1>1, <1>2
<1>12. TxOK(tx)'
  <2>1. CASE pc = "minting"
    BY <1>5, <2>1 DEF TxOK
  <2>2. CASE pc = "listing"
    <3>1. /\ jobs[j].id \in Identities /\ adapters[jobs[j].id].version >= jobs[j].seen
          /\ jobs[j].seen \in Nat
      BY <1>1, <2>2 DEF JobOK, JobStates
    <3>2. tx.listing.version = jobs[j].seen + 1
      BY <2>2 DEF Submitted
    <3>3. tx.listing.version >= 1 /\ tx.listing.version - 1 = jobs[j].seen
      BY <3>1, <3>2
    <3> QED
      BY <1>5, <1>8, <2>2, <3>1, <3>3 DEF TxOK
  <2> QED
    BY <2>1, <2>2
<1>13. ASSUME NEW k \in DOMAIN txs' PROVE TxOK(txs[k])'
  <2>1. CASE k \in DOMAIN txs
    <3>1. PICK t \in Transactions : t = txs[k] /\ t = txs'[k]
      BY <1>1, <1>11, <2>1
    <3>2. TxOK(t) /\ t.job \in Jobs /\ t.job # j
      BY <2>1, <3>1 DEF PubInv, Transactions, Alone
    <3>3. TxOK(t)'
      BY <1>4, <1>6, <3>2, TxKept
    <3> QED
      BY <3>1, <3>3 DEF TxOK
  <2>2. CASE k \notin DOMAIN txs
    <3>1. txs'[k] = tx
      BY <1>11, <2>2
    <3> QED
      BY <1>12, <3>1 DEF TxOK
  <2> QED
    BY <2>1, <2>2
<1>14. OneTxEach'
  <2> SUFFICES ASSUME NEW k \in DOMAIN txs', NEW l \in DOMAIN txs', txs'[k].job = txs'[l].job
               PROVE  k = l
    BY DEF OneTxEach
  <2>1. CASE k \in DOMAIN txs /\ l \in DOMAIN txs
    BY <1>11, <2>1 DEF PubInv, OneTxEach
  <2>2. CASE k \in DOMAIN txs /\ l \notin DOMAIN txs
    BY <1>11, <2>2 DEF Alone
  <2>3. CASE k \notin DOMAIN txs /\ l \in DOMAIN txs
    BY <1>11, <2>3 DEF Alone
  <2>4. CASE k \notin DOMAIN txs /\ l \notin DOMAIN txs
    BY <1>11, <2>4
  <2> QED
    BY <2>1, <2>2, <2>3, <2>4
<1>15. /\ \A id \in Identities : ~known'[id] => adapters'[id] = NoAdapter
       /\ \A preflight \in page'.preflight : SaysPassed(preflight)'
  BY DEF PubInv, agentVars, SaysPassed
<1> QED
  BY <1>7, <1>10, <1>13, <1>14, <1>15 DEF PubInv

LEMMA NoAdapterTyped == NoAdapter \in Listings /\ Unlisted \in Descriptions
BY DEF NoAdapter, Listings, Unlisted, Descriptions

LEMMA ListingTx ==
    ASSUME NEW j, NEW id, NEW listing, NEW description
    PROVE  [Mint(j) EXCEPT !.kind = "list", !.id = id, !.listing = listing, !.description = description]
             = [job |-> j, kind |-> "list", id |-> id, listing |-> listing, description |-> description]
<1> DEFINE Tx(i, l, d) == [job |-> j, kind |-> "list", id |-> i, listing |-> l, description |-> d]
<1>1. [Mint(j) EXCEPT !.kind = "list"] = Tx(0, NoAdapter, Unlisted)
  BY DEF Mint
<1>2. [Tx(0, NoAdapter, Unlisted) EXCEPT !.id = id] = Tx(id, NoAdapter, Unlisted)
  OBVIOUS
<1>3. [Tx(id, NoAdapter, Unlisted) EXCEPT !.listing = listing] = Tx(id, listing, Unlisted)
  OBVIOUS
<1>4. [Tx(id, listing, Unlisted) EXCEPT !.description = description] = Tx(id, listing, description)
  OBVIOUS
<1> HIDE DEF Tx
<1>5. [Mint(j) EXCEPT !.kind = "list", !.id = id, !.listing = listing, !.description = description]
        = Tx(id, listing, description)
  BY <1>1, <1>2, <1>3, <1>4
<1> QED
  BY <1>5 DEF Tx

LEMMA SendsKeep ==
    ASSUME PubInv, NEW j \in Jobs, SendMint(j) \/ SendListing(j)
    PROVE  PubInv'
<1>1. jobs[j] \in JobStates /\ UNCHANGED <<agentVars, described, passed>>
  BY DEF PubInv, PubTypeOK, SendMint, SendListing
<1>2. /\ Mint(j) \in Transactions /\ Mint(j).job = j /\ Mint(j).kind = "mint"
      /\ Mint(j) = [job |-> j, kind |-> "mint", id |-> 0, listing |-> NoAdapter,
                    description |-> Unlisted]
  BY NoAdapterTyped DEF Mint, Transactions
<1>3. CASE SendMint(j)
  <2>1. jobs[j].pc = "identity" /\ Submit(j, Mint(j), "minting") /\ UNCHANGED page
    BY <1>3 DEF SendMint, At
  <2>2. Alone(j)
    BY <2>1, AloneAt
  <2> QED
    BY <1>1, <1>2, <2>1, <2>2, SubmitKeeps
<1>4. CASE SendListing(j)
  <2>1. jobs[j].pc = "list" /\ Alone(j)
    BY <1>4, AloneAt DEF SendListing, At
  <2>2. CASE Fails(j) /\ Ends(j, "checked") /\ UNCHANGED txs
    BY <1>4, <2>2, FailKeeps DEF SendListing, Elsewhere
  <2>3. CASE /\ Malformed \notin {jobs[j].form.payTo, jobs[j].form.price}
             /\ Submit(j, [Mint(j) EXCEPT !.kind = "list", !.id = jobs[j].id,
                              !.listing = Submitted(jobs[j]),
                              !.description = Description(jobs[j])], "listing")
             /\ UNCHANGED page
    <3>1. Submitted(jobs[j]) \in Listings
      <4>1. jobs[j].form \in Forms /\ jobs[j].seen \in Nat
        BY <1>1 DEF JobStates
      <4>2. /\ jobs[j].form.signer \in Keys \cup {Zero}
            /\ jobs[j].form.payTo \in Accounts \cup {Zero, Malformed}
            /\ jobs[j].form.price \in Prices \cup {Malformed}
        BY <4>1, PublishingAssumption
      <4> QED
        BY <2>3, <4>1, <4>2 DEF Submitted, Listings
    <3>2. Description(jobs[j]) \in Descriptions /\ jobs[j].id \in Nat
      BY <1>1 DEF Description, Descriptions, JobStates
    <3>3. PICK tx \in Transactions :
              /\ tx.job = j /\ tx.kind = "list" /\ tx.id = jobs[j].id
              /\ tx.listing = Submitted(jobs[j]) /\ tx.description = Description(jobs[j])
              /\ tx = [Mint(j) EXCEPT !.kind = "list", !.id = jobs[j].id,
                          !.listing = Submitted(jobs[j]), !.description = Description(jobs[j])]
      <4> DEFINE tx == [job |-> j, kind |-> "list", id |-> jobs[j].id,
                        listing |-> Submitted(jobs[j]), description |-> Description(jobs[j])]
      <4>1. tx \in Transactions
        BY <3>1, <3>2 DEF Transactions
      <4>2. tx = [Mint(j) EXCEPT !.kind = "list", !.id = jobs[j].id,
                          !.listing = Submitted(jobs[j]), !.description = Description(jobs[j])]
        BY ListingTx
      <4> QED
        BY <4>1, <4>2
    <3>4. Submit(j, tx, "listing")
      BY <2>3, <3>3
    <3> QED
      BY <1>1, <2>1, <2>3, <3>3, <3>4, SubmitKeeps
  <2> QED
    BY <1>4, <2>2, <2>3 DEF SendListing
<1> QED
  BY <1>3, <1>4

-----------------------------------------------------------------------------
\* A transaction is mined, and the publication that waits for it learns of it.
LEMMA MinedKeeps ==
    ASSUME PubInv, txs # <<>>, NEW tx \in Transactions, tx = NextTx,
           NEW status \in {"success", "reverted"}, NEW id \in Nat, Mined(tx, status, id),
           nextId' \in Nat \ {0}, adapters' \in [Identities -> Listings],
           known' \in [Identities -> BOOLEAN], described' \in [Identities -> Descriptions],
           Grows, \A i \in Identities : ~known'[i] => adapters'[i] = NoAdapter,
           Waiting(tx.job) => JobOK(jobs[tx.job])'
    PROVE  PubInv'
<1> DEFINE j == tx.job
<1>1. /\ txs \in Seq(Transactions) /\ jobs \in [Jobs -> JobStates] /\ j \in Jobs
      /\ txs' = Tail(txs) /\ UNCHANGED <<page, passed>>
  BY DEF PubInv, PubTypeOK, Transactions, Mined
<1>2. \A s \in JobStates :
          [[s EXCEPT !.receipt = status] EXCEPT !.id = id] \in JobStates
  BY DEF JobStates
<1>5. /\ jobs' \in [Jobs -> JobStates] /\ \A i \in Jobs : i # j => jobs'[i] = jobs[i]
      /\ Waiting(j) \/ jobs' = jobs
  <2>1. CASE Waiting(j)
    <3>1. jobs' = [jobs EXCEPT ![j].receipt = status, ![j].id = id]
      BY <2>1 DEF Mined
    <3> HIDE DEF j
    <3>2. jobs' \in [Jobs -> JobStates] /\ \A i \in Jobs : i # j => jobs'[i] = jobs[i]
      BY <1>1, <1>2, <3>1
    <3> QED
      BY <2>1, <3>2
  <2>2. CASE ~Waiting(j)
    BY <1>1, <2>2 DEF Mined
  <2> QED
    BY <2>1, <2>2
<1>6. PubTypeOK'
  BY <1>1, <1>5 DEF PubInv, PubTypeOK
<1>7. ASSUME NEW i \in Jobs PROVE JobOK(jobs[i])'
  <2>1. CASE i = j /\ Waiting(j)
    BY <2>1
  <2>2. CASE i # j \/ ~Waiting(j)
    <3>1. UNCHANGED jobs[i]
      BY <1>5, <2>2
    <3> QED
      BY <3>1, JobKept
  <2> QED
    BY <2>1, <2>2
<1>8. /\ \A k \in DOMAIN txs' : k + 1 \in DOMAIN txs /\ txs'[k] = txs[k + 1] /\ k \in Nat
      /\ 1 \in DOMAIN txs /\ txs[1] = tx
      /\ \A k \in DOMAIN txs' : k + 1 # 1
  BY <1>1 DEF NextTx
<1>9. ASSUME NEW k \in DOMAIN txs' PROVE TxOK(txs[k])'
  <2>1. PICK t \in Transactions : t = txs[k + 1] /\ t = txs'[k]
    BY <1>1, <1>8
  <2>2. TxOK(t) /\ t.job \in Jobs /\ t.job # j
    BY <1>8, <2>1 DEF PubInv, OneTxEach, Transactions
  <2>3. TxOK(t)'
    BY <1>5, <2>2, TxKept
  <2> QED
    BY <2>1, <2>3 DEF TxOK
<1>10. OneTxEach'
  <2> SUFFICES ASSUME NEW k \in DOMAIN txs', NEW l \in DOMAIN txs', txs'[k].job = txs'[l].job
               PROVE  k = l
    BY DEF OneTxEach
  <2>1. k + 1 = l + 1
    BY <1>8 DEF PubInv, OneTxEach
  <2> QED
    BY <1>8, <2>1
<1>11. \A preflight \in page'.preflight : SaysPassed(preflight)'
  BY <1>1 DEF PubInv, SaysPassed
<1> QED
  BY <1>6, <1>7, <1>9, <1>10, <1>11 DEF PubInv

\* The publication a mined transaction belongs to, if it still waits.
LEMMA Waiters ==
    ASSUME PubInv, txs # <<>>
    PROVE  /\ NextTx \in Transactions /\ TxOK(NextTx) /\ NextTx.job \in Jobs
           /\ jobs[NextTx.job] \in JobStates /\ JobOK(jobs[NextTx.job])
<1>1. txs \in Seq(Transactions)
  BY DEF PubInv, PubTypeOK
<1>2. 1 \in DOMAIN txs /\ NextTx = txs[1] /\ NextTx \in Transactions
  BY <1>1 DEF NextTx
<1>3. TxOK(NextTx)
  BY <1>2 DEF PubInv
<1>4. NextTx.job \in Jobs
  BY <1>2 DEF Transactions
<1> QED
  BY <1>2, <1>3, <1>4 DEF PubInv, PubTypeOK

LEMMA ReceiptReceived ==
    ASSUME PubInv, NEW tx \in Transactions, NEW status \in {"success", "reverted"}, NEW id \in Nat,
           Mined(tx, status, id), Waiting(tx.job)
    PROVE  /\ jobs'[tx.job].receipt = status /\ jobs'[tx.job].id = id
           /\ UNCHANGED <<jobs[tx.job].pc, jobs[tx.job].endpoint, jobs[tx.job].conformant,
                          jobs[tx.job].root, jobs[tx.job].form, jobs[tx.job].seen>>
<1> DEFINE j == tx.job
<1>1. j \in Jobs /\ jobs \in [Jobs -> JobStates]
  BY DEF PubInv, PubTypeOK, Transactions
<1>2. jobs' = [jobs EXCEPT ![j].receipt = status, ![j].id = id]
  BY DEF Mined
<1>3. ASSUME NEW s \in JobStates
      PROVE  LET u == [[s EXCEPT !.receipt = status] EXCEPT !.id = id]
             IN  /\ u.receipt = status /\ u.id = id
                 /\ u.pc = s.pc /\ u.endpoint = s.endpoint /\ u.conformant = s.conformant
                 /\ u.root = s.root /\ u.form = s.form /\ u.seen = s.seen
  BY <1>3 DEF JobStates
<1> HIDE DEF j
<1>4. jobs'[j] = [[jobs[j] EXCEPT !.receipt = status] EXCEPT !.id = id]
  BY <1>1, <1>2
<1>5. /\ jobs'[j].receipt = status /\ jobs'[j].id = id
      /\ UNCHANGED <<jobs[j].pc, jobs[j].endpoint, jobs[j].conformant,
                     jobs[j].root, jobs[j].form, jobs[j].seen>>
  BY <1>1, <1>3, <1>4
<1> QED
  BY <1>5 DEF j

LEMMA MineMintKeeps ==
    ASSUME PubInv, MineMint
    PROVE  PubInv'
<1>1. /\ txs # <<>> /\ NextTx.kind = "mint" /\ UNCHANGED <<adapterVars, described>>
      /\ nextId <= MaxAgents /\ nextId' = nextId + 1 /\ Mined(NextTx, "success", nextId)
  BY DEF MineMint, Register
<1>2. PICK tx \in Transactions : tx = NextTx
  BY <1>1, Waiters
<1>3. PICK id \in Nat : id = nextId
  BY DEF PubInv, PubTypeOK
<1>4. nextId' \in Nat \ {0} /\ id \in Identities /\ PubTypeOK
  BY <1>1, <1>3, RegistryBounds DEF PubInv, PubTypeOK, Identities
<1>5. UNCHANGED <<adapters, known, described>> /\ UNCHANGED <<page, passed>>
  BY <1>1 DEF adapterVars, Mined
<1>6. Grows
  BY <1>4, <1>5 DEF Grows, PubTypeOK, Listings
<1>7. Mined(tx, "success", id)
  BY <1>1, <1>2, <1>3
<1>8. Waiting(tx.job) => JobOK(jobs[tx.job])'
  <2> SUFFICES ASSUME Waiting(tx.job) PROVE JobOK(jobs[tx.job])'
    OBVIOUS
  <2>1. /\ TxOK(tx) /\ JobOK(jobs[tx.job]) /\ tx.kind = "mint"
    BY <1>1, <1>2, Waiters
  <2>2. jobs[tx.job].pc = "minting"
    BY <2>1 DEF TxOK, Waiting, At
  <2>3. /\ jobs'[tx.job].receipt = "success" /\ jobs'[tx.job].id = id
        /\ UNCHANGED <<jobs[tx.job].pc, jobs[tx.job].endpoint, jobs[tx.job].conformant>>
    BY <1>7, ReceiptReceived
  <2> QED
    BY <1>4, <1>5, <2>1, <2>2, <2>3 DEF JobOK, SaysPassed, Description
<1> QED
  BY <1>1, <1>2, <1>4, <1>5, <1>6, <1>7, <1>8, MinedKeeps DEF PubTypeOK, PubInv

\* registerAdapter raises the version of a listing, and touches no other.
LEMMA ListingGrows ==
    ASSUME PubInv, NEW caller, NEW id \in Identities, NEW a \in Listings, NEW d \in Descriptions,
           RegisterAdapter(caller, id, a, TRUE), described' = [described EXCEPT ![id] = d],
           UNCHANGED passed
    PROVE  /\ Grows /\ UNCHANGED nextId
           /\ adapters' \in [Identities -> Listings] /\ known' \in [Identities -> BOOLEAN]
           /\ described' \in [Identities -> Descriptions]
           /\ \A i \in Identities : ~known'[i] => adapters'[i] = NoAdapter
           /\ known'[id] /\ adapters'[id] = a /\ described'[id] = d
<1>1. /\ adapters \in [Identities -> Listings] /\ known \in [Identities -> BOOLEAN]
      /\ described \in [Identities -> Descriptions]
      /\ \A i \in Identities : ~known[i] => adapters[i] = NoAdapter
      /\ \A i \in Identities : adapters[i].version \in Nat
      /\ a.version \in Nat
  BY DEF PubInv, PubTypeOK, Listings
<1>2. /\ adapters' = [adapters EXCEPT ![id] = a] /\ known' = [known EXCEPT ![id] = TRUE]
      /\ known[id] => a.version > adapters[id].version
      /\ UNCHANGED nextId
  BY DEF RegisterAdapter, CanRegisterAdapter, identityVars
<1>3. ~known[id] => adapters[id].version = 0
  BY <1>1 DEF NoAdapter
<1>4. /\ adapters' \in [Identities -> Listings] /\ known' \in [Identities -> BOOLEAN]
      /\ described' \in [Identities -> Descriptions]
      /\ \A i \in Identities : i # id => /\ adapters'[i] = adapters[i] /\ known'[i] = known[i]
                                         /\ described'[i] = described[i]
      /\ known'[id] /\ adapters'[id] = a /\ described'[id] = d
  BY <1>1, <1>2
<1>5. a.version >= adapters[id].version /\ (known[id] => a.version # adapters[id].version)
  BY <1>1, <1>2, <1>3
<1>6. Grows
  <2> SUFFICES ASSUME NEW i \in Identities
               PROVE  /\ adapters'[i].version >= adapters[i].version
                      /\ known[i] => known'[i]
                      /\ known[i] /\ adapters'[i].version = adapters[i].version =>
                            /\ adapters'[i] \in {adapters[i], [adapters[i] EXCEPT !.active = FALSE]}
                            /\ described'[i] = described[i]
    BY DEF Grows
  <2>1. CASE i = id
    BY <1>4, <1>5, <2>1
  <2>2. CASE i # id
    BY <1>1, <1>4, <2>2
  <2> QED
    BY <2>1, <2>2
<1> QED
  BY <1>1, <1>2, <1>4, <1>6

LEMMA MineListingKeeps ==
    ASSUME PubInv, MineListing
    PROVE  PubInv'
<1>1. txs # <<>> /\ NextTx.kind = "list"
  BY DEF MineListing
<1>2. PICK tx \in Transactions : tx = NextTx
  BY <1>1, Waiters
<1>3. /\ TxOK(tx) /\ JobOK(jobs[tx.job]) /\ tx.kind = "list" /\ tx.job \in Jobs
      /\ jobs[tx.job] \in JobStates /\ tx.id \in Identities /\ tx.id \in Nat
      /\ tx.listing \in Listings /\ tx.description \in Descriptions
      /\ Waiting(tx.job) => jobs[tx.job].pc = "listing"
  BY <1>1, <1>2, Waiters DEF Transactions, TxOK, Waiting, At
<1>4. CASE /\ RegisterAdapter(Publisher, tx.id, tx.listing, TRUE)
           /\ described' = [described EXCEPT ![tx.id] = tx.description]
           /\ Mined(tx, "success", tx.id)
  <2>1. UNCHANGED <<page, passed>>
    BY <1>4 DEF Mined
  <2>2. /\ Grows /\ UNCHANGED nextId
        /\ adapters' \in [Identities -> Listings] /\ known' \in [Identities -> BOOLEAN]
        /\ described' \in [Identities -> Descriptions]
        /\ \A i \in Identities : ~known'[i] => adapters'[i] = NoAdapter
        /\ known'[tx.id] /\ adapters'[tx.id] = tx.listing /\ described'[tx.id] = tx.description
    BY <1>3, <1>4, <2>1, ListingGrows
  <2>3. Waiting(tx.job) => JobOK(jobs[tx.job])'
    <3> SUFFICES ASSUME Waiting(tx.job) PROVE JobOK(jobs[tx.job])'
      OBVIOUS
    <3>1. /\ jobs'[tx.job].receipt = "success" /\ jobs'[tx.job].id = tx.id
          /\ UNCHANGED <<jobs[tx.job].pc, jobs[tx.job].endpoint, jobs[tx.job].conformant,
                         jobs[tx.job].root, jobs[tx.job].form, jobs[tx.job].seen>>
      BY <1>3, <1>4, ReceiptReceived
    <3>2. /\ jobs[tx.job].pc = "listing" /\ tx.listing = Submitted(jobs[tx.job])
          /\ tx.description = Description(jobs[tx.job])
      BY <1>3 DEF TxOK
    <3>3. /\ Submitted(jobs[tx.job])' = Submitted(jobs[tx.job])
          /\ Description(jobs[tx.job])' = Description(jobs[tx.job])
      BY <3>1 DEF Submitted, Description
    <3>4. adapters'[tx.id].version = jobs[tx.job].seen + 1 /\ jobs[tx.job].seen \in Nat
      BY <1>3, <2>2, <3>2 DEF Submitted, JobStates
    <3>5. ListingKept(jobs[tx.job])'
      BY <2>2, <3>1, <3>2, <3>3, <3>4 DEF ListingKept
    <3>6. adapters'[tx.id].version >= jobs'[tx.job].seen
      BY <3>1, <3>4
    <3>7. SaysPassed(Description(jobs[tx.job]))'
      BY <1>3, <2>1, <3>3 DEF JobOK, SaysPassed
    <3> QED
      BY <1>3, <3>1, <3>2, <3>5, <3>6, <3>7 DEF JobOK
  <2>4. nextId' \in Nat \ {0}
    BY <2>2 DEF PubInv, PubTypeOK
  <2> QED
    BY <1>1, <1>2, <1>3, <1>4, <2>2, <2>3, <2>4, MinedKeeps
<1>5. CASE UNCHANGED <<agentVars, described>> /\ Mined(tx, "reverted", tx.id)
  <2>1. UNCHANGED <<page, passed>> /\ PubTypeOK
    BY <1>5 DEF Mined, PubInv
  <2>2. Grows
    BY <1>5, <2>1, UnchangedGrows
  <2>3. UNCHANGED <<nextId, adapters, known, described>>
    BY <1>5 DEF agentVars
  <2>4. Waiting(tx.job) => JobOK(jobs[tx.job])'
    <3> SUFFICES ASSUME Waiting(tx.job) PROVE JobOK(jobs[tx.job])'
      OBVIOUS
    <3>1. /\ jobs'[tx.job].receipt = "reverted" /\ jobs'[tx.job].id = tx.id
          /\ UNCHANGED <<jobs[tx.job].pc, jobs[tx.job].endpoint, jobs[tx.job].conformant,
                         jobs[tx.job].seen>>
      BY <1>3, <1>5, ReceiptReceived
    <3>2. jobs[tx.job].pc = "listing" /\ tx.id = jobs[tx.job].id
      BY <1>3 DEF TxOK
    <3> QED
      BY <1>3, <2>1, <2>3, <3>1, <3>2 DEF JobOK, SaysPassed, Description
  <2> QED
    BY <1>1, <1>2, <1>3, <1>5, <2>1, <2>2, <2>3, <2>4, MinedKeeps DEF PubInv, PubTypeOK
<1> QED
  BY <1>2, <1>4, <1>5 DEF MineListing

-----------------------------------------------------------------------------
\* What others do on chain.
LEMMA OthersKeep ==
    ASSUME PubInv, Grows, UNCHANGED <<page, jobs, txs, passed>>, UNCHANGED nextId,
           adapters' \in [Identities -> Listings], known' \in [Identities -> BOOLEAN],
           described' \in [Identities -> Descriptions],
           \A i \in Identities : ~known'[i] => adapters'[i] = NoAdapter
    PROVE  PubInv'
<1>1. PubTypeOK'
  BY DEF PubInv, PubTypeOK
<1>2. \A i \in Jobs : JobOK(jobs[i])'
  BY JobKept
<1>3. ASSUME NEW k \in DOMAIN txs' PROVE TxOK(txs[k])'
  <2>1. PICK t \in Transactions : t = txs[k] /\ t = txs'[k]
    BY <1>1 DEF PubTypeOK
  <2>2. TxOK(t)
    BY <2>1 DEF PubInv
  <2>3. TxOK(t)'
    BY <2>2, TxKept
  <2> QED
    BY <2>1, <2>3 DEF TxOK
<1>4. OneTxEach' /\ \A preflight \in page'.preflight : SaysPassed(preflight)'
  BY DEF PubInv, OneTxEach, SaysPassed
<1> QED
  BY <1>1, <1>2, <1>3, <1>4 DEF PubInv

LEMMA MeddleKeeps ==
    ASSUME PubInv, Meddle
    PROVE  PubInv'
<1>1. /\ UNCHANGED <<page, jobs, txs, passed>>
      /\ adapters \in [Identities -> Listings] /\ known \in [Identities -> BOOLEAN]
      /\ described \in [Identities -> Descriptions]
      /\ \A i \in Identities : ~known[i] => adapters[i] = NoAdapter
      /\ \A i \in Identities : adapters[i].version \in Nat
  BY DEF Meddle, PubInv, PubTypeOK, Listings
<1>2. PICK caller \in Accounts, id \in Identities :
        \/ /\ \/ \E to \in Accounts : TransferFrom(caller, caller, to, id)
              \/ Deactivate(caller, id)
              \/ \E operator \in Accounts : SetOperator(caller, id, operator)
           /\ UNCHANGED described
        \/ \E v \in {adapters[id].version, adapters[id].version + 1}, signer \in Keys, price \in Prices :
              /\ RegisterAdapter(caller, id, [version |-> v, active |-> TRUE, payTo |-> caller,
                                              signer |-> signer, price |-> price], TRUE)
              /\ described' = [described EXCEPT ![id] = [Unlisted EXCEPT !.endpoint = CHOOSE e \in Endpoints : TRUE]]
  BY DEF Meddle
<1>3. CASE \/ \E to \in Accounts : TransferFrom(caller, caller, to, id) /\ UNCHANGED described
           \/ \E operator \in Accounts : SetOperator(caller, id, operator) /\ UNCHANGED described
  <2>1. UNCHANGED <<nextId, adapters, known, described>>
    BY <1>3 DEF TransferFrom, SetOperator, adapterVars, identityVars
  <2>2. Grows
    BY <1>1, <2>1 DEF Grows
  <2> QED
    BY <1>1, <2>1, <2>2, OthersKeep
<1>4. CASE Deactivate(caller, id) /\ UNCHANGED described
  <2>1. /\ known[id] /\ adapters' = [adapters EXCEPT ![id].active = FALSE]
        /\ UNCHANGED <<nextId, known>>
    BY <1>4 DEF Deactivate, identityVars
  <2>2. \A a \in Listings : /\ [a EXCEPT !.active = FALSE] \in Listings
                            /\ [a EXCEPT !.active = FALSE].version = a.version
    BY DEF Listings
  <2>3. /\ adapters' \in [Identities -> Listings]
        /\ adapters'[id] = [adapters[id] EXCEPT !.active = FALSE]
        /\ \A i \in Identities : i # id => adapters'[i] = adapters[i]
    BY <1>1, <2>1, <2>2
  <2>4. \A i \in Identities : /\ adapters'[i].version = adapters[i].version
                              /\ adapters'[i] \in {adapters[i], [adapters[i] EXCEPT !.active = FALSE]}
    BY <1>1, <2>2, <2>3
  <2>5. Grows
    BY <1>1, <1>4, <2>1, <2>4 DEF Grows
  <2>6. \A i \in Identities : ~known'[i] => adapters'[i] = NoAdapter
    BY <1>1, <2>1, <2>3
  <2> QED
    BY <1>1, <1>4, <2>1, <2>3, <2>5, <2>6, OthersKeep
<1>5. ASSUME NEW v \in {adapters[id].version, adapters[id].version + 1},
             NEW signer \in Keys, NEW price \in Prices,
             RegisterAdapter(caller, id, [version |-> v, active |-> TRUE, payTo |-> caller,
                                          signer |-> signer, price |-> price], TRUE),
             described' = [described EXCEPT ![id] = [Unlisted EXCEPT !.endpoint = CHOOSE e \in Endpoints : TRUE]]
      PROVE  PubInv'
  <2>1. PICK a \in Listings : a = [version |-> v, active |-> TRUE, payTo |-> caller,
                                   signer |-> signer, price |-> price]
    <3>1. /\ adapters[id].version \in Nat
          /\ v \in {adapters[id].version, adapters[id].version + 1}
          /\ signer \in Keys
          /\ price \in Prices
          /\ caller \in Accounts
      BY <1>1
    <3>2. v \in Nat
      BY <3>1
    <3>3. [version |-> v, active |-> TRUE, payTo |-> caller, signer |-> signer, price |-> price] \in Listings
      BY <3>1, <3>2 DEF Listings
    <3> QED
      BY <3>3
  <2>2. PICK e \in Endpoints : e = CHOOSE x \in Endpoints : TRUE
    <3>1. Endpoints # {}
      BY PublishingAssumption
    <3> QED
      BY <3>1
  <2>3. PICK d \in Descriptions : d = [Unlisted EXCEPT !.endpoint = CHOOSE x \in Endpoints : TRUE]
    <3>1. [Unlisted EXCEPT !.endpoint = e] \in Descriptions
      BY DEF Unlisted, Descriptions
    <3> QED
      BY <2>2, <3>1
  <2>4. RegisterAdapter(caller, id, a, TRUE) /\ described' = [described EXCEPT ![id] = d]
    BY <1>5, <2>1, <2>3
  <2> QED
    BY <1>1, <2>4, ListingGrows, OthersKeep
<1> QED
  BY <1>2, <1>3, <1>4, <1>5

LEMMA InitPubInv == PubInit => PubInv
<1> SUFFICES ASSUME PubInit PROVE PubInv
  OBVIOUS
<1>1. /\ nextId = 2 /\ adapters = [id \in Identities |-> NoAdapter]
      /\ known = [id \in Identities |-> FALSE]
      /\ described = [id \in Identities |-> Unlisted]
      /\ page = [phase |-> "form", preflight |-> {}, asked |-> {}]
      /\ jobs = [j \in Jobs |-> NoJob] /\ txs = <<>>
  BY DEF PubInit
<1>2. /\ adapters \in [Identities -> Listings] /\ described \in [Identities -> Descriptions]
      /\ known \in [Identities -> BOOLEAN] /\ jobs \in [Jobs -> JobStates]
  BY <1>1, NoAdapterTyped, NoJobTyped
<1>3. page \in PageStates /\ page.preflight = {}
  BY <1>1 DEF PageStates
<1>4. txs \in Seq(Transactions) /\ DOMAIN txs = {}
  BY <1>1
<1>5. PubTypeOK
  BY <1>1, <1>2, <1>3, <1>4 DEF PubTypeOK
<1>6. \A j \in Jobs : JobOK(jobs[j])
  BY <1>1, NoJobTyped DEF JobOK, SaysPassed, Description
<1> QED
  BY <1>1, <1>3, <1>4, <1>5, <1>6 DEF PubInv, OneTxEach

LEMMA NextPubInv == PubInv /\ [PubNext]_pubVars => PubInv'
<1> SUFFICES ASSUME PubInv, [PubNext]_pubVars PROVE PubInv'
  OBVIOUS
<1>1. CASE RunPreflight \/ PreflightDone
  BY <1>1, PreflightsKeep
<1>2. CASE \E j \in Jobs : ClickPublish(j) \/ StartCli(j)
  BY <1>2, BeginningKeeps
<1>3. CASE \E j \in Jobs : JobStep(j)
  BY <1>3, GateKeeps, IdentityStepsKeep, FailuresKeep, ConfirmKeeps, SendsKeep DEF JobStep
<1>4. CASE MineMint
  BY <1>4, MineMintKeeps
<1>5. CASE MineListing
  BY <1>5, MineListingKeeps
<1>6. CASE Meddle
  BY <1>6, MeddleKeeps
<1>7. CASE UNCHANGED pubVars
  <2>1. /\ UNCHANGED <<agentVars, described>> /\ UNCHANGED <<page, jobs, txs, passed>>
        /\ passed \subseteq passed' /\ UNCHANGED <<nextId, adapters, known>>
    BY <1>7 DEF pubVars, agentVars
  <2>2. Grows
    BY <2>1, UnchangedGrows
  <2> QED
    BY <2>1, <2>2, OthersKeep DEF PubInv, PubTypeOK
<1> QED
  BY <1>1, <1>2, <1>3, <1>4, <1>5, <1>6, <1>7 DEF PubNext

LEMMA PubInvariance == PubSpec => []PubInv
BY InitPubInv, NextPubInv, PTL DEF PubSpec

-----------------------------------------------------------------------------
\* Whoever publishes, hands over or deactivates meanwhile, and whatever is
\* mined late: a listing reported as published is on chain as entered, unless
\* it was replaced by a later version.
THEOREM ReportedListingsStand == PubSpec => []PublishedListingsAreKept
<1>1. PubInv => PublishedListingsAreKept
  <2> SUFFICES ASSUME PubInv, NEW j \in Jobs, jobs[j].pc = "published"
               PROVE  ListingKept(jobs[j]) /\ SaysPassed(Description(jobs[j]))
    BY DEF PublishedListingsAreKept, At, ListingKept, SaysPassed, Description
  <2> QED
    BY DEF PubInv, JobOK
<1> QED
  BY <1>1, PubInvariance, PTL

\* The publisher's transactions replace only the version they were made for,
\* for any number of publications: versions only grow, and registerAdapter
\* refuses one that is not above.
THEOREM ListingsAreSeenBeforeReplaced == PubSpec => NoListingIsLostUnseen
<1>1. ASSUME PubInv, [PubNext]_pubVars, txs # <<>>, txs' = Tail(txs), adapters' # adapters
      PROVE  adapters[NextTx.id].version = NextTx.listing.version - 1
  <2>1. MineListing
    <3>1. txs' # txs
      <4>1. txs \in Seq(Transactions)
        BY <1>1 DEF PubInv, PubTypeOK
      <4>2. Len(Tail(txs)) # Len(txs)
        BY <1>1, <4>1
      <4> QED
        BY <1>1, <4>2
    <3>2. ~MineMint /\ ~Meddle /\ ~UNCHANGED pubVars
      BY <1>1, <3>1 DEF MineMint, Register, adapterVars, Meddle, pubVars
    <3>3. ~(RunPreflight \/ PreflightDone)
      BY <1>1 DEF RunPreflight, PreflightDone, agentVars
    <3>4. \A j \in Jobs : ~(ClickPublish(j) \/ StartCli(j)) /\ ~JobStep(j)
      BY <1>1 DEF ClickPublish, StartCli, JobStep, Gate, UseIdentity, SendMint, RejectInWallet,
                  Minted, StoreSchema, ReadVersion, SendListing, Reverted, GiveUp, Confirm,
                  Elsewhere, agentVars
    <3> QED
      BY <1>1, <3>2, <3>3, <3>4 DEF PubNext
  <2>2. PICK tx \in Transactions : tx = NextTx
    BY <1>1, Waiters
  <2>3. TxOK(tx) /\ tx.kind = "list" /\ CanRegisterAdapter(Publisher, tx.id, tx.listing, TRUE)
    BY <1>1, <2>1, <2>2, Waiters DEF MineListing, RegisterAdapter, agentVars
  <2>4. /\ tx.id \in Identities /\ tx.listing.version >= 1
        /\ adapters[tx.id].version >= tx.listing.version - 1
        /\ known[tx.id] => tx.listing.version > adapters[tx.id].version
    BY <2>3 DEF TxOK, CanRegisterAdapter
  <2>5. adapters[tx.id].version \in Nat /\ tx.listing.version \in Nat
    BY <1>1, <2>4 DEF PubInv, PubTypeOK, Listings, Transactions
  <2>6. ~known[tx.id] => adapters[tx.id].version = 0
    BY <1>1, <2>4 DEF PubInv, NoAdapter
  <2>7. adapters[tx.id].version = tx.listing.version - 1
    BY <2>4, <2>5, <2>6
  <2> QED
    BY <2>2, <2>7
<1>2. PubInv /\ [PubNext]_pubVars
        => [txs # <<>> /\ txs' = Tail(txs) /\ adapters' # adapters
              => adapters[NextTx.id].version = NextTx.listing.version - 1]_pubVars
  BY <1>1
<1> QED
  BY <1>2, PubInvariance, PTL DEF PubSpec, NoListingIsLostUnseen
=============================================================================
