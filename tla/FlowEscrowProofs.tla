-------------------------- MODULE FlowEscrowProofs --------------------------
(***************************************************************************)
(* For every set of runs, steps, agents, keys, accounts and amounts:       *)
(* TypeOK, AllocationsAreBacked, MoneyIsConserved and PaymentsAreEarned    *)
(* are invariants of FlowEscrow, and every step of it is EarnedStaysPayable.*)
(*                                                                         *)
(* The invariant speaks of the current storage and, in the same words, of  *)
(* every storage a payment in progress may go back to: Sound(s, signed).   *)
(***************************************************************************)
EXTENDS FlowEscrow, SequenceTheorems, TLAPS

\* Backed, with a running total that is also monotone: Steps are consecutive
\* and amounts are not negative, but saying so spares an induction.
Total(f, sum) ==
    \E total \in [0 .. NumSteps -> 0 .. sum] :
        /\ RunsUpTo(total, f, sum)
        /\ \A i, j \in 0 .. NumSteps : i <= j => total[i] <= total[j]

\* One allocation changes: the others are promised the rest, and the new sum
\* is the rest plus the new amount.
LEMMA TotalUpdate ==
    ASSUME NEW f \in [Steps -> Nat], NEW sum \in Nat, Total(f, sum),
           NEW k \in Steps, NEW amount \in Nat
    PROVE  /\ sum - f[k] \in Nat
           /\ Total([f EXCEPT ![k] = amount], sum - f[k] + amount)
<1>1. PICK total \in [0 .. NumSteps -> 0 .. sum] :
         /\ RunsUpTo(total, f, sum)
         /\ \A i, j \in 0 .. NumSteps : i <= j => total[i] <= total[j]
  BY DEF Total
<1> DEFINE rest == sum - f[k]
           g == [f EXCEPT ![k] = amount]
           new == [j \in 0 .. NumSteps |->
                     IF j <= k THEN total[j] ELSE total[j] - f[k] + amount]
<1>2. /\ k \in 0 .. NumSteps /\ k + 1 \in 0 .. NumSteps /\ NumSteps \in 0 .. NumSteps
      /\ f[k] \in Nat
      /\ \A j \in 0 .. NumSteps : total[j] \in 0 .. sum
  BY NumStepsAssumption DEF Steps
<1>3. total[k + 1] = total[k] + f[k] /\ total[NumSteps] = sum /\ total[0] = 0
  BY <1>1 DEF RunsUpTo
<1>4. \A j \in 0 .. NumSteps : j <= k => total[j] <= total[k]
  BY <1>1, <1>2
<1>5. \A j \in 0 .. NumSteps : ~(j <= k) => total[k + 1] <= total[j]
  <2>1. ASSUME NEW j \in 0 .. NumSteps, ~(j <= k) PROVE k + 1 <= j
    BY <2>1, <1>2, NumStepsAssumption
  <2> QED
    BY <2>1, <1>1, <1>2
<1>6. rest \in Nat
  <2>1. total[k + 1] <= sum /\ total[k] >= 0
    BY <1>2, NumStepsAssumption
  <2> QED
    BY <2>1, <1>2, <1>3
<1>7. new \in [0 .. NumSteps -> 0 .. rest + amount]
  <2> SUFFICES ASSUME NEW j \in 0 .. NumSteps PROVE new[j] \in 0 .. rest + amount
    OBVIOUS
  <2>1. CASE j <= k
    <3>1. total[k] <= rest
      BY <1>1, <1>2, <1>3, NumStepsAssumption
    <3> QED
      BY <3>1, <2>1, <1>2, <1>4, <1>6
  <2>2. CASE ~(j <= k)
    <3>1. total[j] >= f[k]
      BY <2>2, <1>2, <1>3, <1>5
    <3> QED
      BY <3>1, <2>2, <1>2
  <2> QED
    BY <2>1, <2>2
<1>8. RunsUpTo(new, g, rest + amount)
  <2>1. new[0] = 0
    BY <1>2, <1>3, NumStepsAssumption DEF Steps
  <2>2. new[NumSteps] = rest + amount
    <3>1. ~(NumSteps <= k)
      BY NumStepsAssumption DEF Steps
    <3> QED
      BY <3>1, <1>2, <1>3
  <2>3. ASSUME NEW i \in Steps PROVE new[i + 1] = new[i] + g[i]
    <3>1. i \in 0 .. NumSteps /\ i + 1 \in 0 .. NumSteps /\ f[i] \in Nat
      BY NumStepsAssumption DEF Steps
    <3>2. total[i + 1] = total[i] + f[i]
      BY <1>1 DEF RunsUpTo
    <3>3. CASE i < k
      BY <3>1, <3>2, <3>3 DEF Steps
    <3>4. CASE i = k
      BY <3>1, <3>2, <3>4, <1>2 DEF Steps
    <3>5. CASE i > k
      <4>1. new[i] = total[i] - f[k] + amount /\ new[i + 1] = total[i + 1] - f[k] + amount
        BY <3>1, <3>5, <1>2
      <4>2. g[i] = f[i] /\ total[i] \in Int /\ total[i + 1] \in Int
        BY <3>1, <3>5, <1>2
      <4>3. f[i] \in Int /\ f[k] \in Int /\ amount \in Int
        BY <3>1, <1>2
      <4> HIDE DEF new, g
      <4> QED
        BY ONLY <3>2, <4>1, <4>2, <4>3
    <3> QED
      BY <3>3, <3>4, <3>5 DEF Steps
  <2> QED
    BY <2>1, <2>2, <2>3 DEF RunsUpTo
<1>9. ASSUME NEW i \in 0 .. NumSteps, NEW j \in 0 .. NumSteps, i <= j
      PROVE  new[i] <= new[j]
  <2>1. total[i] <= total[j]
    BY <1>1, <1>9
  <2>2. CASE j <= k
    BY <2>1, <2>2, <1>9, <1>2 DEF Steps
  <2>3. CASE i <= k /\ ~(j <= k)
    <3>1. total[i] <= total[k] /\ total[k] + f[k] <= total[j]
      BY <2>3, <1>3, <1>4, <1>5
    <3> QED
      BY <3>1, <2>3, <1>2
  <2>4. CASE ~(i <= k) /\ ~(j <= k)
    BY <2>1, <2>4, <1>2
  <2> QED
    BY <2>2, <2>3, <2>4, <1>9 DEF Steps
<1> QED
  BY <1>6, <1>7, <1>8, <1>9 DEF Total

-----------------------------------------------------------------------------
\* A run's record is sound: well typed, backed and conserved.
RunSound(e) ==
    /\ e \in Fundings
    /\ ~e.closed => Total(e.allocation, e.allocated)
    /\ e.allocated <= e.balance
    /\ e.closed => e.balance = 0
    /\ Conserved(e)

LEMMA SoundIsBacked ==
    ASSUME NEW e, RunSound(e)
    PROVE  Backed(e)
BY DEF RunSound, Backed, Total

LEMMA ZeroTotal == Total([i \in Steps |-> 0], 0)
<1> DEFINE total == [j \in 0 .. NumSteps |-> 0]
<1>1. total \in [0 .. NumSteps -> 0 .. 0]
  OBVIOUS
<1>2. /\ 0 \in 0 .. NumSteps /\ NumSteps \in 0 .. NumSteps
      /\ \A i \in Steps : i \in 0 .. NumSteps /\ i + 1 \in 0 .. NumSteps
  BY NumStepsAssumption DEF Steps
<1>3. RunsUpTo(total, [i \in Steps |-> 0], 0)
  BY <1>2 DEF RunsUpTo
<1>4. \A i, j \in 0 .. NumSteps : i <= j => total[i] <= total[j]
  OBVIOUS
<1> HIDE DEF total
<1> QED
  BY <1>1, <1>3, <1>4 DEF Total

LEMMA NotFundedSound == RunSound(NotFunded)
<1>1. NotFunded \in Fundings
  BY DEF NotFunded, Fundings
<1> QED
  BY <1>1, ZeroTotal DEF RunSound, NotFunded, Conserved

\* Each effect on a run's record keeps it sound.
LEMMA FundSound ==
    ASSUME NEW funder \in Accounts, NEW amount \in Nat, NEW deadline \in Nat
    PROVE  RunSound([NotFunded EXCEPT !.funder = funder, !.balance = amount,
                        !.deadline = deadline, !.exists = TRUE, !.paidIn = amount])
<1> DEFINE e1 == [NotFunded EXCEPT !.funder = funder, !.balance = amount,
                    !.deadline = deadline, !.exists = TRUE, !.paidIn = amount]
<1>1. e1 \in Fundings
  BY DEF NotFunded, Fundings
<1>2. /\ e1.allocation = [i \in Steps |-> 0] /\ e1.allocated = 0 /\ e1.balance = amount
      /\ ~e1.closed /\ e1.paidIn = amount /\ e1.paidOut = 0 /\ e1.refunded = 0
      /\ e1.payouts = [i \in Steps |-> 0] /\ e1.released = [i \in Steps |-> FALSE]
  BY DEF NotFunded
<1> QED
  BY <1>1, <1>2, ZeroTotal DEF RunSound, Conserved

LEMMA TopUpSound ==
    ASSUME NEW e, RunSound(e), ~e.closed, NEW amount \in Nat
    PROVE  RunSound([e EXCEPT !.balance = @ + amount, !.paidIn = @ + amount])
<1> DEFINE e1 == [e EXCEPT !.balance = @ + amount, !.paidIn = @ + amount]
<1>1. /\ e \in Fundings /\ e.balance \in Nat /\ e.allocated \in Nat /\ e.paidIn \in Nat
      /\ e.paidOut \in Nat /\ e.refunded \in Nat
      /\ e.balance + amount \in Nat /\ e.paidIn + amount \in Nat
  BY DEF RunSound, Fundings
<1>2. /\ e1.allocation = e.allocation /\ e1.allocated = e.allocated
      /\ e1.balance = e.balance + amount /\ e1.paidIn = e.paidIn + amount
      /\ e1.closed = e.closed /\ e1.paidOut = e.paidOut /\ e1.refunded = e.refunded
      /\ e1.payouts = e.payouts /\ e1.released = e.released
  BY <1>1 DEF Fundings
<1>3. e1 \in Fundings
  BY <1>1 DEF Fundings
<1> QED
  BY <1>1, <1>2, <1>3 DEF RunSound, Conserved

LEMMA AllocateSound ==
    ASSUME NEW e, RunSound(e), ~e.closed, NEW i \in Steps, NEW amount \in Nat,
           Committed(e, i) + amount <= e.balance
    PROVE  RunSound([e EXCEPT !.allocated = Committed(e, i) + amount, !.allocation[i] = amount])
<1> DEFINE e1 == [e EXCEPT !.allocated = Committed(e, i) + amount, !.allocation[i] = amount]
<1>1. e.allocation \in [Steps -> Nat] /\ e.allocated \in Nat /\ Total(e.allocation, e.allocated)
  BY DEF RunSound, Fundings
<1>2. /\ Committed(e, i) \in Nat
      /\ Total([e.allocation EXCEPT ![i] = amount], Committed(e, i) + amount)
  BY <1>1, TotalUpdate DEF Committed
<1>3. /\ e1.allocated = Committed(e, i) + amount
      /\ e1.allocation = [e.allocation EXCEPT ![i] = amount]
      /\ e1.balance = e.balance /\ e1.closed = e.closed
      /\ e1.paidIn = e.paidIn /\ e1.paidOut = e.paidOut /\ e1.refunded = e.refunded
      /\ e1.payouts = e.payouts /\ e1.released = e.released
  BY DEF RunSound, Fundings
<1>4. e1 \in Fundings
  <2>1. e \in Fundings
    BY DEF RunSound
  <2>2. /\ Committed(e, i) + amount \in Nat
        /\ [e.allocation EXCEPT ![i] = amount] \in [Steps -> Nat]
    BY <1>1, <1>2
  <2> QED
    BY <2>1, <2>2 DEF Fundings
<1> QED
  BY <1>2, <1>3, <1>4 DEF RunSound, Conserved

LEMMA PaidSound ==
    ASSUME NEW e, RunSound(e), ~e.closed, NEW i \in Steps, ~e.released[i]
    PROVE  RunSound(Paid(e, i))
<1> DEFINE e1 == Paid(e, i)
           amount == e.allocation[i]
<1>1. /\ e \in Fundings /\ e.allocation \in [Steps -> Nat] /\ e.allocated \in Nat
      /\ e.balance \in Nat /\ e.paidOut \in Nat /\ e.payouts \in [Steps -> Nat]
      /\ e.released \in [Steps -> BOOLEAN]
      /\ Total(e.allocation, e.allocated) /\ amount \in Nat
  BY DEF RunSound, Fundings
<1>2. /\ e.allocated - amount \in Nat
      /\ Total([e.allocation EXCEPT ![i] = 0], e.allocated - amount)
  <2>1. /\ e.allocated - amount \in Nat
        /\ Total([e.allocation EXCEPT ![i] = 0], e.allocated - amount + 0)
    BY <1>1, TotalUpdate
  <2> QED
    BY <2>1
<1>3. e.balance - amount \in Nat /\ e.allocated - amount <= e.balance - amount
  BY <1>1, <1>2 DEF RunSound
<1>4. /\ e1.allocation = [e.allocation EXCEPT ![i] = 0]
      /\ e1.allocated = e.allocated - amount /\ e1.balance = e.balance - amount
      /\ e1.closed = e.closed /\ e1.paidIn = e.paidIn /\ e1.refunded = e.refunded
      /\ e1.paidOut = e.paidOut + amount
      /\ e1.payouts = [e.payouts EXCEPT ![i] = @ + 1]
      /\ e1.released = [e.released EXCEPT ![i] = TRUE]
  BY <1>1 DEF Paid, Fundings
<1>5. e1 \in Fundings
  <2>1. /\ e.paidOut + amount \in Nat
        /\ [e.allocation EXCEPT ![i] = 0] \in [Steps -> Nat]
        /\ [e.payouts EXCEPT ![i] = @ + 1] \in [Steps -> Nat]
        /\ [e.released EXCEPT ![i] = TRUE] \in [Steps -> BOOLEAN]
    BY <1>1
  <2>2. e.allocated - amount \in Nat /\ e.balance - amount \in Nat
    BY <1>2, <1>3
  <2> QED
    BY <1>1, <2>1, <2>2 DEF Paid, Fundings
<1>6. Conserved(e1)
  BY <1>1, <1>4 DEF Conserved, RunSound, Fundings
<1> QED
  BY <1>2, <1>3, <1>4, <1>5, <1>6 DEF RunSound

LEMMA SweptSound ==
    ASSUME NEW e, RunSound(e), ~e.closed
    PROVE  RunSound(Swept(e))
<1> DEFINE e1 == Swept(e)
<1>1. /\ e \in Fundings /\ e.balance \in Nat /\ e.allocated \in Nat /\ e.refunded \in Nat
      /\ e.paidIn \in Nat /\ e.paidOut \in Nat /\ e.allocated <= e.balance
  BY DEF RunSound, Fundings
<1>2. /\ e.balance - Unspent(e) = e.allocated
      /\ e.refunded + Unspent(e) \in Nat
  BY <1>1 DEF Unspent
<1>3. /\ e1.allocation = e.allocation /\ e1.allocated = e.allocated
      /\ e1.balance = e.allocated /\ e1.refunded = e.refunded + Unspent(e)
      /\ e1.closed = e.closed /\ e1.paidIn = e.paidIn /\ e1.paidOut = e.paidOut
      /\ e1.payouts = e.payouts /\ e1.released = e.released
  BY <1>1, <1>2 DEF Swept, Fundings
<1>4. e1 \in Fundings
  BY <1>1, <1>2 DEF Swept, Fundings
<1>5. Conserved(e1)
  BY <1>1, <1>3 DEF Unspent, Conserved, RunSound
<1> QED
  BY <1>1, <1>3, <1>4, <1>5 DEF RunSound

LEMMA ExpiredSound ==
    ASSUME NEW e, RunSound(e)
    PROVE  RunSound(Expired(e))
<1> DEFINE e1 == Expired(e)
<1>1. /\ e \in Fundings /\ e.balance \in Nat /\ e.refunded \in Nat
      /\ e.paidIn \in Nat /\ e.paidOut \in Nat /\ e.refunded + e.balance \in Nat
  BY DEF RunSound, Fundings
<1>2. /\ e1.allocated = 0 /\ e1.balance = 0 /\ e1.refunded = e.refunded + e.balance
      /\ e1.closed /\ e1.paidIn = e.paidIn /\ e1.paidOut = e.paidOut
      /\ e1.payouts = e.payouts /\ e1.released = e.released
  BY <1>1 DEF Expired, Fundings
<1>3. e1 \in Fundings
  BY <1>1 DEF Expired, Fundings
<1> QED
  BY <1>1, <1>2, <1>3 DEF RunSound, Conserved

-----------------------------------------------------------------------------
\* A storage is sound when every run in it is and every release was earned.
Sound(s, claims) ==
    /\ s \in Storages
    /\ \A r \in Runs : RunSound(s.escrow[r])
    /\ Earned(s.escrow, s.receiptOf, claims)

FramesSound(frames, claims) ==
    /\ frames \in Seq(Storages)
    /\ \A k \in 1 .. Len(frames) : Sound(frames[k], claims)

IInv ==
    /\ Sound(Storage, signed)
    /\ FramesSound(stack, signed)
    /\ now \in Nat
    /\ signed \subseteq [key : Keys, claim : Claims]

LEMMA StorageFields ==
    /\ Storage.executorOf = executorOf /\ Storage.receiptOf = receiptOf
    /\ Storage.sealed = sealed /\ Storage.listing = listing /\ Storage.escrow = escrow
BY DEF Storage

LEMMA StorageTyped ==
    (Storage \in Storages) <=> /\ Ledger!LedgerTypeOK
                               /\ Directory!DirectoryTypeOK
                               /\ escrow \in [Runs -> Fundings]
BY DEF Storage, Storages, Ledger!LedgerTypeOK, Directory!DirectoryTypeOK, Ledger!Steps, Steps

LEMMA StorageTypedNext ==
    Ledger!LedgerTypeOK' /\ Directory!DirectoryTypeOK' /\ escrow' \in [Runs -> Fundings]
        => Storage' \in Storages
BY DEF Storage, Storages, Ledger!LedgerTypeOK, Directory!DirectoryTypeOK, Ledger!Steps, Steps

LEMMA IInvImplies ==
    IInv => TypeOK /\ AllocationsAreBacked /\ MoneyIsConserved /\ PaymentsAreEarned
<1> SUFFICES ASSUME IInv
             PROVE  TypeOK /\ AllocationsAreBacked /\ MoneyIsConserved /\ PaymentsAreEarned
  OBVIOUS
<1>1. TypeOK
  BY StorageTyped DEF IInv, Sound, FramesSound, TypeOK
<1>2. \A r \in Runs : RunSound(escrow[r])
  BY StorageFields DEF IInv, Sound
<1>3. AllocationsAreBacked
  BY <1>2, SoundIsBacked DEF AllocationsAreBacked
<1>4. MoneyIsConserved
  BY <1>2 DEF MoneyIsConserved, RunSound
<1>5. PaymentsAreEarned
  BY StorageFields DEF IInv, Sound, PaymentsAreEarned
<1> QED
  BY <1>1, <1>3, <1>4, <1>5

LEMMA InitIInv == Init => IInv
<1> SUFFICES ASSUME Init PROVE IInv
  OBVIOUS
<1>1. Ledger!LedgerTypeOK
  BY DEF Init, Ledger!LedgerInit, Ledger!LedgerTypeOK, Ledger!Receipts, Ledger!NoReceipt
<1>2. Directory!DirectoryTypeOK
  BY DEF Init, Directory!DirectoryInit, Directory!DirectoryTypeOK, Directory!Unlisted
<1>3. \A r \in Runs : escrow[r] = NotFunded
  BY DEF Init
<1>4. escrow \in [Runs -> Fundings]
  BY NotFundedSound DEF Init, RunSound
<1>5. Storage \in Storages
  BY <1>1, <1>2, <1>4, StorageTyped
<1>6. \A r \in Runs : RunSound(escrow[r])
  BY <1>3, NotFundedSound
<1>7. Earned(escrow, receiptOf, signed)
  BY <1>3 DEF Earned, NotFunded
<1>8. FramesSound(stack, signed)
  BY DEF Init, FramesSound
<1> QED
  BY <1>5, <1>6, <1>7, <1>8, StorageFields DEF Init, IInv, Sound

-----------------------------------------------------------------------------
\* Opening and closing a frame, and one more signed claim.
LEMMA Push ==
    ASSUME NEW frames, NEW s, NEW claims, FramesSound(frames, claims), Sound(s, claims)
    PROVE  FramesSound(Append(frames, s), claims)
BY DEF FramesSound, Sound

LEMMA Pop ==
    ASSUME NEW frames, NEW claims, FramesSound(frames, claims), frames # <<>>
    PROVE  /\ Sound(frames[Len(frames)], claims)
           /\ FramesSound(SubSeq(frames, 1, Len(frames) - 1), claims)
<1> DEFINE rest == SubSeq(frames, 1, Len(frames) - 1)
<1>1. frames \in Seq(Storages) /\ Len(frames) \in Nat /\ Len(frames) > 0
  BY DEF FramesSound
<1>2. \A k \in 1 .. Len(frames) - 1 : frames[k] \in Storages
  BY <1>1 DEF FramesSound, Sound
<1>3. /\ rest \in Seq(Storages)
      /\ Len(rest) = IF 1 <= Len(frames) - 1 THEN Len(frames) - 1 - 1 + 1 ELSE 0
      /\ \A k \in 1 .. Len(frames) - 1 - 1 + 1 : rest[k] = frames[1 + k - 1]
  BY <1>1, <1>2, SubSeqProperties
<1>4. \A k \in 1 .. Len(rest) : k \in 1 .. Len(frames) /\ rest[k] = frames[k]
  BY <1>1, <1>3
<1>5. Sound(frames[Len(frames)], claims)
  BY <1>1 DEF FramesSound
<1> HIDE DEF rest
<1>6. FramesSound(rest, claims)
  BY <1>3, <1>4 DEF FramesSound
<1> QED
  BY <1>5, <1>6 DEF rest

LEMMA MoreClaims ==
    ASSUME NEW s, NEW claims, NEW more, claims \subseteq more, Sound(s, claims)
    PROVE  Sound(s, more)
BY DEF Sound, Earned

\* A transaction rewrites the record of one run, possibly opening a frame: it
\* is enough that the new record is sound and its releases are earned.
LEMMA RunRewritten ==
    ASSUME IInv, NEW r \in Runs, NEW e1, RunSound(e1),
           \A i \in Steps : e1.released[i] =>
               escrow[r].released[i] \/ ClaimHolds(r, i),
           escrow' = [escrow EXCEPT ![r] = e1],
           UNCHANGED <<ledgerVars, listing, now, signed>>,
           stack' = stack \/ stack' = Append(stack, Storage)
    PROVE  IInv'
<1>1. /\ Ledger!LedgerTypeOK /\ Directory!DirectoryTypeOK /\ escrow \in [Runs -> Fundings]
      /\ \A q \in Runs : RunSound(escrow[q])
      /\ Earned(escrow, receiptOf, signed)
      /\ FramesSound(stack, signed)
  BY StorageTyped, StorageFields DEF IInv, Sound
<1>2. e1 \in Fundings
  BY DEF RunSound
<1>3. escrow' \in [Runs -> Fundings]
  BY <1>1, <1>2
<1>4. Ledger!LedgerTypeOK' /\ Directory!DirectoryTypeOK'
  BY <1>1 DEF ledgerVars, Ledger!LedgerTypeOK, Directory!DirectoryTypeOK
<1>5. Storage' \in Storages
  BY <1>3, <1>4, StorageTypedNext
<1>6. \A q \in Runs : RunSound(escrow'[q])
  BY <1>1
<1>7. Earned(escrow', receiptOf', signed')
  <2>1. SUFFICES ASSUME NEW q \in Runs, NEW i \in Steps, escrow'[q].released[i]
                 PROVE  /\ receiptOf[q][i].anchored /\ receiptOf[q][i].status = StatusOk
                        /\ \E key \in Keys :
                             [key |-> key,
                              claim |-> Claim(q, i, receiptOf[q][i].agent, receiptOf[q][i].work)]
                                 \in signed
    BY DEF Earned, ledgerVars
  <2>2. CASE escrow[q].released[i]
    BY <2>2, <1>1 DEF Earned
  <2>3. CASE ~escrow[q].released[i]
    <3>1. q = r /\ ClaimHolds(r, i)
      BY <2>1, <2>3, <1>1
    <3>2. /\ receiptOf[r][i].anchored /\ receiptOf[r][i].status = StatusOk
          /\ listing[receiptOf[r][i].agent].signer # Zero
          /\ [key |-> listing[receiptOf[r][i].agent].signer,
              claim |-> Claim(r, i, receiptOf[r][i].agent, receiptOf[r][i].work)] \in signed
      BY <3>1 DEF ClaimHolds
    <3>3. listing[receiptOf[r][i].agent].signer \in Keys
      BY <3>2 DEF IInv
    <3> QED
      BY <3>1, <3>2, <3>3
  <2> QED
    BY <2>2, <2>3
<1>8. Sound(Storage', signed')
  BY <1>5, <1>6, <1>7 DEF Sound, Storage
<1>9. FramesSound(stack', signed')
  <2>1. Sound(Storage, signed) /\ signed' = signed
    BY DEF IInv
  <2> QED
    BY <1>1, <2>1, Push
<1> QED
  BY <1>8, <1>9 DEF IInv

-----------------------------------------------------------------------------
\* Every step keeps the invariant.  One step per function of the escrow.
LEMMA EscrowStep ==
    ASSUME IInv, NEW caller \in Accounts, EscrowCall(caller),
           UNCHANGED <<ledgerVars, listing, now, signed>>
    PROVE  IInv'
<1>1. /\ escrow \in [Runs -> Fundings]
      /\ \A r \in Runs : RunSound(escrow[r])
  BY StorageTyped, StorageFields DEF IInv, Sound
<1>2. ASSUME NEW r \in Runs, NEW amount \in Amounts \cup {0}, NEW deadline \in 0 .. MaxTime,
             FundRun(caller, r, amount, deadline)
      PROVE  IInv'
  <2> DEFINE e1 == [NotFunded EXCEPT !.funder = caller, !.balance = amount,
                      !.deadline = deadline, !.exists = TRUE, !.paidIn = amount]
  <2>1. RunSound(e1)
    <3>1. amount \in Nat /\ deadline \in Nat
      BY EscrowBounds
    <3> HIDE DEF e1
    <3> QED
      BY <3>1, FundSound DEF e1
  <2>2. \A i \in Steps : ~e1.released[i]
    BY DEF NotFunded
  <2>3. escrow' = [escrow EXCEPT ![r] = e1] /\ stack' = stack
    BY <1>2 DEF FundRun
  <2> QED
    BY <2>1, <2>2, <2>3, RunRewritten
<1>3. ASSUME NEW r \in Runs, NEW amount \in Amounts, TopUp(r, amount)
      PROVE  IInv'
  <2> DEFINE e1 == [escrow[r] EXCEPT !.balance = @ + amount, !.paidIn = @ + amount]
  <2>1. RunSound(e1)
    BY <1>1, <1>3, EscrowBounds, TopUpSound DEF TopUp, IsOpen
  <2>2. e1.released = escrow[r].released
    BY <1>1 DEF Fundings
  <2>3. escrow' = [escrow EXCEPT ![r] = e1] /\ stack' = stack
    BY <1>3 DEF TopUp
  <2> QED
    BY <2>1, <2>2, <2>3, RunRewritten
<1>4. ASSUME NEW r \in Runs, NEW i \in Steps, NEW amount \in Amounts \cup {0},
             Allocate(caller, r, i, amount)
      PROVE  IInv'
  <2> DEFINE e == escrow[r]
             e1 == [e EXCEPT !.allocated = Committed(e, i) + amount, !.allocation[i] = amount]
  <2>1. RunSound(e1)
    BY <1>1, <1>4, EscrowBounds, AllocateSound DEF Allocate, IsOpen
  <2>2. e1.released = e.released
    BY <1>1 DEF Fundings
  <2>3. escrow' = [escrow EXCEPT ![r] = e1] /\ stack' = stack
    BY <1>4 DEF Allocate
  <2> QED
    BY <2>1, <2>2, <2>3, RunRewritten
<1>5. ASSUME NEW r \in Runs, NEW i \in Steps, ReleaseStep(r, i)
      PROVE  IInv'
  <2>1. RunSound(Paid(escrow[r], i))
    BY <1>1, <1>5, PaidSound DEF ReleaseStep, IsOpen
  <2>2. \A j \in Steps : Paid(escrow[r], i).released[j] => escrow[r].released[j] \/ j = i
    BY <1>1 DEF Paid, Fundings
  <2>3. ClaimHolds(r, i)
    BY <1>5 DEF ReleaseStep
  <2>4. /\ escrow' = [escrow EXCEPT ![r] = Paid(escrow[r], i)]
        /\ stack' = stack \/ stack' = Append(stack, Storage)
    BY <1>5 DEF ReleaseStep, PayAfter
  <2> QED
    BY <2>1, <2>2, <2>3, <2>4, RunRewritten
<1>6. ASSUME NEW r \in Runs, RefundUnspent(r)
      PROVE  IInv'
  <2>1. RunSound(Swept(escrow[r]))
    BY <1>1, <1>6, SweptSound DEF RefundUnspent, IsOpen
  <2>2. Swept(escrow[r]).released = escrow[r].released
    BY <1>1 DEF Swept, Fundings
  <2>3. /\ escrow' = [escrow EXCEPT ![r] = Swept(escrow[r])]
        /\ stack' = stack \/ stack' = Append(stack, Storage)
    BY <1>6 DEF RefundUnspent, PayAfter
  <2> QED
    BY <2>1, <2>2, <2>3, RunRewritten
<1>7. ASSUME NEW r \in Runs, RefundExpired(caller, r)
      PROVE  IInv'
  <2>1. RunSound(Expired(escrow[r]))
    BY <1>1, ExpiredSound
  <2>2. Expired(escrow[r]).released = escrow[r].released
    BY <1>1 DEF Expired, Fundings
  <2>3. /\ escrow' = [escrow EXCEPT ![r] = Expired(escrow[r])]
        /\ stack' = stack \/ stack' = Append(stack, Storage)
    BY <1>7 DEF RefundExpired, PayAfter
  <2> QED
    BY <2>1, <2>2, <2>3, RunRewritten
<1> QED
  BY <1>2, <1>3, <1>4, <1>5, <1>6, <1>7 DEF EscrowCall

\* The receipts contract only adds: a receipt a release was paid for stays.
LEMMA LedgerStep ==
    ASSUME IInv, NEW caller \in Accounts, Ledger!LedgerCall(caller),
           UNCHANGED <<listing, escrow, stack, now, signed>>
    PROVE  IInv'
<1>1. /\ Ledger!LedgerTypeOK /\ Directory!DirectoryTypeOK /\ escrow \in [Runs -> Fundings]
      /\ \A q \in Runs : RunSound(escrow[q])
      /\ Earned(escrow, receiptOf, signed)
  BY StorageTyped, StorageFields DEF IInv, Sound
<1> DEFINE ReceiptsStay ==
             \A q \in Runs, j \in Steps :
                 receiptOf[q][j].anchored => receiptOf'[q][j] = receiptOf[q][j]
<1>2. Ledger!LedgerTypeOK' /\ ReceiptsStay
  <2>1. ASSUME NEW r \in Runs, NEW executor \in Accounts, Ledger!Start(r, executor)
        PROVE  Ledger!LedgerTypeOK' /\ ReceiptsStay
    BY <1>1, <2>1 DEF Ledger!Start, Ledger!LedgerTypeOK
  <2>2. ASSUME NEW r \in Runs, NEW i \in Ledger!Steps, NEW status \in Statuses,
               NEW agent \in AgentIds, NEW work \in Works,
               Ledger!Anchor(caller, r, i, status, agent, work)
        PROVE  Ledger!LedgerTypeOK' /\ ReceiptsStay
    BY <1>1, <2>2 DEF Ledger!Anchor, Ledger!LedgerTypeOK, Ledger!Receipts, Ledger!Receipt,
                      Ledger!Steps, Steps
  <2>3. ASSUME NEW r \in Runs, Ledger!Seal(caller, r)
        PROVE  Ledger!LedgerTypeOK' /\ ReceiptsStay
    BY <1>1, <2>3 DEF Ledger!Seal, Ledger!LedgerTypeOK
  <2> QED
    BY <2>1, <2>2, <2>3 DEF Ledger!LedgerCall
<1>3. Directory!DirectoryTypeOK'
  BY <1>1 DEF Directory!DirectoryTypeOK
<1>4. Storage' \in Storages
  BY <1>1, <1>2, <1>3, StorageTypedNext
<1>5. Earned(escrow', receiptOf', signed')
  BY <1>1, <1>2 DEF Earned
<1>6. Sound(Storage', signed')
  BY <1>1, <1>4, <1>5 DEF Sound, Storage
<1> QED
  BY <1>6 DEF IInv

LEMMA DirectoryStep ==
    ASSUME IInv, Directory!DirectoryNext,
           UNCHANGED <<ledgerVars, escrow, stack, now, signed>>
    PROVE  IInv'
<1>1. /\ Ledger!LedgerTypeOK /\ Directory!DirectoryTypeOK /\ escrow \in [Runs -> Fundings]
      /\ \A q \in Runs : RunSound(escrow[q])
      /\ Earned(escrow, receiptOf, signed)
  BY StorageTyped, StorageFields DEF IInv, Sound
<1>2. Directory!DirectoryTypeOK'
  BY <1>1 DEF Directory!DirectoryNext, Directory!List, Directory!DirectoryTypeOK
<1>3. Ledger!LedgerTypeOK'
  BY <1>1 DEF ledgerVars, Ledger!LedgerTypeOK
<1>4. Storage' \in Storages
  BY <1>1, <1>2, <1>3, StorageTypedNext
<1>5. Sound(Storage', signed')
  BY <1>1, <1>4 DEF Sound, Storage, ledgerVars
<1> QED
  BY <1>5 DEF IInv

LEMMA PaymentStep ==
    ASSUME IInv, PaymentReturns \/ PaymentFails
    PROVE  IInv'
<1>1. CASE PaymentReturns
  <2>1. FramesSound(stack', signed)
    BY <1>1, Pop DEF PaymentReturns, IInv
  <2>2. Storage' = Storage
    BY <1>1 DEF PaymentReturns, Storage, ledgerVars
  <2> QED
    BY <1>1, <2>1, <2>2 DEF PaymentReturns, IInv
<1>2. CASE PaymentFails
  <2> DEFINE s == stack[Len(stack)]
  <2>1. Sound(s, signed) /\ FramesSound(stack', signed)
    BY <1>2, Pop DEF PaymentFails, IInv
  <2>2. Storage' = s
    BY <1>2, <2>1 DEF PaymentFails, Restore, Storage, Sound, Storages
  <2> QED
    BY <1>2, <2>1, <2>2 DEF PaymentFails, IInv
<1> QED
  BY <1>1, <1>2

LEMMA SignStep ==
    ASSUME IInv, NEW key \in Keys, NEW claim \in Claims, Sign(key, claim)
    PROVE  IInv'
<1>1. Storage' = Storage
  BY DEF Sign, Storage, ledgerVars
<1>2. signed \subseteq signed' /\ signed' \subseteq [key : Keys, claim : Claims]
  BY DEF Sign, IInv
<1>3. Sound(Storage', signed')
  BY <1>1, <1>2, MoreClaims DEF IInv
<1>4. FramesSound(stack', signed')
  BY <1>2, MoreClaims DEF IInv, Sign, FramesSound
<1> QED
  BY <1>2, <1>3, <1>4 DEF IInv, Sign

LEMMA NextIInv == IInv /\ [Next]_vars => IInv'
<1> SUFFICES ASSUME IInv, [Next]_vars PROVE IInv'
  OBVIOUS
<1>1. ASSUME NEW caller \in Accounts, EscrowCall(caller),
             UNCHANGED <<ledgerVars, listing, now, signed>>
      PROVE  IInv'
  BY <1>1, EscrowStep
<1>2. ASSUME NEW caller \in Accounts, Ledger!LedgerCall(caller),
             UNCHANGED <<listing, escrow, stack, now, signed>>
      PROVE  IInv'
  BY <1>2, LedgerStep
<1>3. ASSUME Directory!DirectoryNext, UNCHANGED <<ledgerVars, escrow, stack, now, signed>>
      PROVE  IInv'
  BY <1>3, DirectoryStep
<1>4. ASSUME PaymentReturns \/ PaymentFails PROVE IInv'
  BY <1>4, PaymentStep
<1>5. ASSUME NEW key \in Keys, NEW claim \in Claims, Sign(key, claim) PROVE IInv'
  BY <1>5, SignStep
<1>6. CASE Tick
  <2>1. Storage' = Storage /\ stack' = stack /\ signed' = signed /\ now' \in Nat
    BY <1>6 DEF Tick, Storage, ledgerVars, IInv
  <2> QED
    BY <2>1 DEF IInv
<1>7. CASE UNCHANGED vars
  <2>1. Storage' = Storage /\ stack' = stack /\ signed' = signed /\ now' = now
    BY <1>7 DEF vars, Storage
  <2> QED
    BY <2>1 DEF IInv
<1> QED
  BY <1>1, <1>2, <1>3, <1>4, <1>5, <1>6, <1>7 DEF Next

LEMMA Invariance == Spec => []IInv
BY InitIInv, NextIInv, PTL DEF Spec

\* In every reachable state, between transactions and in the middle of any
\* nesting of payments, the escrow's storage and all it may roll back to are
\* well typed.
THEOREM EscrowTypeOK == Spec => []TypeOK
BY Invariance, IInvImplies, PTL

\* The allocations of an open run add up to `allocated` and the balance covers
\* them, for any number of runs and steps and any amounts.
THEOREM EscrowBacked == Spec => []AllocationsAreBacked
BY Invariance, IInvImplies, PTL

\* Money in is money held, paid or returned; no step is paid twice, however
\* payees re-enter the escrow and whichever payments fail.
THEOREM EscrowConserved == Spec => []MoneyIsConserved
BY Invariance, IInvImplies, PTL

\* Every paid step was anchored ok and its claim signed by a listed key.
THEOREM EscrowEarned == Spec => []PaymentsAreEarned
BY Invariance, IInvImplies, PTL

-----------------------------------------------------------------------------
\* How an agent may lose the right to be paid for a step.
LosesRight(r, i) ==
    \/ escrow'[r].payouts[i] = 1
    \/ listing'[receiptOf[r][i].agent] # listing[receiptOf[r][i].agent]
    \/ Allocate(executorOf[r], r, i, 0)
    \/ escrow'[r].closed /\ now >= escrow[r].deadline
    \/ PaymentFails

\* The right rests on the run's record, the receipt, the listing and what was
\* signed; a step that keeps the last three takes it away only in the record.
LEMMA RightInRecord ==
    ASSUME NEW r \in Runs, NEW i \in Steps, Payable(r, i), ~Payable(r, i)',
           receiptOf'[r][i] = receiptOf[r][i],
           listing'[receiptOf[r][i].agent] = listing[receiptOf[r][i].agent],
           signed \subseteq signed'
    PROVE  \/ escrow'[r].closed \/ ~escrow'[r].exists
           \/ escrow'[r].released[i] \/ escrow'[r].allocation[i] = 0
BY DEF Payable, IsOpen, ClaimHolds, Claim

LEMMA EscrowTakesRight ==
    ASSUME IInv, NEW caller \in Accounts, EscrowCall(caller),
           UNCHANGED <<ledgerVars, listing, now, signed>>,
           NEW r \in Runs, NEW i \in Steps, Payable(r, i), ~Payable(r, i)'
    PROVE  LosesRight(r, i)
<1>1. /\ escrow \in [Runs -> Fundings] /\ RunSound(escrow[r])
      /\ escrow[r].exists /\ ~escrow[r].closed /\ ~escrow[r].released[i] /\ escrow[r].allocation[i] # 0
  BY StorageTyped, StorageFields DEF IInv, Sound, Payable, IsOpen
<1>2. \/ escrow'[r].closed \/ ~escrow'[r].exists
      \/ escrow'[r].released[i] \/ escrow'[r].allocation[i] = 0
  BY RightInRecord DEF ledgerVars
<1>3. ASSUME escrow'[r] = escrow[r] PROVE FALSE
  BY <1>1, <1>2, <1>3
<1>4. ASSUME NEW q \in Runs, NEW amount \in Amounts \cup {0}, NEW deadline \in 0 .. MaxTime,
             FundRun(caller, q, amount, deadline)
      PROVE  LosesRight(r, i)
  BY <1>1, <1>3, <1>4 DEF FundRun
<1>5. ASSUME NEW q \in Runs, NEW amount \in Amounts, TopUp(q, amount)
      PROVE  LosesRight(r, i)
  <2>1. /\ escrow'[r].closed = escrow[r].closed /\ escrow'[r].exists = escrow[r].exists
        /\ escrow'[r].released = escrow[r].released /\ escrow'[r].allocation = escrow[r].allocation
    BY <1>1, <1>5 DEF TopUp, Fundings
  <2> QED
    BY <2>1, <1>1, <1>2
<1>6. ASSUME NEW q \in Runs, NEW j \in Steps, NEW amount \in Amounts \cup {0},
             Allocate(caller, q, j, amount)
      PROVE  LosesRight(r, i)
  <2>1. CASE q # r
    BY <1>1, <1>3, <1>6, <2>1 DEF Allocate
  <2>2. CASE q = r
    <3>1. /\ escrow'[r].closed = escrow[r].closed /\ escrow'[r].exists = escrow[r].exists
          /\ escrow'[r].released = escrow[r].released
          /\ escrow'[r].allocation = [escrow[r].allocation EXCEPT ![j] = amount]
          /\ escrow[r].allocation \in [Steps -> Nat]
      BY <1>1, <1>6, <2>2 DEF Allocate, Fundings
    <3>2. j = i /\ amount = 0
      BY <3>1, <1>1, <1>2
    <3> QED
      BY <3>2, <2>2, <1>6 DEF LosesRight, Allocate
  <2> QED
    BY <2>1, <2>2
<1>7. ASSUME NEW q \in Runs, NEW j \in Steps, ReleaseStep(q, j)
      PROVE  LosesRight(r, i)
  <2>0. escrow' = [escrow EXCEPT ![q] = Paid(escrow[q], j)]
    BY <1>7 DEF ReleaseStep, PayAfter
  <2>1. CASE q # r
    BY <1>1, <1>3, <2>0, <2>1
  <2>2. CASE q = r
    <3>1. escrow'[r] = Paid(escrow[r], j)
      BY <1>1, <2>0, <2>2
    <3>2. /\ escrow'[r].closed = escrow[r].closed /\ escrow'[r].exists = escrow[r].exists
          /\ escrow'[r].released = [escrow[r].released EXCEPT ![j] = TRUE]
          /\ escrow'[r].allocation = [escrow[r].allocation EXCEPT ![j] = 0]
          /\ escrow'[r].payouts = [escrow[r].payouts EXCEPT ![j] = @ + 1]
      <4>1. \A e \in Fundings : Paid(e, j).closed = e.closed /\ Paid(e, j).exists = e.exists
        BY DEF Paid, Fundings
      <4>2. \A e \in Fundings : /\ Paid(e, j).released = [e.released EXCEPT ![j] = TRUE]
                               /\ Paid(e, j).allocation = [e.allocation EXCEPT ![j] = 0]
        BY DEF Paid, Fundings
      <4>3. \A e \in Fundings : Paid(e, j).payouts = [e.payouts EXCEPT ![j] = @ + 1]
        BY DEF Paid, Fundings
      <4> QED
        BY <1>1, <3>1, <4>1, <4>2, <4>3
    <3>3. j = i
      <4> SUFFICES ASSUME j # i PROVE FALSE
        OBVIOUS
      <4>1. i \in DOMAIN escrow[r].released /\ i \in DOMAIN escrow[r].allocation
        BY <1>1 DEF Fundings
      <4>2. /\ escrow'[r].released[i] = escrow[r].released[i]
            /\ escrow'[r].allocation[i] = escrow[r].allocation[i]
        BY ONLY <3>2, <4>1, j # i
      <4> QED
        BY <1>1, <1>2, <3>2, <4>2
    <3>4. escrow[r].payouts[i] = 0 /\ escrow[r].payouts \in [Steps -> Nat]
      BY <1>1 DEF RunSound, Conserved, Fundings
    <3>5. escrow'[r].payouts[i] = 1
      BY <3>2, <3>3, <3>4
    <3> QED
      BY <3>5 DEF LosesRight
  <2> QED
    BY <2>1, <2>2
<1>8. ASSUME NEW q \in Runs, RefundUnspent(q)
      PROVE  LosesRight(r, i)
  <2>0. escrow' = [escrow EXCEPT ![q] = Swept(escrow[q])]
    BY <1>8 DEF RefundUnspent, PayAfter
  <2>1. /\ escrow'[r].closed = escrow[r].closed /\ escrow'[r].exists = escrow[r].exists
        /\ escrow'[r].released = escrow[r].released /\ escrow'[r].allocation = escrow[r].allocation
    BY <1>1, <2>0 DEF Swept, Fundings
  <2> QED
    BY <2>1, <1>1, <1>2
<1>9. ASSUME NEW q \in Runs, RefundExpired(caller, q)
      PROVE  LosesRight(r, i)
  <2>0. escrow' = [escrow EXCEPT ![q] = Expired(escrow[q])] /\ now >= escrow[q].deadline
    BY <1>9 DEF RefundExpired, PayAfter, MayExpire
  <2>1. CASE q # r
    BY <1>1, <1>3, <2>0, <2>1
  <2>2. CASE q = r
    BY <1>1, <2>0, <2>2 DEF Expired, Fundings, LosesRight
  <2> QED
    BY <2>1, <2>2
<1> QED
  BY <1>4, <1>5, <1>6, <1>7, <1>8, <1>9 DEF EscrowCall

LEMMA LedgerKeepsReceipt ==
    ASSUME IInv, NEW caller \in Accounts, Ledger!LedgerCall(caller),
           NEW r \in Runs, NEW i \in Steps, receiptOf[r][i].anchored
    PROVE  receiptOf'[r][i] = receiptOf[r][i]
<1>1. receiptOf \in [Runs -> [Steps -> Ledger!Receipts]]
  BY StorageTyped, StorageFields DEF IInv, Sound, Ledger!LedgerTypeOK, Ledger!Steps, Steps
<1>2. ASSUME NEW q \in Runs, NEW j \in Ledger!Steps, NEW status \in Statuses,
             NEW agent \in AgentIds, NEW work \in Works,
             Ledger!Anchor(caller, q, j, status, agent, work)
      PROVE  receiptOf'[r][i] = receiptOf[r][i]
  <2>1. ~(q = r /\ j = i)
    BY <1>2 DEF Ledger!Anchor
  <2> QED
    BY <1>1, <1>2, <2>1 DEF Ledger!Anchor, Ledger!Steps, Steps
<1>3. ASSUME UNCHANGED receiptOf PROVE receiptOf'[r][i] = receiptOf[r][i]
  BY <1>3
<1> QED
  BY <1>2, <1>3 DEF Ledger!LedgerCall, Ledger!Start, Ledger!Seal

LEMMA StepKeepsRight ==
    IInv /\ [Next]_vars =>
        \A r \in Runs, i \in Steps : Payable(r, i) /\ ~Payable(r, i)' => LosesRight(r, i)
<1> SUFFICES ASSUME IInv, [Next]_vars, NEW r \in Runs, NEW i \in Steps,
                    Payable(r, i), ~Payable(r, i)', ~LosesRight(r, i)
             PROVE  FALSE
  OBVIOUS
<1>0. /\ escrow[r].exists /\ ~escrow[r].closed /\ ~escrow[r].released[i] /\ escrow[r].allocation[i] # 0
      /\ receiptOf[r][i].anchored
      /\ listing'[receiptOf[r][i].agent] = listing[receiptOf[r][i].agent]
  BY DEF Payable, IsOpen, ClaimHolds, LosesRight
<1>1. ASSUME NEW caller \in Accounts, EscrowCall(caller),
             UNCHANGED <<ledgerVars, listing, now, signed>>
      PROVE  FALSE
  BY <1>1, EscrowTakesRight
<1>2. ASSUME receiptOf'[r][i] = receiptOf[r][i], escrow' = escrow, signed \subseteq signed'
      PROVE  FALSE
  BY <1>0, <1>2, RightInRecord
<1>3. ASSUME NEW caller \in Accounts, Ledger!LedgerCall(caller),
             UNCHANGED <<listing, escrow, stack, now, signed>>
      PROVE  FALSE
  BY <1>0, <1>2, <1>3, LedgerKeepsReceipt
<1>4. ASSUME UNCHANGED <<ledgerVars, escrow, signed>> PROVE FALSE
  BY <1>2, <1>4 DEF ledgerVars
<1>5. CASE PaymentFails
  BY <1>5 DEF LosesRight
<1>6. ASSUME NEW key \in Keys, NEW claim \in Claims, Sign(key, claim) PROVE FALSE
  BY <1>2, <1>6 DEF Sign, ledgerVars
<1> QED
  BY <1>1, <1>3, <1>4, <1>5, <1>6 DEF Next, PaymentReturns, Tick, vars, ledgerVars

\* What an agent could collect stays collectable until it is paid, the agent
\* changes its listing, the executor withdraws the allocation, or the run is
\* closed after its deadline, for any number of runs and payments under way.
THEOREM EscrowKeepsEarned == Spec => EarnedStaysPayable
<1>1. IInv /\ [Next]_vars =>
        [\A r \in Runs, i \in Steps : Payable(r, i) /\ ~Payable(r, i)' =>
          \/ escrow'[r].payouts[i] = 1
          \/ listing'[receiptOf[r][i].agent] # listing[receiptOf[r][i].agent]
          \/ Allocate(executorOf[r], r, i, 0)
          \/ escrow'[r].closed /\ now >= escrow[r].deadline
          \/ PaymentFails]_vars
  BY StepKeepsRight DEF LosesRight
<1> QED
  BY <1>1, Invariance, PTL DEF Spec, EarnedStaysPayable

=============================================================================
