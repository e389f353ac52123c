------------------------ MODULE AgentReputationProofs ------------------------
(***************************************************************************)
(* For every set of agents, accounts, contracts and keys, every length of  *)
(* the cooldown and every depth of nested payments: the invariants of the  *)
(* bonds, that a slash is for good, and that no bond leaves before the     *)
(* cooldown.                                                               *)
(***************************************************************************)
EXTENDS AgentReputation, SequenceTheorems, TLAPS

-----------------------------------------------------------------------------
\* What the bond b, the account a and the time of the last stake of one agent
\* keep to at time t: a clock that runs was started after the last stake.
Kept(b, a, last, t) ==
    /\ b \in Bonds /\ a \in Accountings /\ last \in Nat /\ last <= t
    /\ a.staked = b.amount + a.withdrawn + a.rewarded + a.burned
    /\ b.unlockAt # 0 =>
          /\ b.amount > 0
          /\ last + UnbondingPeriod <= b.unlockAt /\ b.unlockAt <= t + UnbondingPeriod
    /\ ~b.slashed => a.rewarded = 0 /\ a.burned = 0
    /\ b.slashed =>
          /\ b.amount = 0 /\ b.unlockAt = 0
          /\ a.burned - a.rewarded \in {0, 1} /\ a.burned > 0

LEMMA NoBondKept == \A t \in Nat : Kept(NoBond, NothingMoved, 0, t)
BY DEF Kept, NoBond, NothingMoved, Bonds, Accountings

LEMMA StakeKept ==
    ASSUME NEW b, NEW a, NEW last, NEW t \in Nat, Kept(b, a, last, t), ~b.slashed,
           NEW amount \in Nat \ {0}
    PROVE  Kept(Topped(b, amount), [a EXCEPT !.staked = @ + amount], t, t)
<1> DEFINE b1 == Topped(b, amount)
           a1 == [a EXCEPT !.staked = @ + amount]
<1>1. /\ b \in Bonds /\ a \in Accountings /\ last \in Nat /\ last <= t
      /\ b.amount \in Nat
      /\ a.staked = b.amount + a.withdrawn + a.rewarded + a.burned
      /\ a.staked \in Nat /\ a.withdrawn \in Nat /\ a.rewarded = 0 /\ a.burned = 0
  BY DEF Kept, Bonds, Accountings
<1>2. /\ b1 \in Bonds /\ b1.amount = b.amount + amount /\ b1.unlockAt = 0 /\ ~b1.slashed
  <2>1. b.amount + amount \in Nat
    BY <1>1
  <2>2. b1 \in Bonds
    BY <1>1, <2>1 DEF Topped, Bonds
  <2>3. b1.amount = b.amount + amount
    BY <1>1, <2>1 DEF Topped, Bonds
  <2>4. b1.unlockAt = 0
    BY <1>1, <2>1 DEF Topped, Bonds
  <2>5. ~b1.slashed
    BY <1>1, <2>1 DEF Topped, Bonds
  <2> QED
    BY <2>2, <2>3, <2>4, <2>5
<1>3. /\ a1 \in Accountings /\ a1.staked = a.staked + amount /\ a1.withdrawn = a.withdrawn
      /\ a1.rewarded = 0 /\ a1.burned = 0
  BY <1>1 DEF Accountings
<1> HIDE DEF a1, b1
<1>4. Kept(b1, a1, t, t)
  BY <1>1, <1>2, <1>3 DEF Kept
<1> QED
  BY <1>4 DEF a1, b1

LEMMA RequestKept ==
    ASSUME NEW b, NEW a, NEW last, NEW t \in Nat, Kept(b, a, last, t), ~b.slashed, b.amount # 0
    PROVE  Kept([b EXCEPT !.unlockAt = t + UnbondingPeriod], a, last, t)
BY ReputationBounds DEF Kept, Bonds, Accountings

LEMMA WithdrawKept ==
    ASSUME NEW b, NEW a, NEW last, NEW t \in Nat, Kept(b, a, last, t), ~b.slashed
    PROVE  Kept(Emptied(b), [a EXCEPT !.withdrawn = @ + b.amount], last, t)
<1> DEFINE b1 == Emptied(b)
           a1 == [a EXCEPT !.withdrawn = @ + b.amount]
<1>1. /\ b \in Bonds /\ a \in Accountings /\ last \in Nat /\ last <= t
      /\ b.amount \in Nat
      /\ a.staked = b.amount + a.withdrawn + a.rewarded + a.burned
      /\ a.staked \in Nat /\ a.withdrawn \in Nat /\ a.rewarded = 0 /\ a.burned = 0
  BY DEF Kept, Bonds, Accountings
<1>2. b1 \in Bonds /\ b1.amount = 0 /\ b1.unlockAt = 0 /\ ~b1.slashed
  BY <1>1 DEF Emptied, Bonds
<1>3. /\ a1 \in Accountings /\ a1.staked = a.staked /\ a1.withdrawn = a.withdrawn + b.amount
      /\ a1.rewarded = 0 /\ a1.burned = 0
  BY <1>1 DEF Accountings
<1> HIDE DEF a1, b1
<1>4. Kept(b1, a1, last, t)
  BY <1>1, <1>2, <1>3 DEF Kept
<1> QED
  BY <1>4 DEF a1, b1

\* Half of a bond, rounded down, is rewarded, the rest is burned.
LEMMA SlashKept ==
    ASSUME NEW b, NEW a, NEW last, NEW t \in Nat, Kept(b, a, last, t), ~b.slashed, b.amount # 0
    PROVE  Kept([NoBond EXCEPT !.slashed = TRUE],
                [a EXCEPT !.rewarded = @ + b.amount \div 2,
                          !.burned = @ + (b.amount - b.amount \div 2)],
                last, t)
<1> DEFINE reward == b.amount \div 2
           b1 == [NoBond EXCEPT !.slashed = TRUE]
           a1 == [a EXCEPT !.rewarded = @ + reward, !.burned = @ + (b.amount - reward)]
<1>1. /\ b \in Bonds /\ a \in Accountings /\ last \in Nat /\ last <= t
      /\ b.amount \in Nat
      /\ a.staked = b.amount + a.withdrawn + a.rewarded + a.burned
      /\ a.staked \in Nat /\ a.withdrawn \in Nat /\ a.rewarded = 0 /\ a.burned = 0
  BY DEF Kept, Bonds, Accountings
<1>2. b.amount > 0
  BY <1>1
<1>3. /\ reward \in Nat /\ reward <= b.amount
      /\ b.amount - reward - reward \in {0, 1} /\ b.amount - reward > 0
  BY <1>1, <1>2
<1> HIDE DEF reward
<1>4. b1 \in Bonds /\ b1.amount = 0 /\ b1.unlockAt = 0 /\ b1.slashed
  BY DEF NoBond, Bonds
<1>5. /\ a1 \in Accountings /\ a1.staked = a.staked /\ a1.withdrawn = a.withdrawn
      /\ a1.rewarded = reward /\ a1.burned = b.amount - reward
  <2>1. a.rewarded + reward \in Nat /\ a.burned + (b.amount - reward) \in Nat
    BY <1>1, <1>3
  <2>2. a1.staked = a.staked /\ a1.withdrawn = a.withdrawn
    BY <1>1 DEF Accountings
  <2>3. a1.rewarded = a.rewarded + reward /\ a1.burned = a.burned + (b.amount - reward)
    BY <1>1 DEF Accountings
  <2>4. a1 \in Accountings
    BY <1>1, <2>1 DEF Accountings
  <2> QED
    BY <1>1, <1>3, <2>1, <2>2, <2>3, <2>4
<1> HIDE DEF a1, b1
<1>6. Kept(b1, a1, last, t)
  BY <1>1, <1>3, <1>4, <1>5 DEF Kept
<1> QED
  BY <1>6 DEF a1, b1, reward

LEMMA TimePasses ==
    ASSUME NEW b, NEW a, NEW last, NEW t \in Nat, Kept(b, a, last, t)
    PROVE  Kept(b, a, last, t + 1)
BY ReputationBounds DEF Kept, Bonds, Accountings

-----------------------------------------------------------------------------
\* Two claims about one step, under one key: what slashes rest on.
Proven(id, claims) ==
    \E key \in Keys, job \in Jobs, a \in Works, b \in Works :
        /\ a # b
        /\ \A work \in {a, b} :
              [key |-> key, claim |-> [agent |-> id, job |-> job, work |-> work]] \in claims

Sound(s, t, claims) ==
    /\ s \in Storages
    /\ \A id \in AgentIds :
          /\ Kept(s.bonds[id], s.account[id], s.lastStake[id], t)
          /\ s.bonds[id].slashed => Proven(id, claims)

\* No call takes a withdrawal back, so an older storage has no more of them.
Older(s, s1) == \A id \in AgentIds : s.account[id].withdrawn <= s1.account[id].withdrawn

\* A payment that fails brings back the storage of its frame: all frames are
\* sound, and each is older than those above it and than the storage.
FramesSound(frames, s, t, claims) ==
    /\ frames \in Seq(Storages)
    /\ \A k \in 1 .. Len(frames) :
          /\ Sound(frames[k], t, claims)
          /\ Older(frames[k], s)
          /\ \A j \in 1 .. k : Older(frames[j], frames[k])

IInv ==
    /\ now \in Nat \ {0}
    /\ signed \subseteq [key : Keys, claim : Claims]
    /\ Sound(Storage, now, signed)
    /\ FramesSound(stack, Storage, now, signed)

LEMMA StorageFields ==
    /\ Storage.owner = owner /\ Storage.operator = operator /\ Storage.signer = signer
    /\ Storage.bonds = bonds /\ Storage.account = account /\ Storage.lastStake = lastStake
BY DEF Storage

LEMMA StorageTyped ==
    (Storage \in Storages) <=> /\ Authority!AuthorityTypeOK
                               /\ bonds \in [AgentIds -> Bonds]
                               /\ account \in [AgentIds -> Accountings]
                               /\ lastStake \in [AgentIds -> Nat]
BY DEF Storage, Storages, Authority!AuthorityTypeOK

LEMMA StorageTypedNext ==
    (Storage \in Storages)' <=> /\ Authority!AuthorityTypeOK'
                                /\ bonds' \in [AgentIds -> Bonds]
                                /\ account' \in [AgentIds -> Accountings]
                                /\ lastStake' \in [AgentIds -> Nat]
BY DEF Storage, Storages, Authority!AuthorityTypeOK

LEMMA IInvImplies == IInv => ReputationTypeOK /\ BondsAreConserved /\ SlashesAreProven
<1> SUFFICES ASSUME IInv PROVE ReputationTypeOK /\ BondsAreConserved /\ SlashesAreProven
  OBVIOUS
<1>1. /\ Authority!AuthorityTypeOK /\ bonds \in [AgentIds -> Bonds]
      /\ account \in [AgentIds -> Accountings] /\ lastStake \in [AgentIds -> Nat]
      /\ \A id \in AgentIds : /\ Kept(bonds[id], account[id], lastStake[id], now)
                              /\ bonds[id].slashed => Proven(id, signed)
  BY StorageTyped, StorageFields DEF IInv, Sound
<1>2. \A id \in AgentIds : bonds[id].unlockAt # 0 =>
          bonds[id].amount > 0 /\ bonds[id].unlockAt <= now + UnbondingPeriod
  BY <1>1 DEF Kept
<1>3. ReputationTypeOK
  BY <1>1, <1>2 DEF ReputationTypeOK, IInv, FramesSound
<1>4. BondsAreConserved
  BY <1>1 DEF BondsAreConserved, Kept
<1>5. ASSUME NEW id \in AgentIds, bonds[id].slashed
      PROVE  bonds[id] = [NoBond EXCEPT !.slashed = TRUE]
  BY <1>1, <1>5 DEF Kept, NoBond, Bonds
<1>6. SlashesAreProven
  BY <1>1, <1>5 DEF SlashesAreProven, Kept, Proven
<1> QED
  BY <1>3, <1>4, <1>6

LEMMA InitIInv == ReputationInit => IInv
<1> SUFFICES ASSUME ReputationInit PROVE IInv
  OBVIOUS
<1>1. Authority!AuthorityTypeOK
  BY DEF ReputationInit, Authority!AuthorityInit, Authority!AuthorityTypeOK
<1>2. Storage \in Storages
  BY <1>1, StorageTyped DEF ReputationInit, NoBond, NothingMoved, Bonds, Accountings
<1>3. \A id \in AgentIds : /\ Kept(bonds[id], account[id], lastStake[id], now)
                           /\ ~bonds[id].slashed
  BY NoBondKept DEF ReputationInit, NoBond
<1>4. Sound(Storage, now, signed)
  BY <1>2, <1>3, StorageFields DEF Sound
<1>5. FramesSound(stack, Storage, now, signed)
  BY DEF ReputationInit, FramesSound
<1> QED
  BY <1>4, <1>5 DEF IInv, ReputationInit
-----------------------------------------------------------------------------
\* Opening and closing a frame; what does not disturb the frames.
LEMMA Push ==
    ASSUME NEW frames, NEW s, NEW t, NEW claims,
           FramesSound(frames, s, t, claims), Sound(s, t, claims)
    PROVE  FramesSound(Append(frames, s), s, t, claims)
<1> DEFINE more == Append(frames, s)
<1>1. frames \in Seq(Storages) /\ s \in Storages
  BY DEF FramesSound, Sound
<1>2. /\ more \in Seq(Storages) /\ Len(more) = Len(frames) + 1 /\ Len(frames) \in Nat
      /\ \A k \in 1 .. Len(frames) : more[k] = frames[k]
      /\ more[Len(frames) + 1] = s
  BY <1>1, AppendProperties
<1>3. Older(s, s)
  BY <1>1 DEF Older, Storages, Accountings
<1> HIDE DEF more
<1>4. ASSUME NEW k \in 1 .. Len(more)
      PROVE  /\ Sound(more[k], t, claims)
             /\ Older(more[k], s)
             /\ \A j \in 1 .. k : Older(more[j], more[k])
  <2>1. CASE k \in 1 .. Len(frames)
    BY <1>2, <2>1 DEF FramesSound
  <2>2. CASE k = Len(frames) + 1
    BY <1>2, <1>3, <2>2 DEF FramesSound
  <2> QED
    BY <1>2, <2>1, <2>2
<1> QED
  BY <1>2, <1>4 DEF FramesSound, more

LEMMA Pop ==
    ASSUME NEW frames, NEW s, NEW t, NEW claims, FramesSound(frames, s, t, claims), frames # <<>>
    PROVE  /\ Sound(frames[Len(frames)], t, claims)
           /\ Older(frames[Len(frames)], s)
           /\ FramesSound(SubSeq(frames, 1, Len(frames) - 1), s, t, claims)
           /\ FramesSound(SubSeq(frames, 1, Len(frames) - 1), frames[Len(frames)], t, claims)
<1> DEFINE rest == SubSeq(frames, 1, Len(frames) - 1)
<1>1. frames \in Seq(Storages) /\ Len(frames) \in Nat /\ Len(frames) > 0
  BY DEF FramesSound
<1>2. \A k \in 1 .. Len(frames) - 1 : frames[k] \in Storages
  BY <1>1 DEF FramesSound, Sound
<1>3. /\ rest \in Seq(Storages)
      /\ Len(rest) = IF 1 <= Len(frames) - 1 THEN Len(frames) - 1 - 1 + 1 ELSE 0
      /\ \A k \in 1 .. Len(frames) - 1 - 1 + 1 : rest[k] = frames[1 + k - 1]
  BY <1>1, <1>2, SubSeqProperties
<1>4. \A k \in 1 .. Len(rest) : k \in 1 .. Len(frames) /\ rest[k] = frames[k]
  BY <1>1, <1>3
<1>5. Sound(frames[Len(frames)], t, claims) /\ Older(frames[Len(frames)], s)
  BY <1>1 DEF FramesSound
<1>6. \A k \in 1 .. Len(rest) : Older(frames[k], frames[Len(frames)])
  BY <1>1, <1>4 DEF FramesSound
<1> HIDE DEF rest
<1>7. \A k \in 1 .. Len(rest) :
          Sound(rest[k], t, claims) /\ Older(rest[k], s) /\ Older(rest[k], frames[Len(frames)])
  BY <1>4, <1>6 DEF FramesSound
<1>8. ASSUME NEW k \in 1 .. Len(rest), NEW j \in 1 .. k PROVE Older(rest[j], rest[k])
  <2>1. j \in 1 .. Len(rest) /\ j \in 1 .. k /\ k \in 1 .. Len(frames)
    BY <1>1, <1>3, <1>4
  <2> QED
    BY <2>1, <1>4 DEF FramesSound
<1> QED
  BY <1>3, <1>5, <1>7, <1>8 DEF FramesSound, rest

LEMMA MoreClaims ==
    ASSUME NEW s, NEW t, NEW claims, NEW more, claims \subseteq more, Sound(s, t, claims)
    PROVE  Sound(s, t, more)
<1>1. \A id : Proven(id, claims) => Proven(id, more)
  BY DEF Proven
<1> QED
  BY <1>1 DEF Sound

\* A call that leaves every agent with at least the withdrawals it had.
LEMMA OlderFrames ==
    ASSUME NEW frames, NEW s, NEW s1, NEW t, NEW claims,
           FramesSound(frames, s, t, claims), s \in Storages, s1 \in Storages, Older(s, s1)
    PROVE  FramesSound(frames, s1, t, claims)
<1>1. ASSUME NEW k \in 1 .. Len(frames) PROVE Older(frames[k], s1)
  <2>1. frames[k] \in Storages /\ Older(frames[k], s)
    BY DEF FramesSound, Sound
  <2>2. ASSUME NEW id \in AgentIds
        PROVE  frames[k].account[id].withdrawn <= s1.account[id].withdrawn
    <3>1. /\ frames[k].account[id].withdrawn \in Nat
          /\ s.account[id].withdrawn \in Nat
          /\ s1.account[id].withdrawn \in Nat
      BY <2>1 DEF Storages, Accountings
    <3>2. /\ frames[k].account[id].withdrawn <= s.account[id].withdrawn
          /\ s.account[id].withdrawn <= s1.account[id].withdrawn
      BY <2>1 DEF Older
    <3> QED
      BY <3>1, <3>2
  <2> QED
    BY <2>2 DEF Older
<1> QED
  BY <1>1 DEF FramesSound

\* A call rewrites what belongs to one agent, possibly opening a frame.
LEMMA AgentRewritten ==
    ASSUME IInv, NEW id \in AgentIds, NEW b1, NEW a1, NEW l1, Kept(b1, a1, l1, now),
           b1.slashed => Proven(id, signed),
           account[id].withdrawn <= a1.withdrawn,
           bonds' = [bonds EXCEPT ![id] = b1],
           account' = [account EXCEPT ![id] = a1],
           lastStake' = [lastStake EXCEPT ![id] = l1],
           UNCHANGED <<authorityVars, now, signed>>,
           stack' = stack \/ stack' = Append(stack, Storage)
    PROVE  IInv'
<1>1. /\ Authority!AuthorityTypeOK /\ bonds \in [AgentIds -> Bonds]
      /\ account \in [AgentIds -> Accountings] /\ lastStake \in [AgentIds -> Nat]
      /\ \A q \in AgentIds : /\ Kept(bonds[q], account[q], lastStake[q], now)
                             /\ bonds[q].slashed => Proven(q, signed)
      /\ Storage \in Storages
  BY StorageTyped, StorageFields DEF IInv, Sound
<1>2. b1 \in Bonds /\ a1 \in Accountings /\ l1 \in Nat
  BY DEF Kept
<1>3. Authority!AuthorityTypeOK'
  BY <1>1 DEF authorityVars, Authority!AuthorityTypeOK
<1>4. (Storage \in Storages)'
  BY <1>1, <1>2, <1>3, StorageTypedNext
<1>5. \A q \in AgentIds : /\ Kept(bonds'[q], account'[q], lastStake'[q], now)
                          /\ bonds'[q].slashed => Proven(q, signed)
  BY <1>1
<1>6. Sound(Storage, now, signed)'
  BY <1>4, <1>5 DEF Sound, Storage
<1>7. Older(Storage, Storage')
  <2>1. ASSUME NEW q \in AgentIds PROVE account[q].withdrawn <= account'[q].withdrawn
    BY <1>1 DEF Accountings
  <2> QED
    BY <2>1 DEF Older, Storage
<1>8. FramesSound(stack', Storage, now, signed)
  BY Push DEF IInv
<1>9. FramesSound(stack, Storage, now, signed)'
  BY <1>1, <1>4, <1>7, <1>8, OlderFrames
<1> QED
  BY <1>6, <1>9 DEF IInv
-----------------------------------------------------------------------------
\* Every step keeps the invariant.  One step per function of the contract.
LEMMA CallStep ==
    ASSUME IInv, NEW caller \in Accounts, ReputationCall(caller), UNCHANGED <<now, signed>>
    PROVE  IInv'
<1>1. /\ now \in Nat
      /\ bonds \in [AgentIds -> Bonds] /\ account \in [AgentIds -> Accountings]
      /\ lastStake \in [AgentIds -> Nat]
      /\ \A q \in AgentIds : Kept(bonds[q], account[q], lastStake[q], now)
  BY StorageTyped, StorageFields DEF IInv, Sound
<1>2. PICK id \in AgentIds :
        \/ \E amount \in Amounts : Stake(id, amount)
        \/ RequestUnstake(caller, id)
        \/ Withdraw(caller, id)
        \/ \E job \in Jobs, a \in Works, b \in Works : ProveEquivocation(caller, id, job, a, b)
  BY DEF ReputationCall
<1>3. /\ account[id].withdrawn \in Nat /\ bonds[id].amount \in Nat
      /\ Kept(bonds[id], account[id], lastStake[id], now)
      /\ bonds[id] \in Bonds /\ account[id] \in Accountings
      /\ account = [account EXCEPT ![id] = account[id]]
      /\ lastStake = [lastStake EXCEPT ![id] = lastStake[id]]
  BY <1>1 DEF Accountings, Bonds
<1>4. ASSUME NEW amount \in Amounts, Stake(id, amount) PROVE IInv'
  <2> DEFINE b1 == Topped(bonds[id], amount)
             a1 == [account[id] EXCEPT !.staked = @ + amount]
  <2>1. amount \in Nat \ {0} /\ ~bonds[id].slashed
    BY <1>4, ReputationBounds DEF Stake, MayStake
  <2>2. Kept(b1, a1, now, now)
    BY <1>1, <1>3, <2>1, StakeKept
  <2>3. ~b1.slashed /\ a1.withdrawn = account[id].withdrawn
    BY <1>3, <2>1 DEF Topped, Bonds, Accountings
  <2>4. /\ bonds' = [bonds EXCEPT ![id] = b1] /\ account' = [account EXCEPT ![id] = a1]
        /\ lastStake' = [lastStake EXCEPT ![id] = now]
        /\ UNCHANGED <<authorityVars, now, signed>> /\ stack' = stack
    BY <1>4 DEF Stake
  <2> HIDE DEF a1, b1
  <2>5. account[id].withdrawn <= a1.withdrawn
    BY <1>3, <2>3
  <2> QED
    BY <2>2, <2>3, <2>4, <2>5, AgentRewritten
<1>5. CASE RequestUnstake(caller, id)
  <2> DEFINE b1 == [bonds[id] EXCEPT !.unlockAt = now + UnbondingPeriod]
  <2>1. ~bonds[id].slashed /\ bonds[id].amount # 0
    BY <1>5 DEF RequestUnstake, Bonded
  <2>2. Kept(b1, account[id], lastStake[id], now)
    BY <1>1, <1>3, <2>1, RequestKept
  <2>3. ~b1.slashed
    BY <1>3, <2>1 DEF Bonds
  <2>4. /\ bonds' = [bonds EXCEPT ![id] = b1] /\ account' = [account EXCEPT ![id] = account[id]]
        /\ lastStake' = [lastStake EXCEPT ![id] = lastStake[id]]
        /\ UNCHANGED <<authorityVars, now, signed>> /\ stack' = stack
    BY <1>3, <1>5 DEF RequestUnstake
  <2> HIDE DEF b1
  <2>5. account[id].withdrawn <= account[id].withdrawn
    BY <1>3
  <2> QED
    BY <2>2, <2>3, <2>4, <2>5, AgentRewritten
<1>6. CASE Withdraw(caller, id)
  <2> DEFINE b1 == Emptied(bonds[id])
             a1 == [account[id] EXCEPT !.withdrawn = @ + bonds[id].amount]
  <2>1. ~bonds[id].slashed
    BY <1>6 DEF Withdraw, Bonded
  <2>2. Kept(b1, a1, lastStake[id], now)
    BY <1>1, <1>3, <2>1, WithdrawKept
  <2>3. ~b1.slashed /\ a1.withdrawn = account[id].withdrawn + bonds[id].amount
    BY <1>3, <2>1 DEF Emptied, Bonds, Accountings
  <2>4. /\ bonds' = [bonds EXCEPT ![id] = b1] /\ account' = [account EXCEPT ![id] = a1]
        /\ lastStake' = [lastStake EXCEPT ![id] = lastStake[id]]
        /\ UNCHANGED <<authorityVars, now, signed>>
        /\ stack' = stack \/ stack' = Append(stack, Storage)
    BY <1>3, <1>6 DEF Withdraw, PayTo
  <2> HIDE DEF a1, b1
  <2>5. account[id].withdrawn <= a1.withdrawn
    BY <1>3, <2>3
  <2> QED
    BY <2>2, <2>3, <2>4, <2>5, AgentRewritten
<1>7. ASSUME NEW job \in Jobs, NEW a \in Works, NEW b \in Works,
             ProveEquivocation(caller, id, job, a, b)
      PROVE  IInv'
  <2> DEFINE b1 == [NoBond EXCEPT !.slashed = TRUE]
             a1 == [account[id] EXCEPT !.rewarded = @ + bonds[id].amount \div 2,
                        !.burned = @ + (bonds[id].amount - bonds[id].amount \div 2)]
  <2>1. ~bonds[id].slashed /\ bonds[id].amount # 0
    BY <1>7 DEF ProveEquivocation, Bonded
  <2>2. Kept(b1, a1, lastStake[id], now)
    BY <1>1, <1>3, <2>1, SlashKept
  <2>3. a1.withdrawn = account[id].withdrawn
    BY <1>3 DEF Accountings
  <2>4. Proven(id, signed)
    <3>1. signer[id] \in Keys
      BY <1>7, StorageTyped DEF ProveEquivocation, Equivocates, IInv, Sound, Authority!AuthorityTypeOK
    <3> QED
      BY <1>7, <3>1 DEF ProveEquivocation, Equivocates, Proven
  <2>5. /\ bonds' = [bonds EXCEPT ![id] = b1] /\ account' = [account EXCEPT ![id] = a1]
        /\ lastStake' = [lastStake EXCEPT ![id] = lastStake[id]]
        /\ UNCHANGED <<authorityVars, now, signed>>
        /\ stack' = stack \/ stack' = Append(stack, Storage)
    BY <1>3, <1>7 DEF ProveEquivocation, PayTo
  <2> HIDE DEF a1, b1
  <2>6. account[id].withdrawn <= a1.withdrawn
    BY <1>3, <2>3
  <2> QED
    BY <2>2, <2>4, <2>5, <2>6, AgentRewritten
<1> QED
  BY <1>2, <1>4, <1>5, <1>6, <1>7

LEMMA AuthorityStep ==
    ASSUME IInv, Authority!AuthorityNext,
           UNCHANGED <<bonds, account, lastStake, stack, now, signed>>
    PROVE  IInv'
<1>1. /\ Authority!AuthorityTypeOK /\ bonds \in [AgentIds -> Bonds]
      /\ account \in [AgentIds -> Accountings] /\ lastStake \in [AgentIds -> Nat]
      /\ Storage \in Storages
  BY StorageTyped DEF IInv, Sound
<1>2. Authority!AuthorityTypeOK'
  BY <1>1 DEF Authority!AuthorityNext, Authority!HandTo, Authority!Appoint, Authority!Publish,
              Authority!AuthorityTypeOK
<1>3. (Storage \in Storages)'
  BY <1>1, <1>2, StorageTypedNext
<1>4. Sound(Storage, now, signed)'
  BY <1>3, StorageFields DEF IInv, Sound, Storage
<1>5. Older(Storage, Storage')
  BY <1>1 DEF Older, Storage, Accountings
<1>6. FramesSound(stack, Storage, now, signed)'
  BY <1>1, <1>3, <1>5, OlderFrames DEF IInv
<1> QED
  BY <1>4, <1>6 DEF IInv

LEMMA PaymentStep ==
    ASSUME IInv, PaymentReturns \/ PaymentFails
    PROVE  IInv'
<1>1. CASE PaymentReturns
  <2>1. Storage' = Storage
    BY <1>1 DEF PaymentReturns, Storage, storageVars
  <2>2. FramesSound(stack', Storage, now, signed)
    BY <1>1, Pop DEF PaymentReturns, IInv
  <2> QED
    BY <1>1, <2>1, <2>2 DEF PaymentReturns, IInv
<1>2. CASE PaymentFails
  <2> DEFINE s == stack[Len(stack)]
  <2>1. Sound(s, now, signed) /\ FramesSound(stack', s, now, signed)
    BY <1>2, Pop DEF PaymentFails, IInv
  <2>2. Storage' = s
    BY <1>2, <2>1 DEF PaymentFails, Storage, Sound, Storages
  <2> QED
    BY <1>2, <2>1, <2>2 DEF PaymentFails, IInv
<1> QED
  BY <1>1, <1>2

LEMMA SignStep ==
    ASSUME IInv, NEW key \in Keys, NEW claim \in Claims, Sign(key, claim)
    PROVE  IInv'
<1>1. Storage' = Storage
  BY DEF Sign, Storage, storageVars
<1>2. signed \subseteq signed' /\ signed' \subseteq [key : Keys, claim : Claims]
  BY DEF Sign, IInv
<1>3. Sound(Storage', now', signed')
  BY <1>1, <1>2, MoreClaims DEF IInv, Sign
<1>4. FramesSound(stack', Storage', now', signed')
  BY <1>1, <1>2, MoreClaims DEF IInv, Sign, FramesSound
<1> QED
  BY <1>2, <1>3, <1>4 DEF IInv, Sign

\* Time stands still while a payment is under way.
LEMMA TickStep ==
    ASSUME IInv, Tick
    PROVE  IInv'
<1>1. Storage' = Storage /\ now' = now + 1 /\ now' \in Nat \ {0} /\ signed' = signed
  BY DEF Tick, Storage, storageVars, IInv
<1>2. Sound(Storage, now + 1, signed)
  BY TimePasses DEF IInv, Sound
<1>3. stack' = <<>>
  BY DEF Tick
<1>4. FramesSound(stack', Storage, now + 1, signed)
  BY <1>3 DEF FramesSound
<1> QED
  BY <1>1, <1>2, <1>4 DEF IInv

LEMMA NextIInv == IInv /\ [ReputationNext]_reputationVars => IInv'
<1> SUFFICES ASSUME IInv, [ReputationNext]_reputationVars PROVE IInv'
  OBVIOUS
<1>1. ASSUME NEW caller \in Accounts, ReputationCall(caller), UNCHANGED <<now, signed>>
      PROVE  IInv'
  BY <1>1, CallStep
<1>2. ASSUME Authority!AuthorityNext, UNCHANGED <<bonds, account, lastStake, stack>>,
             UNCHANGED <<now, signed>>
      PROVE  IInv'
  BY <1>2, AuthorityStep
<1>3. ASSUME PaymentReturns \/ PaymentFails PROVE IInv'
  BY <1>3, PaymentStep
<1>4. ASSUME NEW key \in Keys, NEW claim \in Claims, Sign(key, claim) PROVE IInv'
  BY <1>4, SignStep
<1>5. CASE Tick
  BY <1>5, TickStep
<1>6. CASE UNCHANGED reputationVars
  <2>1. Storage' = Storage /\ stack' = stack /\ signed' = signed /\ now' = now
    BY <1>6 DEF reputationVars, Storage
  <2> QED
    BY <2>1 DEF IInv
<1> QED
  BY <1>1, <1>2, <1>3, <1>4, <1>5, <1>6 DEF ReputationNext

LEMMA Invariance == ReputationSpec => []IInv
BY InitIInv, NextIInv, PTL DEF ReputationSpec
-----------------------------------------------------------------------------
\* Types, and that a clock runs only for a bond, in every reachable state.
THEOREM BondsTyped == ReputationSpec => []ReputationTypeOK
BY Invariance, IInvImplies, PTL

\* Nothing of a bond is lost or paid twice, for any depth of nested payments.
THEOREM BondsConserved == ReputationSpec => []BondsAreConserved
BY Invariance, IInvImplies, PTL

\* Only equivocation is slashed, and half of the bond is then burned.
THEOREM SlashesProven == ReputationSpec => []SlashesAreProven
BY Invariance, IInvImplies, PTL

\* What a call of the contract does to a bond that is slashed, or withdraws.
LEMMA CallKeepsPromises ==
    ASSUME IInv, NEW caller \in Accounts, ReputationCall(caller), NEW id \in AgentIds
    PROVE  /\ bonds[id].slashed => bonds'[id] = bonds[id]
           /\ account'[id].withdrawn > account[id].withdrawn => now >= lastStake[id] + UnbondingPeriod
<1>1. /\ now \in Nat
      /\ bonds \in [AgentIds -> Bonds] /\ account \in [AgentIds -> Accountings]
      /\ lastStake \in [AgentIds -> Nat]
      /\ \A q \in AgentIds : Kept(bonds[q], account[q], lastStake[q], now)
  BY StorageTyped, StorageFields DEF IInv, Sound
<1>2. PICK called \in AgentIds :
        \/ \E amount \in Amounts : Stake(called, amount)
        \/ RequestUnstake(caller, called)
        \/ Withdraw(caller, called)
        \/ \E job \in Jobs, a \in Works, b \in Works : ProveEquivocation(caller, called, job, a, b)
  BY DEF ReputationCall
<1>3. account[id].withdrawn \in Nat /\ account[id] \in Accountings
  BY <1>1 DEF Accountings
<1>4. bonds[id].slashed => bonds'[id] = bonds[id]
  <2>1. ~bonds[called].slashed
    BY <1>2 DEF Stake, MayStake, RequestUnstake, Withdraw, ProveEquivocation, Bonded
  <2>2. \E b1 : bonds' = [bonds EXCEPT ![called] = b1]
    BY <1>2 DEF Stake, RequestUnstake, Withdraw, ProveEquivocation
  <2> QED
    BY <1>1, <2>1, <2>2
<1>5. CASE Withdraw(caller, called)
  <2>1. bonds[called].unlockAt # 0 /\ now >= bonds[called].unlockAt
    BY <1>5 DEF Withdraw
  <2>2. /\ bonds[called].unlockAt \in Nat /\ lastStake[called] \in Nat
        /\ lastStake[called] + UnbondingPeriod <= bonds[called].unlockAt
    BY <1>1, <2>1 DEF Kept, Bonds
  <2>3. now >= lastStake[called] + UnbondingPeriod
    BY <1>1, <2>1, <2>2, ReputationBounds
  <2>4. id # called => account'[id] = account[id]
    BY <1>1, <1>5 DEF Withdraw
  <2> QED
    BY <1>3, <1>4, <2>3, <2>4
<1>6. CASE ~Withdraw(caller, called)
  <2>1. account'[id].withdrawn = account[id].withdrawn
    BY <1>1, <1>2, <1>3, <1>6 DEF Stake, RequestUnstake, ProveEquivocation, Accountings
  <2> QED
    BY <1>3, <1>4, <2>1
<1> QED
  BY <1>5, <1>6

LEMMA StepKeepsPromises ==
    ASSUME IInv, [ReputationNext]_reputationVars, NEW id \in AgentIds
    PROVE  /\ bonds[id].slashed => bonds'[id] = bonds[id] \/ PaymentFails
           /\ account'[id].withdrawn > account[id].withdrawn => now >= lastStake[id] + UnbondingPeriod
<1>1. account[id].withdrawn \in Nat
  BY StorageTyped DEF IInv, Sound, Accountings
<1>2. ASSUME NEW caller \in Accounts, ReputationCall(caller)
      PROVE  /\ bonds[id].slashed => bonds'[id] = bonds[id]
             /\ account'[id].withdrawn > account[id].withdrawn =>
                    now >= lastStake[id] + UnbondingPeriod
  BY <1>2, CallKeepsPromises
<1>3. CASE UNCHANGED <<bonds, account>>
  BY <1>1, <1>3
<1>4. CASE PaymentFails
  <2>1. Older(stack[Len(stack)], Storage) /\ Sound(stack[Len(stack)], now, signed)
    BY <1>4, Pop DEF IInv, PaymentFails
  <2>2. stack[Len(stack)].account[id].withdrawn <= account[id].withdrawn
    BY <2>1, StorageFields DEF Older
  <2>3. account'[id].withdrawn <= account[id].withdrawn
    BY <1>4, <2>2 DEF PaymentFails
  <2>4. account'[id].withdrawn \in Nat
    BY <1>4, <2>1 DEF PaymentFails, Sound, Storages, Accountings
  <2> QED
    BY <1>1, <1>4, <2>3, <2>4
<1> QED
  BY <1>2, <1>3, <1>4
  DEF ReputationNext, PaymentReturns, Sign, Tick, storageVars, reputationVars

\* A slashed identity never holds a bond again.
THEOREM SlashIsForGood == ReputationSpec => SlashedForGood
<1>1. IInv /\ [ReputationNext]_reputationVars =>
          [\A id \in AgentIds :
              bonds[id].slashed => bonds'[id] = bonds[id] \/ PaymentFails]_reputationVars
  BY StepKeepsPromises
<1> QED
  BY <1>1, Invariance, PTL DEF ReputationSpec, SlashedForGood

\* Whatever is withdrawn was shown for a whole period after the last stake.
THEOREM CooldownHolds == ReputationSpec => CooldownProtectsHirers
<1>1. IInv /\ [ReputationNext]_reputationVars =>
          [\A id \in AgentIds :
              account'[id].withdrawn > account[id].withdrawn =>
                  now >= lastStake[id] + UnbondingPeriod]_reputationVars
  BY StepKeepsPromises
<1> QED
  BY <1>1, Invariance, PTL DEF ReputationSpec, CooldownProtectsHirers
=============================================================================
