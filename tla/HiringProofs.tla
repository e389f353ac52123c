---------------------------- MODULE HiringProofs ----------------------------
(***************************************************************************)
(* For any number of steps, any agent, any prices and any bound on retries *)
(* and changes: what a run reports of its payments is what the escrow did, *)
(* and a run that hires step after step pays what the listing said when it *)
(* hired.  The inductive invariant relates a step to the escrow's account  *)
(* of it, to the transactions still under way and to what the run keeps of *)
(* the agent's listing.                                                    *)
(***************************************************************************)
EXTENDS Hiring, SequenceTheorems, TLAPS

Listings == [active : BOOLEAN, price : Prices]
MaybeListing == {{}} \cup {{l} : l \in Listings}
Payments == {{}} \cup {{p} : p \in [amount : Nat, released : BOOLEAN]}
LookupPlaces == {"policy", "resolve", "schema", "identity", "settle"}
Paid == {"allocate", "release"}
Late == Paid \cup {"done"}
Places == LookupPlaces \cup {"send", "waiting", "anchor"} \cup Late
Fields == {"at", "fetching", "hired", "attempt", "timer", "trickles", "answer", "status",
           "awaiting", "payment"}
Txs == [op : Paid, step : Steps, amount : Nat, awaited : BOOLEAN]
AmountsIn(payment) == {p.amount : p \in payment}
Amounts(s) == {p.amount : p \in s.payment}

\* The local state of a step by itself: what it came to owe is settled once,
\* at its outcome, and it waits for a transaction only while it pays.
StepOK(s) ==
    /\ DOMAIN s = Fields
    /\ s.at \in Places /\ s.fetching \in BOOLEAN /\ s.awaiting \in BOOLEAN
    /\ s.hired \in MaybeListing /\ s.payment \in Payments
    /\ s.fetching => s.at \in LookupPlaces
    /\ s.awaiting => s.at \in Paid
    /\ s.at \in Paid => s.payment # {}
    /\ s.at \notin Late => s.payment = {}

HiringTypeOK ==
    /\ config \in Configs
    /\ DOMAIN chain = {"active", "price", "signer", "stake"}
    /\ chain.active \in BOOLEAN /\ chain.price \in Prices
    /\ DOMAIN cache = {"adapter", "stake", "signer"}
    /\ cache["adapter"] \in {{}} \cup {{l} : l \in MaybeListing}
    /\ DOMAIN step = Steps
    /\ \A i \in Steps : StepOK(step[i])
    /\ DOMAIN escrow = {"balance", "closed", "paid", "allocation"}
    /\ escrow.paid \in [Steps -> Nat] /\ escrow.allocation \in [Steps -> Nat]
    /\ mempool \in Seq(Txs)

\* A step and the escrow's account of it: whatever is set aside or was paid is
\* what the step owes.
AccountOK(s, paid, allocation) ==
    /\ \A p \in s.payment : p.released => paid = p.amount
    /\ paid # 0 => paid \in Amounts(s)
    /\ allocation # 0 => allocation \in Amounts(s)

\* A transaction under way moves what its step owes; one that is waited for
\* belongs to what the step is doing now.
TxOK(tx) ==
    /\ tx.amount \in Amounts(step[tx.step])
    /\ tx.awaited => step[tx.step].awaiting /\ step[tx.step].at = tx.op

PayInv ==
    /\ HiringTypeOK
    /\ \A i \in Steps : AccountOK(step[i], escrow.paid[i], escrow.allocation[i])
    /\ \A k \in DOMAIN mempool : TxOK(mempool[k])
    /\ \A k, l \in DOMAIN mempool :
           mempool[k].awaited /\ mempool[l].awaited /\ mempool[k].step = mempool[l].step => k = l

Priced(s) == s.status = Evidence!StatusOk /\ s.answer.signature # {}

\* A step of a run that hires one at a time: the listing it was hired from is
\* still the one kept, only one step reads the chain, and not what is kept
\* already, and what it owes is the price in that listing.
InTurn(i) ==
    /\ step[i].hired # {} => cache["adapter"] = {step[i].hired}
    /\ step[i].fetching =>
           /\ \A j \in 0 .. i - 1 : step[j].at = "done"
           /\ step[i].at \in {"resolve", "schema", "settle"} => cache["adapter"] = {}
    /\ step[i].at \in Late =>
           \A hired \in step[i].hired : Priced(step[i]) => Amounts(step[i]) = {hired.price} \ {0}

HireInv == ~config.override /\ ~config.parallel => \A i \in Steps : InTurn(i)

HiringInv == PayInv /\ HireInv

-----------------------------------------------------------------------------
\* The local state of a step after each kind of change.
LEMMA MovedFacts ==
    ASSUME NEW i \in Steps, NEW at, DOMAIN step[i] = Fields
    PROVE  LET u == Moved(i, at) s == step[i] IN
           /\ DOMAIN u = Fields
           /\ u.at = at /\ u.fetching = FALSE
           /\ u.hired = s.hired /\ u.awaiting = s.awaiting /\ u.payment = s.payment
           /\ u.status = s.status /\ u.answer = s.answer
BY DEF Moved, Fields

LEMMA EndsFacts ==
    ASSUME NEW i \in Steps, NEW status, DOMAIN step[i] = Fields
    PROVE  LET u == Ends(i, status) s == step[i] IN
           /\ DOMAIN u = Fields
           /\ u.at = "anchor" /\ u.fetching = FALSE
           /\ u.hired = s.hired /\ u.awaiting = s.awaiting /\ u.payment = s.payment
<1> DEFINE m == Moved(i, "anchor")
<1>1. /\ DOMAIN m = Fields
      /\ m.at = "anchor" /\ m.fetching = FALSE
      /\ m.hired = step[i].hired /\ m.awaiting = step[i].awaiting /\ m.payment = step[i].payment
  BY MovedFacts
<1>2. Ends(i, status) = [m EXCEPT !.status = status]
  BY DEF Ends
<1> HIDE DEF m
<1> QED
  BY <1>1, <1>2 DEF Fields

-----------------------------------------------------------------------------
\* A step on its way to its outcome, up to the decision what it owes.
Proceeds(s, u) ==
    /\ StepOK(u)
    /\ s.at \notin Late /\ ~u.awaiting
    /\ \A p \in u.payment : ~p.released

\* Nothing is set aside, paid or under way for a step that owes nothing yet.
LEMMA OwesNothingYet ==
    ASSUME PayInv, NEW i \in Steps, step[i].at \notin Late
    PROVE  /\ step[i].payment = {} /\ step[i].awaiting = FALSE
           /\ escrow.paid[i] = 0 /\ escrow.allocation[i] = 0
           /\ \A k \in DOMAIN mempool : mempool[k].step # i
<1>1. StepOK(step[i]) /\ AccountOK(step[i], escrow.paid[i], escrow.allocation[i])
  BY DEF PayInv, HiringTypeOK
<1>2. step[i].payment = {} /\ step[i].awaiting = FALSE
  BY <1>1 DEF StepOK, Late
<1>3. Amounts(step[i]) = {}
  BY <1>2 DEF Amounts
<1>4. escrow.paid[i] = 0 /\ escrow.allocation[i] = 0
  BY <1>1, <1>3 DEF AccountOK
<1>5. \A k \in DOMAIN mempool : mempool[k].step # i
  BY <1>3 DEF PayInv, TxOK
<1> QED
  BY <1>2, <1>4, <1>5

\* The types of a state in which one step and the cache have changed.
LEMMA TypesKept ==
    ASSUME HiringTypeOK, NEW i \in Steps, NEW u, StepOK(u), Becomes(i, u),
           UNCHANGED <<config, chain, escrow>>,
           mempool' \in Seq(Txs),
           DOMAIN cache' = {"adapter", "stake", "signer"},
           cache'["adapter"] \in {{}} \cup {{l} : l \in MaybeListing}
    PROVE  /\ HiringTypeOK'
           /\ step'[i] = u /\ \A j \in Steps : j # i => step'[j] = step[j]
<1>1. /\ DOMAIN step' = Steps
      /\ step'[i] = u /\ \A j \in Steps : j # i => step'[j] = step[j]
  BY DEF HiringTypeOK, Becomes
<1>2. \A j \in Steps : StepOK(step'[j])
  BY <1>1 DEF HiringTypeOK
<1> QED
  BY <1>1, <1>2 DEF HiringTypeOK, StepOK

LEMMA ProceedingKeepsPay ==
    ASSUME PayInv, NEW i \in Steps, NEW u, Proceeds(step[i], u), Becomes(i, u),
           UNCHANGED <<config, chain, escrow, mempool>>,
           DOMAIN cache' = {"adapter", "stake", "signer"},
           cache'["adapter"] \in {{}} \cup {{l} : l \in MaybeListing}
    PROVE  PayInv'
<1>1. /\ HiringTypeOK' /\ step'[i] = u
      /\ \A j \in Steps : j # i => step'[j] = step[j]
      /\ mempool \in Seq(Txs)
  BY TypesKept DEF Proceeds, PayInv, HiringTypeOK
<1>2. /\ escrow.paid[i] = 0 /\ escrow.allocation[i] = 0
      /\ \A k \in DOMAIN mempool : mempool[k].step # i
  BY OwesNothingYet DEF Proceeds
<1>3. ASSUME NEW j \in Steps PROVE AccountOK(step[j], escrow.paid[j], escrow.allocation[j])'
  <2>1. CASE j = i
    BY <1>1, <1>2, <2>1 DEF AccountOK, Proceeds
  <2>2. CASE j # i
    BY <1>1, <2>2 DEF PayInv, AccountOK, Amounts
  <2> QED
    BY <2>1, <2>2
<1>4. ASSUME NEW k \in DOMAIN mempool' PROVE TxOK(mempool[k])'
  <2>1. mempool[k].step \in Steps /\ mempool[k].step # i /\ mempool' = mempool
    <3>1. mempool' = mempool /\ k \in DOMAIN mempool
      OBVIOUS
    <3>2. mempool[k] \in Txs
      BY <1>1, <3>1
    <3> QED
      BY <1>2, <3>1, <3>2 DEF Txs
  <2>2. step'[mempool[k].step] = step[mempool[k].step]
    BY <1>1, <2>1
  <2>3. TxOK(mempool[k])
    BY <2>1 DEF PayInv
  <2> QED
    BY <2>1, <2>2, <2>3 DEF TxOK, Amounts
<1> QED
  BY <1>1, <1>3, <1>4 DEF PayInv

-----------------------------------------------------------------------------
\* The steps that do not act: as long as the acting step was not done, whoever
\* reads the chain is before it, and only one step does.
LEMMA OthersStayInTurn ==
    ASSUME PayInv, NEW i \in Steps, NEW u, Becomes(i, u), step[i].at # "done",
           \A j \in Steps : InTurn(j),
           \/ cache' = cache
           \/ /\ step[i].fetching /\ step[i].at \in {"policy", "identity"}
              /\ cache'["adapter"] = cache["adapter"]
           \/ step[i].fetching /\ step[i].at \in {"resolve", "schema", "settle"}
    PROVE  \A j \in Steps : j # i => InTurn(j)'
<1>1. /\ step'[i] = u
      /\ \A j \in Steps : j # i => step'[j] = step[j]
  BY DEF PayInv, HiringTypeOK, Becomes
<1> SUFFICES ASSUME NEW j \in Steps, j # i PROVE InTurn(j)'
  OBVIOUS
<1>2. InTurn(j) /\ InTurn(i) /\ step'[j] = step[j]
  BY <1>1
<1>3. \A h \in 0 .. j - 1 : h \in Steps
  BY HiringBounds DEF Steps
<1>4. \A h \in 0 .. i - 1 : h \in Steps
  BY HiringBounds DEF Steps
<1>5. step[j].hired # {} => cache'["adapter"] = {step[j].hired}
  BY <1>2 DEF InTurn
<1>6. ASSUME step[j].fetching
      PROVE  /\ \A h \in 0 .. j - 1 : step'[h].at = "done"
             /\ step[j].at \in {"resolve", "schema", "settle"} => cache'["adapter"] = {}
  <2>1. i \notin 0 .. j - 1
    BY <1>2, <1>6 DEF InTurn
  <2>2. j \in 0 .. i - 1
    BY <2>1, HiringBounds DEF Steps
  <2>3. step[j].at # "done"
    BY <1>6 DEF PayInv, HiringTypeOK, StepOK, LookupPlaces
  <2>4. ~step[i].fetching
    BY <1>2, <2>2, <2>3 DEF InTurn
  <2>5. \A h \in 0 .. j - 1 : step'[h].at = "done"
    BY <1>1, <1>2, <1>3, <1>6, <2>1 DEF InTurn
  <2> QED
    BY <1>2, <1>6, <2>4, <2>5 DEF InTurn
<1> QED
  BY <1>2, <1>5, <1>6 DEF InTurn, Amounts, Priced

-----------------------------------------------------------------------------
\* What a step makes of the value it looked up.
ReadsListing(i) == step[i].at \in {"resolve", "schema", "settle"}

Makes(i, value, u) ==
    /\ Becomes(i, u) /\ Proceeds(step[i], u) /\ ~u.fetching
    /\ u.hired = step[i].hired \/ (Is(i, "resolve") /\ u.hired = value)
    /\ u.at \in Late =>
           /\ Is(i, "settle") /\ u.status = step[i].status /\ u.answer = step[i].answer
           /\ Priced(step[i]) => Amounts(u) = {a.price : a \in value} \ {0}

\* Going on to a place before payment.
LEMMA MovingOn ==
    ASSUME PayInv, NEW i \in Steps, NEW value, NEW at \in Places \ Late, step[i].at \notin Late,
           NEW u, u = Moved(i, at), Becomes(i, u)
    PROVE  Makes(i, value, u)
<1>1. /\ StepOK(step[i]) /\ DOMAIN step[i] = Fields
      /\ step[i].payment = {} /\ step[i].awaiting = FALSE
  BY OwesNothingYet DEF PayInv, HiringTypeOK, StepOK
<1>2. /\ DOMAIN u = Fields
      /\ u.at = at /\ u.fetching = FALSE
      /\ u.hired = step[i].hired /\ u.awaiting = FALSE /\ u.payment = {}
  BY <1>1, MovedFacts
<1>3. StepOK(u)
  BY <1>1, <1>2 DEF StepOK, Late
<1> QED
  BY <1>2, <1>3 DEF Makes, Proceeds

LEMMA EndingHere ==
    ASSUME PayInv, NEW i \in Steps, NEW value, NEW status, step[i].at \notin Late,
           NEW u, u = Ends(i, status), Becomes(i, u)
    PROVE  Makes(i, value, u)
<1>1. /\ StepOK(step[i]) /\ DOMAIN step[i] = Fields
      /\ step[i].payment = {} /\ step[i].awaiting = FALSE
  BY OwesNothingYet DEF PayInv, HiringTypeOK, StepOK
<1>2. /\ DOMAIN u = Fields
      /\ u.at = "anchor" /\ u.fetching = FALSE
      /\ u.hired = step[i].hired /\ u.awaiting = FALSE /\ u.payment = {}
  BY <1>1, EndsFacts
<1>3. StepOK(u)
  BY <1>1, <1>2 DEF StepOK, Late, Paid, Places
<1> QED
  BY <1>2, <1>3 DEF Makes, Proceeds, Late, Paid

LEMMA Resolving ==
    ASSUME PayInv, NEW i \in Steps, NEW value \in MaybeListing, Is(i, "resolve"), Resolve(i, value)
    PROVE  \E u : Makes(i, value, u)
<1>1. step[i].at \notin Late
  BY DEF Is, Late, Paid
<1>2. CASE config.override \/ \E a \in value : a.active
  <2>1. PICK m : m = Moved(i, "schema")
    OBVIOUS
  <2>2. PICK u : u = [m EXCEPT !.hired = value]
    OBVIOUS
  <2>3. Becomes(i, u)
    BY <1>2, <2>1, <2>2 DEF Resolve
  <2>4. /\ StepOK(step[i]) /\ DOMAIN step[i] = Fields
        /\ step[i].payment = {} /\ step[i].awaiting = FALSE
    BY <1>1, OwesNothingYet DEF PayInv, HiringTypeOK, StepOK
  <2>5. /\ DOMAIN m = Fields /\ m.at = "schema" /\ m.fetching = FALSE
        /\ m.awaiting = FALSE /\ m.payment = {}
    BY <2>1, <2>4, MovedFacts
  <2>6. /\ DOMAIN u = Fields /\ u.at = "schema" /\ u.fetching = FALSE /\ u.hired = value
        /\ u.awaiting = FALSE /\ u.payment = {}
    BY <2>2, <2>5 DEF Fields
  <2>7. StepOK(u)
    BY <2>4, <2>6 DEF StepOK, Late, Paid, Places, LookupPlaces
  <2>8. Makes(i, value, u)
    BY <1>1, <2>3, <2>6, <2>7 DEF Makes, Proceeds, Late, Paid
  <2> QED
    BY <2>8
<1>3. CASE ~(config.override \/ \E a \in value : a.active)
  <2>1. PICK u : u = Ends(i, Evidence!StatusFailed)
    OBVIOUS
  <2>2. Becomes(i, u)
    BY <1>3, <2>1 DEF Resolve
  <2> QED
    BY <1>1, <2>1, <2>2, EndingHere
<1> QED
  BY <1>2, <1>3

LEMMA Pricing ==
    ASSUME PayInv, NEW i \in Steps, NEW value \in MaybeListing, Is(i, "settle"), Price(i, value)
    PROVE  \E u : Makes(i, value, u)
<1>1. /\ step[i].at \notin Late
      /\ StepOK(step[i]) /\ DOMAIN step[i] = Fields
      /\ step[i].payment = {} /\ step[i].awaiting = FALSE
  BY OwesNothingYet DEF Is, Late, Paid, PayInv, HiringTypeOK, StepOK
<1>2. PICK unsigned \in BOOLEAN : unsigned = (step[i].status = Evidence!StatusOk /\ step[i].answer.signature = {})
  OBVIOUS
<1>3. PICK amounts : amounts = IF unsigned THEN {0} ELSE {a.price : a \in value} \ {0}
  OBVIOUS
<1>4. PICK at \in {"done", "allocate"} : at = IF unsigned \/ amounts = {} THEN "done" ELSE "allocate"
  OBVIOUS
<1>5. PICK m : m = Moved(i, at)
  OBVIOUS
<1>6. PICK payment : payment = {[amount |-> a, released |-> FALSE] : a \in amounts}
  OBVIOUS
<1>7. PICK u : u = [m EXCEPT !.payment = payment]
  OBVIOUS
<1>8. Becomes(i, u)
  BY <1>2, <1>3, <1>4, <1>5, <1>6, <1>7 DEF Price
<1>9. /\ DOMAIN m = Fields /\ m.at = at /\ m.fetching = FALSE /\ m.hired = step[i].hired
      /\ m.awaiting = FALSE /\ m.status = step[i].status /\ m.answer = step[i].answer
  BY <1>1, <1>5, MovedFacts
<1>10. /\ DOMAIN u = Fields /\ u.at = at /\ u.fetching = FALSE /\ u.hired = step[i].hired
       /\ u.awaiting = FALSE /\ u.status = step[i].status /\ u.answer = step[i].answer
       /\ u.payment = payment
  BY <1>7, <1>9 DEF Fields
<1>11. amounts = {} \/ \E a \in Nat : amounts = {a}
  <2>1. Prices \subseteq Nat
    BY HiringBounds
  <2>2. {a.price : a \in value} = {} \/ \E a \in Nat : {b.price : b \in value} = {a}
    BY <2>1 DEF MaybeListing, Listings
  <2> QED
    BY <1>3, <2>2
<1>12. /\ payment \in Payments
       /\ \A p \in payment : ~p.released
       /\ amounts # {} => payment # {}
       /\ {p.amount : p \in payment} = amounts
  <2>1. CASE amounts = {}
    <3>1. payment = {}
      BY <1>6, <2>1
    <3> QED
      BY <2>1, <3>1 DEF Payments
  <2>2. CASE \E a \in Nat : amounts = {a}
    <3>1. PICK a \in Nat : amounts = {a}
      BY <2>2
    <3>2. PICK p \in [amount : Nat, released : BOOLEAN] : p = [amount |-> a, released |-> FALSE]
      OBVIOUS
    <3>3. payment = {p}
      BY <1>6, <3>1, <3>2
    <3>4. p.amount = a /\ ~p.released
      BY <3>2
    <3> QED
      BY <3>1, <3>3, <3>4 DEF Payments
  <2> QED
    BY <1>11, <2>1, <2>2
<1>13. Amounts(u) = amounts
  BY <1>10, <1>12 DEF Amounts
<1>14. Priced(step[i]) => ~unsigned
  BY <1>2 DEF Priced
<1>15. StepOK(u)
  BY <1>1, <1>4, <1>10, <1>12 DEF StepOK, Late, Paid, Places
<1> QED
  BY <1>1, <1>3, <1>8, <1>10, <1>12, <1>13, <1>14, <1>15 DEF Makes, Proceeds

LEMMA Reading ==
    ASSUME PayInv, NEW i \in Steps, NEW value, step[i].at \in LookupPlaces,
           ReadsListing(i) => value \in MaybeListing,
           Read(i, value)
    PROVE  \E u : Makes(i, value, u)
<1>1. step[i].at \notin Late
  BY DEF LookupPlaces, Late, Paid
<1>2. CASE Is(i, "resolve")
  BY <1>2, Resolving DEF Read, ReadsListing, Is
<1>3. CASE Is(i, "settle")
  BY <1>3, Pricing DEF Read, ReadsListing, Is
<1>4. CASE ~Is(i, "resolve") /\ ~Is(i, "settle")
  <2>1. \/ \E at \in {"resolve", "send"} : Becomes(i, Moved(i, at))
        \/ \E status : Becomes(i, Ends(i, status))
    <3>1. CASE Is(i, "policy")
      BY <3>1 DEF Read, Judge, Is
    <3>2. CASE Is(i, "schema")
      BY <3>2 DEF Read, CheckInputSchema, Is
    <3>3. CASE Is(i, "identity")
      BY <3>3 DEF Read, CheckIdentity, Is
    <3> QED
      BY <1>4, <3>1, <3>2, <3>3 DEF Is, LookupPlaces
  <2>2. CASE \E at \in {"resolve", "send"} : Becomes(i, Moved(i, at))
    <3>1. PICK at \in {"resolve", "send"} : Becomes(i, Moved(i, at))
      BY <2>2
    <3>2. PICK u : u = Moved(i, at) /\ Becomes(i, u)
      BY <3>1
    <3>3. at \in Places \ Late
      BY DEF Places, LookupPlaces, Late, Paid
    <3> QED
      BY <1>1, <3>2, <3>3, MovingOn
  <2>3. CASE \E status : Becomes(i, Ends(i, status))
    <3>1. PICK status : Becomes(i, Ends(i, status))
      BY <2>3
    <3>2. PICK u : u = Ends(i, status) /\ Becomes(i, u)
      BY <3>1
    <3> QED
      BY <1>1, <3>2, EndingHere
  <2> QED
    BY <2>1, <2>2, <2>3
<1> QED
  BY <1>2, <1>3, <1>4

LEMMA LookupKeeps ==
    ASSUME HiringInv, NEW i \in Steps, Lookup(i)
    PROVE  HiringInv'
<1>1. /\ PayInv /\ HireInv /\ StepOK(step[i]) /\ DOMAIN step[i] = Fields
      /\ DOMAIN cache = {"adapter", "stake", "signer"}
      /\ cache["adapter"] \in {{}} \cup {{l} : l \in MaybeListing}
      /\ step[i].at \in LookupPlaces /\ Started(i) /\ ~step[i].fetching
      /\ UNCHANGED <<config, chain, agentKey, changes, cache, escrow, mempool>>
  BY DEF HiringInv, PayInv, HiringTypeOK, StepOK, Lookup, LookingUp, LookupPlaces, OnlySteps
<1>2. step[i].at \notin Late
  BY <1>1 DEF LookupPlaces, Late, Paid
<1>3. ReadsListing(i) => Kind(i) = "adapter"
  BY DEF Kind, ReadsListing, Is
<1>4. CASE step' = [step EXCEPT ![i].fetching = TRUE] /\ Needs(i) /\ cache[Kind(i)] = {}
  <2>1. PICK u : u = [step[i] EXCEPT !.fetching = TRUE]
    OBVIOUS
  <2>2. Becomes(i, u)
    BY <1>4, <2>1 DEF Becomes
  <2>3. /\ DOMAIN u = Fields /\ u.at = step[i].at /\ u.fetching /\ u.hired = step[i].hired
        /\ u.awaiting = FALSE /\ u.payment = {}
    BY <1>1, <1>2, <2>1, OwesNothingYet DEF Fields
  <2>4. StepOK(u)
    BY <1>1, <1>2, <2>3 DEF StepOK
  <2>5. Proceeds(step[i], u)
    BY <1>2, <2>3, <2>4 DEF Proceeds
  <2>6. PayInv' /\ step'[i] = u /\ \A j \in Steps : j # i => step'[j] = step[j]
    BY <1>1, <2>2, <2>5, ProceedingKeepsPay, TypesKept DEF PayInv, HiringTypeOK, Proceeds
  <2>7. ASSUME ~config'.override, ~config'.parallel PROVE \A j \in Steps : InTurn(j)'
    <3>1. \A j \in Steps : InTurn(j)
      BY <1>1, <2>7 DEF HireInv
    <3>2. \A j \in Steps : j # i => InTurn(j)'
      BY <1>1, <1>2, <2>2, <3>1, OthersStayInTurn DEF Late
    <3>3. \A j \in 0 .. i - 1 : j \in Steps /\ j # i
      BY HiringBounds DEF Steps
    <3>4. \A j \in 0 .. i - 1 : step'[j].at = "done"
      BY <1>1, <2>6, <2>7, <3>3 DEF Started, Is
    <3>5. InTurn(i)'
      BY <1>1, <1>2, <1>3, <1>4, <2>3, <2>6, <3>1, <3>4 DEF InTurn, ReadsListing
    <3> QED
      BY <3>2, <3>5
  <2> QED
    BY <2>6, <2>7 DEF HiringInv, HireInv
<1>5. CASE \/ Read(i, {}) /\ (~Needs(i) \/ (Is(i, "policy") /\ Blocked(i)))
           \/ \E kept \in cache[Kind(i)] : Read(i, kept)
  <2>1. PICK value : /\ Read(i, value)
                     /\ \/ value = {} /\ (~Needs(i) \/ Is(i, "policy"))
                        \/ value \in cache[Kind(i)]
    BY <1>5
  <2>2. ReadsListing(i) => value \in MaybeListing
    BY <1>1, <1>3, <2>1 DEF MaybeListing
  <2>3. PICK u : Makes(i, value, u)
    BY <1>1, <2>1, <2>2, Reading
  <2>4. Becomes(i, u) /\ Proceeds(step[i], u) /\ StepOK(u)
    BY <2>3 DEF Makes, Proceeds
  <2>5. PayInv' /\ step'[i] = u
    BY <1>1, <2>4, ProceedingKeepsPay, TypesKept DEF PayInv, HiringTypeOK
  <2>6. ASSUME ~config'.override, ~config'.parallel PROVE \A j \in Steps : InTurn(j)'
    <3>1. \A j \in Steps : InTurn(j)
      BY <1>1, <2>6 DEF HireInv
    <3>2. \A j \in Steps : j # i => InTurn(j)'
      BY <1>1, <1>2, <2>4, <3>1, OthersStayInTurn DEF Late
    <3>3. ReadsListing(i) /\ value \in cache["adapter"] => cache["adapter"] = {value}
      BY <1>1
    <3>4. u.hired # {} => cache["adapter"] = {u.hired}
      <4>1. CASE u.hired = step[i].hired
        BY <3>1, <4>1 DEF InTurn
      <4>2. CASE Is(i, "resolve") /\ u.hired = value
        BY <1>1, <1>3, <2>1, <2>6, <3>3, <4>2 DEF Needs, ReadsListing, Is
      <4> QED
        BY <2>3, <4>1, <4>2 DEF Makes
    <3>5. u.at \in Late =>
              \A hired \in u.hired : Priced(u) => Amounts(u) = {hired.price} \ {0}
      <4> SUFFICES ASSUME u.at \in Late, NEW hired \in u.hired, Priced(u)
                   PROVE  Amounts(u) = {hired.price} \ {0}
        OBVIOUS
      <4>1. /\ Is(i, "settle") /\ Priced(step[i]) /\ u.hired = step[i].hired
            /\ Amounts(u) = {a.price : a \in value} \ {0}
        BY <2>3 DEF Makes, Priced, Is
      <4>2. cache["adapter"] = {step[i].hired}
        BY <3>1, <4>1 DEF InTurn
      <4>3. Needs(i) /\ ~Is(i, "policy") /\ ReadsListing(i)
        BY <4>1 DEF Needs, Priced, Is, ReadsListing
      <4>4. value = step[i].hired
        BY <1>3, <2>1, <4>2, <4>3
      <4>5. step[i].hired = {hired}
        BY <1>1, <4>1 DEF StepOK, MaybeListing
      <4> QED
        BY <4>1, <4>4, <4>5
    <3>6. InTurn(i)'
      BY <1>1, <2>3, <2>5, <3>4, <3>5 DEF InTurn, Makes, Amounts, Priced
    <3> QED
      BY <3>2, <3>6
  <2> QED
    BY <2>5, <2>6 DEF HiringInv, HireInv
<1> QED
  BY <1>4, <1>5 DEF Lookup

LEMMA FetchedKeeps ==
    ASSUME HiringInv, NEW i \in Steps, Fetched(i)
    PROVE  HiringInv'
<1>1. /\ PayInv /\ HireInv /\ StepOK(step[i])
      /\ DOMAIN cache = {"adapter", "stake", "signer"}
      /\ cache["adapter"] \in {{}} \cup {{l} : l \in MaybeListing}
      /\ step[i].at \in LookupPlaces /\ step[i].fetching
      /\ UNCHANGED <<config, chain, agentKey, changes, escrow, mempool>>
  BY DEF HiringInv, PayInv, HiringTypeOK, StepOK, Fetched
<1>2. step[i].at \notin Late
  BY <1>1 DEF LookupPlaces, Late, Paid
<1>3. /\ ReadsListing(i) => Kind(i) = "adapter"
      /\ ~ReadsListing(i) => Kind(i) \in {"stake", "signer"} /\ step[i].at \in {"policy", "identity"}
  BY <1>1 DEF Kind, ReadsListing, Is, LookupPlaces
<1>4. PICK value : /\ value \in {{OnChain(Kind(i))}, {}} /\ Read(i, value)
                   /\ cache' = [cache EXCEPT ![Kind(i)] = {value}]
  BY DEF Fetched, Kept
<1>5. ReadsListing(i) => value \in MaybeListing
  <2> SUFFICES ASSUME ReadsListing(i) PROVE value \in MaybeListing
    OBVIOUS
  <2>1. PICK l : l = [active |-> chain.active, price |-> chain.price]
    OBVIOUS
  <2>2. l \in Listings
    BY <1>1, <2>1 DEF PayInv, HiringTypeOK, Listings
  <2>3. OnChain(Kind(i)) = l
    BY <1>3, <2>1 DEF OnChain
  <2> QED
    BY <1>4, <2>2, <2>3 DEF MaybeListing
<1>6. /\ DOMAIN cache' = {"adapter", "stake", "signer"}
      /\ ReadsListing(i) => cache'["adapter"] = {value}
      /\ ~ReadsListing(i) => cache'["adapter"] = cache["adapter"]
  BY <1>1, <1>3, <1>4
<1>7. cache'["adapter"] \in {{}} \cup {{l} : l \in MaybeListing}
  BY <1>1, <1>5, <1>6
<1>8. PICK u : Makes(i, value, u)
  BY <1>1, <1>4, <1>5, Reading
<1>9. Becomes(i, u) /\ Proceeds(step[i], u) /\ StepOK(u)
  BY <1>8 DEF Makes, Proceeds
<1>10. PayInv' /\ step'[i] = u
  BY <1>1, <1>6, <1>7, <1>9, ProceedingKeepsPay, TypesKept DEF PayInv, HiringTypeOK
<1>11. ASSUME ~config'.override, ~config'.parallel PROVE \A j \in Steps : InTurn(j)'
  <2>1. \A j \in Steps : InTurn(j)
    BY <1>1, <1>11 DEF HireInv
  <2>2. \A j \in Steps : j # i => InTurn(j)'
    BY <1>1, <1>2, <1>3, <1>6, <1>9, <2>1, OthersStayInTurn DEF Late, ReadsListing
  <2>3. ReadsListing(i) => step[i].hired = {}
    BY <1>1, <2>1 DEF InTurn, ReadsListing
  <2>4. u.hired # {} => cache'["adapter"] = {u.hired}
    BY <1>6, <1>8, <2>1, <2>3 DEF Makes, InTurn, ReadsListing, Is
  <2>5. u.at \in Late => u.hired = {}
    BY <1>8, <2>3 DEF Makes, Is, ReadsListing
  <2>6. InTurn(i)'
    BY <1>8, <1>10, <2>4, <2>5 DEF InTurn, Makes
  <2> QED
    BY <2>2, <2>6
<1> QED
  BY <1>10, <1>11 DEF HiringInv, HireInv

-----------------------------------------------------------------------------
\* A step goes on without reading the chain and without coming to owe anything.
LEMMA ProceedingKeeps ==
    ASSUME HiringInv, NEW i \in Steps, NEW u, Proceeds(step[i], u), Becomes(i, u),
           u.at \notin Late, ~u.fetching, u.hired = step[i].hired,
           UNCHANGED <<config, chain, cache, escrow, mempool>>
    PROVE  HiringInv'
<1>1. /\ PayInv /\ HireInv /\ step[i].at # "done"
      /\ DOMAIN cache = {"adapter", "stake", "signer"}
      /\ cache["adapter"] \in {{}} \cup {{l} : l \in MaybeListing}
      /\ DOMAIN step = Steps
  BY DEF HiringInv, PayInv, HiringTypeOK, Proceeds, Late
<1>2. PayInv' /\ step'[i] = u
  BY <1>1, ProceedingKeepsPay DEF Becomes
<1>3. ASSUME ~config'.override, ~config'.parallel PROVE \A j \in Steps : InTurn(j)'
  <2>1. \A j \in Steps : InTurn(j)
    BY <1>1, <1>3 DEF HireInv
  <2>2. \A j \in Steps : j # i => InTurn(j)'
    BY <1>1, <2>1, OthersStayInTurn
  <2>3. InTurn(i)'
    BY <1>2, <2>1 DEF InTurn
  <2> QED
    BY <2>2, <2>3
<1> QED
  BY <1>2, <1>3 DEF HiringInv, HireInv

LEMMA MovingOnKeeps ==
    ASSUME HiringInv, NEW i \in Steps, NEW at \in Places \ Late, step[i].at \notin Late,
           NEW u, \/ u = Moved(i, at)
                  \/ \E status : u = Ends(i, status),
           Becomes(i, u), OnlySteps
    PROVE  HiringInv'
<1>1. PayInv
  BY DEF HiringInv
<1>2. Makes(i, {}, u)
  BY <1>1, MovingOn, EndingHere
<1>3. u.hired = step[i].hired /\ u.at \notin Late
  <2>1. DOMAIN step[i] = Fields
    BY <1>1 DEF PayInv, HiringTypeOK, StepOK
  <2>2. CASE u = Moved(i, at)
    <3>1. u.at = at /\ u.hired = step[i].hired
      BY <2>1, <2>2, MovedFacts
    <3> QED
      BY <3>1
  <2>3. CASE \E status : u = Ends(i, status)
    <3>1. PICK status : u = Ends(i, status)
      BY <2>3
    <3>2. u.at = "anchor" /\ u.hired = step[i].hired
      BY <2>1, <3>1, EndsFacts
    <3> QED
      BY <3>2 DEF Late, Paid
  <2> QED
    BY <2>2, <2>3
<1> QED
  BY <1>2, <1>3, ProceedingKeeps DEF Makes, OnlySteps

LEMMA TryAgainKeeps ==
    ASSUME HiringInv, NEW i \in Steps, NEW retryable, Is(i, "waiting"), TryAgain(i, retryable), OnlySteps
    PROVE  HiringInv'
<1>1. step[i].at \notin Late /\ "send" \in Places \ Late
  BY DEF Is, Late, Paid, Places
<1>2. PICK u : /\ u = Moved(i, "send") \/ u = Ends(i, Evidence!StatusFailed)
               /\ Becomes(i, u)
  BY DEF TryAgain
<1> QED
  BY <1>1, <1>2, MovingOnKeeps

LEMMA SendKeeps ==
    ASSUME HiringInv, NEW i \in Steps, Send(i)
    PROVE  HiringInv'
<1>1. /\ PayInv /\ step[i].at = "send" /\ step[i].at \notin Late
      /\ StepOK(step[i]) /\ DOMAIN step[i] = Fields
      /\ UNCHANGED <<config, chain, cache, escrow, mempool>>
  BY DEF HiringInv, PayInv, HiringTypeOK, StepOK, Send, Is, Late, Paid, OnlySteps
<1>2. step[i].payment = {} /\ step[i].awaiting = FALSE /\ step[i].fetching = FALSE
  BY <1>1, OwesNothingYet DEF StepOK, LookupPlaces
<1>3. PICK u : u = [[[step[i] EXCEPT !.at = "waiting"] EXCEPT !.attempt = @ + 1] EXCEPT !.timer = Timeout]
  OBVIOUS
<1>4. Becomes(i, u)
  <2>1. i \in DOMAIN step
    BY DEF HiringInv, PayInv, HiringTypeOK
  <2>2. step' = [step EXCEPT ![i].at = "waiting", ![i].attempt = @ + 1, ![i].timer = Timeout]
    BY DEF Send
  <2> QED
    BY ONLY <1>3, <2>1, <2>2 DEF Becomes
<1>5. /\ DOMAIN u = Fields /\ u.at = "waiting" /\ u.fetching = FALSE
      /\ u.hired = step[i].hired /\ u.awaiting = FALSE /\ u.payment = {}
  BY <1>1, <1>2, <1>3 DEF Fields
<1>6. StepOK(u)
  BY <1>1, <1>5 DEF StepOK, Places, Late, Paid
<1>7. Proceeds(step[i], u) /\ u.at \notin Late
  BY <1>1, <1>5, <1>6 DEF Proceeds, Late, Paid
<1> QED
  BY <1>1, <1>4, <1>5, <1>7, ProceedingKeeps

LEMMA AnswerKeeps ==
    ASSUME HiringInv, NEW i \in Steps, AgentAnswers(i)
    PROVE  HiringInv'
<1>1. /\ PayInv /\ Is(i, "waiting") /\ step[i].at \notin Late
      /\ StepOK(step[i]) /\ DOMAIN step[i] = Fields
      /\ OnlySteps /\ UNCHANGED <<config, chain, cache, escrow, mempool>>
  BY DEF HiringInv, PayInv, HiringTypeOK, StepOK, AgentAnswers, Is, Late, Paid, OnlySteps
<1>2. \/ \E retryable : TryAgain(i, retryable)
      \/ Becomes(i, Ends(i, Evidence!StatusFailed))
      \/ \E doc : Becomes(i, [Moved(i, "identity") EXCEPT !.answer = doc])
  BY DEF AgentAnswers
<1>3. CASE \E retryable : TryAgain(i, retryable)
  BY <1>1, <1>3, TryAgainKeeps
<1>4. CASE Becomes(i, Ends(i, Evidence!StatusFailed))
  <2>1. PICK u : u = Ends(i, Evidence!StatusFailed) /\ Becomes(i, u)
    BY <1>4
  <2>2. "anchor" \in Places \ Late
    BY DEF Places, Late, Paid
  <2> QED
    BY <1>1, <2>1, <2>2, MovingOnKeeps
<1>5. CASE \E doc : Becomes(i, [Moved(i, "identity") EXCEPT !.answer = doc])
  <2>1. PICK doc : Becomes(i, [Moved(i, "identity") EXCEPT !.answer = doc])
    BY <1>5
  <2>2. PICK m : m = Moved(i, "identity")
    OBVIOUS
  <2>3. PICK u : u = [m EXCEPT !.answer = doc] /\ Becomes(i, u)
    BY <2>1, <2>2
  <2>4. step[i].payment = {} /\ step[i].awaiting = FALSE
    BY <1>1, OwesNothingYet
  <2>5. /\ DOMAIN m = Fields /\ m.at = "identity" /\ m.fetching = FALSE
        /\ m.hired = step[i].hired /\ m.awaiting = FALSE /\ m.payment = {}
    BY <1>1, <2>2, <2>4, MovedFacts
  <2>6. /\ DOMAIN u = Fields /\ u.at = "identity" /\ u.fetching = FALSE
        /\ u.hired = step[i].hired /\ u.awaiting = FALSE /\ u.payment = {}
    BY <2>3, <2>5 DEF Fields
  <2>7. StepOK(u)
    BY <1>1, <2>6 DEF StepOK, Places, LookupPlaces, Late, Paid
  <2>8. Proceeds(step[i], u) /\ u.at \notin Late
    BY <1>1, <2>6, <2>7 DEF Proceeds, Late, Paid
  <2> QED
    BY <1>1, <2>3, <2>6, <2>8, ProceedingKeeps
<1> QED
  BY <1>2, <1>3, <1>4, <1>5

LEMMA TricklesKeeps ==
    ASSUME HiringInv, NEW i \in Steps, Trickles(i)
    PROVE  HiringInv'
<1>1. /\ PayInv /\ step[i].at = "waiting" /\ step[i].at \notin Late
      /\ StepOK(step[i]) /\ DOMAIN step[i] = Fields
      /\ UNCHANGED <<config, chain, cache, escrow, mempool>>
  BY DEF HiringInv, PayInv, HiringTypeOK, StepOK, Trickles, Is, Late, Paid, OnlySteps
<1>2. step[i].payment = {} /\ step[i].awaiting = FALSE /\ step[i].fetching = FALSE
  BY <1>1, OwesNothingYet DEF StepOK, LookupPlaces
<1>3. PICK u : u = [[step[i] EXCEPT !.timer = Timeout] EXCEPT !.trickles = @ + 1]
  OBVIOUS
<1>4. Becomes(i, u)
  <2>1. i \in DOMAIN step
    BY DEF HiringInv, PayInv, HiringTypeOK
  <2>2. step' = [step EXCEPT ![i].timer = Timeout, ![i].trickles = @ + 1]
    BY DEF Trickles
  <2> QED
    BY ONLY <1>3, <2>1, <2>2 DEF Becomes
<1>5. /\ DOMAIN u = Fields /\ u.at = "waiting" /\ u.fetching = FALSE
      /\ u.hired = step[i].hired /\ u.awaiting = FALSE /\ u.payment = {}
  BY <1>1, <1>2, <1>3 DEF Fields
<1>6. StepOK(u)
  BY <1>1, <1>5 DEF StepOK, Places, Late, Paid
<1>7. Proceeds(step[i], u) /\ u.at \notin Late
  BY <1>1, <1>5, <1>6 DEF Proceeds, Late, Paid
<1> QED
  BY <1>1, <1>4, <1>5, <1>7, ProceedingKeeps

LEMMA AnchorKeeps ==
    ASSUME HiringInv, NEW i \in Steps, Anchor(i)
    PROVE  HiringInv'
<1>1. PICK u : u = Moved(i, "settle") /\ Becomes(i, u)
  BY DEF Anchor
<1>2. step[i].at \notin Late /\ "settle" \in Places \ Late /\ OnlySteps
  BY DEF Anchor, Is, Late, Paid, Places, LookupPlaces
<1> QED
  BY <1>1, <1>2, MovingOnKeeps

-----------------------------------------------------------------------------
\* What is decided of the steps stays as it is.
SameStep(s, u) ==
    /\ DOMAIN u = DOMAIN s
    /\ u.at = s.at /\ u.fetching = s.fetching /\ u.hired = s.hired /\ u.awaiting = s.awaiting
    /\ u.payment = s.payment /\ u.status = s.status /\ u.answer = s.answer

LEMMA SameStepsKeep ==
    ASSUME HiringInv, DOMAIN step' = Steps, \A i \in Steps : SameStep(step[i], step'[i]),
           UNCHANGED <<config, cache, mempool>>,
           DOMAIN chain' = DOMAIN chain, chain'.active \in BOOLEAN, chain'.price \in Prices,
           DOMAIN escrow' = DOMAIN escrow,
           escrow'.paid = escrow.paid, escrow'.allocation = escrow.allocation
    PROVE  HiringInv'
<1>1. PayInv /\ HireInv
  BY DEF HiringInv
<1>2. ASSUME NEW i \in Steps PROVE StepOK(step[i])' /\ AccountOK(step[i], escrow.paid[i], escrow.allocation[i])'
  BY <1>1 DEF PayInv, HiringTypeOK, StepOK, AccountOK, SameStep, Amounts
<1>3. HiringTypeOK'
  BY <1>1, <1>2 DEF PayInv, HiringTypeOK
<1>4. ASSUME NEW k \in DOMAIN mempool' PROVE TxOK(mempool[k])'
  <2>1. mempool[k] \in Txs /\ TxOK(mempool[k]) /\ mempool' = mempool
    <3>1. mempool \in Seq(Txs) /\ mempool' = mempool
      BY <1>1 DEF PayInv, HiringTypeOK
    <3> QED
      BY <1>1, <3>1 DEF PayInv
  <2>2. PICK t \in Txs : t = mempool[k] /\ t = mempool'[k]
    BY <2>1
  <2>3. t.step \in Steps /\ TxOK(t)
    BY <2>1, <2>2 DEF Txs
  <2> QED
    BY <2>2, <2>3 DEF TxOK, SameStep, Amounts
<1>5. PayInv'
  BY <1>1, <1>2, <1>3, <1>4 DEF PayInv
<1>6. ASSUME ~config'.override, ~config'.parallel, NEW i \in Steps PROVE InTurn(i)'
  <2>1. InTurn(i) /\ \A j \in 0 .. i - 1 : j \in Steps
    BY <1>1, <1>6, HiringBounds DEF HireInv, Steps
  <2> QED
    BY <2>1 DEF InTurn, SameStep, Amounts, Priced
<1> QED
  BY <1>5, <1>6 DEF HiringInv, HireInv

LEMMA TickKeeps ==
    ASSUME HiringInv, Tick
    PROVE  HiringInv'
<1>1. /\ \A i \in Steps : DOMAIN step[i] = Fields
      /\ UNCHANGED <<config, chain, cache, escrow, mempool>>
      /\ chain.active \in BOOLEAN /\ chain.price \in Prices
  BY DEF HiringInv, PayInv, HiringTypeOK, StepOK, Tick, OnlySteps
<1>2. ASSUME NEW i \in Steps PROVE SameStep(step[i], step'[i])
  <2>1. PICK u : u = [step[i] EXCEPT !.timer = Less(@)]
    OBVIOUS
  <2>2. step'[i] = step[i] \/ step'[i] = u
    BY <2>1 DEF Tick
  <2>3. SameStep(step[i], u)
    BY <1>1, <2>1 DEF SameStep, Fields
  <2> QED
    BY <2>2, <2>3 DEF SameStep
<1>3. DOMAIN step' = Steps
  BY DEF Tick
<1> QED
  BY <1>1, <1>2, <1>3, SameStepsKeep

LEMMA OthersKeep ==
    ASSUME HiringInv, OwnerActs \/ FunderTakesBack \/ UNCHANGED vars
    PROVE  HiringInv'
<1>1. /\ DOMAIN step = Steps /\ UNCHANGED <<config, step, cache, mempool>>
      /\ DOMAIN chain = {"active", "price", "signer", "stake"}
      /\ chain.active \in BOOLEAN /\ chain.price \in Prices
      /\ DOMAIN escrow = {"balance", "closed", "paid", "allocation"}
  BY DEF HiringInv, PayInv, HiringTypeOK, OwnerActs, FunderTakesBack, vars
<1>2. \A i \in Steps : SameStep(step[i], step'[i])
  BY <1>1 DEF SameStep
<1>3. DOMAIN chain' = DOMAIN chain /\ chain'.active \in BOOLEAN /\ chain'.price \in Prices
  <2>1. CASE UNCHANGED chain
    BY <1>1, <2>1
  <2>2. CASE chain' = [chain EXCEPT !.stake = 0]
    BY <1>1, <2>2
  <2>3. CASE \E p \in Prices, k \in Keys, a \in BOOLEAN :
                 chain' = [chain EXCEPT !.price = p, !.signer = k, !.active = a]
    <3>1. PICK p \in Prices, k \in Keys, a \in BOOLEAN :
                 chain' = [chain EXCEPT !.price = p, !.signer = k, !.active = a]
      BY <2>3
    <3> QED
      BY <1>1, <3>1
  <2> QED
    BY <2>1, <2>2, <2>3 DEF OwnerActs, FunderTakesBack, vars
<1>4. /\ DOMAIN escrow' = DOMAIN escrow
      /\ escrow'.paid = escrow.paid /\ escrow'.allocation = escrow.allocation
  <2>1. CASE UNCHANGED escrow
    BY <2>1
  <2>2. CASE escrow' = [escrow EXCEPT !.closed = TRUE, !.balance = 0]
    BY <1>1, <2>2
  <2> QED
    BY <2>1, <2>2 DEF OwnerActs, FunderTakesBack, vars
<1> QED
  BY <1>1, <1>2, <1>3, <1>4, SameStepsKeep

-----------------------------------------------------------------------------
\* Paying.  What a step owes is not changed by being paid or not.
Pays(s, u) ==
    /\ StepOK(u) /\ s.at \in Paid /\ u.at \in Late
    /\ u.hired = s.hired /\ u.status = s.status /\ u.answer = s.answer
    /\ Amounts(u) = Amounts(s)

LEMMA PayingKeepsHire ==
    ASSUME HiringInv, NEW i \in Steps, NEW u, Pays(step[i], u), Becomes(i, u),
           UNCHANGED <<config, cache>>
    PROVE  HireInv'
<1>1. /\ PayInv /\ HireInv /\ step[i].at # "done" /\ step[i].at \in Late
      /\ DOMAIN step = Steps /\ ~u.fetching
  BY DEF HiringInv, PayInv, HiringTypeOK, Pays, Late, Paid, StepOK, LookupPlaces
<1>2. step'[i] = u
  BY <1>1 DEF Becomes
<1> SUFFICES ASSUME ~config'.override, ~config'.parallel PROVE \A j \in Steps : InTurn(j)'
  BY DEF HireInv
<1>3. \A j \in Steps : InTurn(j)
  BY <1>1 DEF HireInv
<1>4. \A j \in Steps : j # i => InTurn(j)'
  BY <1>1, <1>3, OthersStayInTurn
<1>5. InTurn(i)
  BY <1>3
<1>6. Priced(u) => Priced(step[i])
  BY DEF Pays, Priced
<1>7. u.hired # {} => cache'["adapter"] = {u.hired}
  BY <1>5 DEF InTurn, Pays
<1>8. \A hired \in u.hired : Priced(u) => Amounts(u) = {hired.price} \ {0}
  BY <1>1, <1>5, <1>6 DEF InTurn, Pays
<1>9. Priced(step[i])' <=> Priced(u)
  BY <1>2 DEF Priced
<1>10. Amounts(step[i])' = Amounts(u)
  BY <1>2 DEF Amounts
<1>11. InTurn(i)'
  BY <1>1, <1>2, <1>7, <1>8, <1>9, <1>10 DEF InTurn
<1> QED
  BY <1>4, <1>11

\* The transactions that remain under way, or are added, are in order, if none
\* that is waited for is of a step that has stopped waiting.
LEMMA PayingKeepsTxs ==
    ASSUME PayInv, NEW i \in Steps, NEW u, Pays(step[i], u), Becomes(i, u),
           NEW tx \in Txs, TxOK(tx),
           tx.awaited /\ tx.step = i => u.awaiting /\ u.at = tx.op
    PROVE  TxOK(tx)'
<1>1. /\ step'[i] = u /\ \A j \in Steps : j # i => step'[j] = step[j]
      /\ tx.step \in Steps
  BY DEF PayInv, HiringTypeOK, Becomes, Txs
<1>2. CASE tx.step = i
  BY <1>1, <1>2 DEF TxOK, Pays, Amounts
<1>3. CASE tx.step # i
  BY <1>1, <1>3 DEF TxOK, Amounts
<1> QED
  BY <1>2, <1>3

\* A step stops paying, with no transaction of its own still waited for.
LEMMA Stopping ==
    ASSUME PayInv, NEW i \in Steps, step[i].at \in Paid,
           NEW u, DOMAIN u = Fields, u.at = "done", u.fetching = FALSE, u.awaiting = FALSE,
           u.hired = step[i].hired, u.payment = step[i].payment,
           u.status = step[i].status, u.answer = step[i].answer
    PROVE  Pays(step[i], u)
<1>1. StepOK(step[i])
  BY DEF PayInv, HiringTypeOK
<1> QED
  BY <1>1 DEF Pays, StepOK, Amounts, Late, Paid, Places

LEMMA AccountsUntouched ==
    ASSUME PayInv, NEW i \in Steps, NEW u, u.payment = step[i].payment, Becomes(i, u), UNCHANGED escrow
    PROVE  \A j \in Steps : AccountOK(step[j], escrow.paid[j], escrow.allocation[j])'
<1>1. /\ step'[i] = u /\ \A j \in Steps : j # i => step'[j] = step[j]
  BY DEF PayInv, HiringTypeOK, Becomes
<1>2. ASSUME NEW j \in Steps PROVE AccountOK(step[j], escrow.paid[j], escrow.allocation[j])'
  <2>1. step'[j].payment = step[j].payment
    BY <1>1
  <2> QED
    BY <2>1 DEF PayInv, AccountOK, Amounts
<1> QED
  BY <1>2

LEMMA GiveUpKeeps ==
    ASSUME HiringInv, NEW i \in Steps, GiveUp(i)
    PROVE  HiringInv'
<1>1. /\ PayInv /\ StepOK(step[i]) /\ DOMAIN step[i] = Fields
      /\ DOMAIN cache = {"adapter", "stake", "signer"}
      /\ cache["adapter"] \in {{}} \cup {{l} : l \in MaybeListing}
      /\ step[i].at \in Paid /\ mempool \in Seq(Txs)
      /\ UNCHANGED <<config, chain, cache, escrow>>
  BY DEF HiringInv, PayInv, HiringTypeOK, StepOK, GiveUp
<1>2. PICK m : m = Moved(i, "done")
  OBVIOUS
<1>3. PICK u : u = [m EXCEPT !.awaiting = FALSE] /\ Becomes(i, u)
  BY <1>2 DEF GiveUp
<1>4. /\ DOMAIN m = Fields /\ m.at = "done" /\ m.fetching = FALSE
      /\ m.hired = step[i].hired /\ m.payment = step[i].payment
      /\ m.status = step[i].status /\ m.answer = step[i].answer
  BY <1>1, <1>2, MovedFacts
<1>5. /\ DOMAIN u = Fields /\ u.at = "done" /\ u.fetching = FALSE /\ u.awaiting = FALSE
      /\ u.hired = step[i].hired /\ u.payment = step[i].payment
      /\ u.status = step[i].status /\ u.answer = step[i].answer
  BY <1>3, <1>4 DEF Fields
<1>6. Pays(step[i], u)
  BY <1>1, <1>5, Stopping
<1>7. ASSUME NEW k \in DOMAIN mempool
      PROVE  \E tx \in Txs : /\ tx = mempool'[k]
                             /\ tx.op = mempool[k].op /\ tx.step = mempool[k].step
                             /\ tx.amount = mempool[k].amount
                             /\ tx.awaited = (mempool[k].awaited /\ mempool[k].step # i)
  <2>1. PICK t \in Txs : t = mempool[k]
    BY <1>1
  <2>2. mempool'[k] = [t EXCEPT !.awaited = @ /\ t.step # i]
    BY <2>1 DEF GiveUp
  <2>3. [t EXCEPT !.awaited = @ /\ t.step # i] \in Txs
    BY DEF Txs
  <2> QED
    BY <2>1, <2>2, <2>3 DEF Txs
<1>8. DOMAIN mempool' = DOMAIN mempool /\ mempool' \in Seq(Txs)
  <2>1. DOMAIN mempool = 1 .. Len(mempool) /\ Len(mempool) \in Nat
    BY <1>1
  <2>2. mempool' = [k \in DOMAIN mempool |-> mempool'[k]]
    BY DEF GiveUp
  <2>3. mempool' \in [1 .. Len(mempool) -> Txs]
    BY <1>7, <2>1, <2>2
  <2> QED
    BY <2>1, <2>3, SeqDef
<1>9. ASSUME NEW k \in DOMAIN mempool' PROVE TxOK(mempool[k])'
  <2>1. k \in DOMAIN mempool /\ TxOK(mempool[k])
    BY <1>1, <1>8 DEF PayInv
  <2>2. PICK tx \in Txs : /\ tx = mempool'[k]
                          /\ tx.op = mempool[k].op /\ tx.step = mempool[k].step
                          /\ tx.amount = mempool[k].amount
                          /\ tx.awaited = (mempool[k].awaited /\ mempool[k].step # i)
    BY <1>7, <2>1
  <2>3. TxOK(tx)
    BY <2>1, <2>2 DEF TxOK
  <2>4. TxOK(tx)'
    BY <1>1, <1>3, <1>6, <2>2, <2>3, PayingKeepsTxs
  <2> QED
    BY <2>2, <2>4 DEF TxOK
<1>10. ASSUME NEW k \in DOMAIN mempool', NEW l \in DOMAIN mempool',
              mempool'[k].awaited, mempool'[l].awaited, mempool'[k].step = mempool'[l].step
       PROVE  k = l
  <2>1. /\ mempool[k].awaited /\ mempool[k].step = mempool'[k].step
        /\ mempool[l].awaited /\ mempool[l].step = mempool'[l].step
    BY <1>7, <1>8, <1>10
  <2> QED
    BY <1>1, <1>8, <1>10, <2>1 DEF PayInv
<1>11. HiringTypeOK'
  BY <1>1, <1>3, <1>6, <1>8, TypesKept DEF PayInv, Pays
<1>12. \A j \in Steps : AccountOK(step[j], escrow.paid[j], escrow.allocation[j])'
  BY <1>1, <1>3, <1>5, AccountsUntouched
<1>13. PayInv'
  BY <1>9, <1>10, <1>11, <1>12 DEF PayInv
<1> QED
  BY <1>1, <1>3, <1>6, <1>13, PayingKeepsHire DEF HiringInv

\* What a step sends moves what it owes.
LEMMA AmountIsOwed ==
    ASSUME NEW i \in Steps, StepOK(step[i]), step[i].payment # {}
    PROVE  Amount(i) \in Amounts(step[i]) /\ Amount(i) \in Nat
<1>1. PICK q \in step[i].payment : q = CHOOSE p \in step[i].payment : TRUE
  OBVIOUS
<1>2. q.amount \in Nat
  BY DEF StepOK, Payments
<1> QED
  BY <1>1, <1>2 DEF Amount, Amounts

LEMMA SendPaymentKeeps ==
    ASSUME HiringInv, NEW i \in Steps, SendPayment(i)
    PROVE  HiringInv'
<1>1. /\ PayInv /\ StepOK(step[i]) /\ DOMAIN step[i] = Fields
      /\ DOMAIN cache = {"adapter", "stake", "signer"}
      /\ cache["adapter"] \in {{}} \cup {{l} : l \in MaybeListing}
      /\ step[i].at \in Paid /\ step[i].awaiting = FALSE /\ step[i].payment # {}
      /\ step[i].fetching = FALSE /\ mempool \in Seq(Txs)
      /\ UNCHANGED <<config, chain, cache, escrow>>
  BY DEF HiringInv, PayInv, HiringTypeOK, StepOK, SendPayment, Paying, Paid, LookupPlaces
<1>2. PICK tx : tx = [op |-> step[i].at, step |-> i, amount |-> Amount(i), awaited |-> TRUE]
  OBVIOUS
<1>3. /\ tx \in Txs /\ tx.op = step[i].at /\ tx.step = i /\ tx.awaited
      /\ tx.amount \in Amounts(step[i])
  BY <1>1, <1>2, AmountIsOwed DEF Txs
<1>4. CASE mempool' = Append(mempool, tx) /\ step' = [step EXCEPT ![i].awaiting = TRUE]
  <2>1. PICK u : u = [step[i] EXCEPT !.awaiting = TRUE]
    OBVIOUS
  <2>2. Becomes(i, u)
    BY <1>4, <2>1 DEF Becomes
  <2>3. /\ DOMAIN u = Fields /\ u.at = step[i].at /\ u.fetching = FALSE /\ u.awaiting = TRUE
        /\ u.hired = step[i].hired /\ u.payment = step[i].payment
        /\ u.status = step[i].status /\ u.answer = step[i].answer
    BY <1>1, <2>1 DEF Fields
  <2>4. Pays(step[i], u)
    BY <1>1, <2>3 DEF Pays, StepOK, Amounts, Late
  <2>5. /\ mempool' \in Seq(Txs) /\ Len(mempool) \in Nat
        /\ DOMAIN mempool' = 1 .. Len(mempool) + 1 /\ DOMAIN mempool = 1 .. Len(mempool)
        /\ mempool'[Len(mempool) + 1] = tx
        /\ \A k \in DOMAIN mempool : mempool'[k] = mempool[k] /\ mempool[k] \in Txs
    BY <1>1, <1>3, <1>4
  <2>6. \A k \in DOMAIN mempool : mempool[k].awaited => mempool[k].step # i
    BY <1>1 DEF PayInv, TxOK
  <2>7. HiringTypeOK' /\ step'[i] = u
    BY <1>1, <2>2, <2>4, <2>5, TypesKept DEF PayInv, Pays
  <2>8. ASSUME NEW k \in DOMAIN mempool' PROVE TxOK(mempool[k])'
    <3>1. CASE k = Len(mempool) + 1
      <4>1. mempool'[k] = tx
        BY <2>5, <3>1
      <4>2. tx.amount \in Amounts(step[i])'
        BY <1>3, <2>3, <2>7 DEF Amounts
      <4> QED
        BY <1>3, <2>3, <2>7, <4>1, <4>2 DEF TxOK, Amounts
    <3>2. CASE k \in DOMAIN mempool
      <4>1. PICK t \in Txs : t = mempool[k] /\ t = mempool'[k]
        BY <2>5, <3>2
      <4>2. TxOK(t)
        BY <1>1, <3>2, <4>1 DEF PayInv
      <4>3. ~(t.awaited /\ t.step = i)
        BY <2>6, <3>2, <4>1
      <4>4. TxOK(t)'
        BY <1>1, <2>2, <2>4, <4>2, <4>3, PayingKeepsTxs
      <4> QED
        BY <4>1, <4>4 DEF TxOK
    <3> QED
      BY <2>5, <3>1, <3>2
  <2>9. ASSUME NEW k \in DOMAIN mempool', NEW l \in DOMAIN mempool',
               mempool'[k].awaited, mempool'[l].awaited, mempool'[k].step = mempool'[l].step
        PROVE  k = l
    <3>1. k \in DOMAIN mempool <=> k # Len(mempool) + 1
      BY <2>5
    <3>2. l \in DOMAIN mempool <=> l # Len(mempool) + 1
      BY <2>5
    <3>3. CASE k \in DOMAIN mempool /\ l \in DOMAIN mempool
      BY <1>1, <2>5, <2>9, <3>3 DEF PayInv
    <3>4. CASE k \notin DOMAIN mempool /\ l \in DOMAIN mempool
      BY <1>3, <2>5, <2>6, <2>9, <3>1, <3>4
    <3>5. CASE k \in DOMAIN mempool /\ l \notin DOMAIN mempool
      BY <1>3, <2>5, <2>6, <2>9, <3>2, <3>5
    <3>6. CASE k \notin DOMAIN mempool /\ l \notin DOMAIN mempool
      BY <3>1, <3>2, <3>6
    <3> QED
      BY <3>3, <3>4, <3>5, <3>6
  <2>10. \A j \in Steps : AccountOK(step[j], escrow.paid[j], escrow.allocation[j])'
    BY <1>1, <2>2, <2>3, AccountsUntouched
  <2>11. PayInv'
    BY <2>7, <2>8, <2>9, <2>10 DEF PayInv
  <2> QED
    BY <1>1, <2>2, <2>4, <2>11, PayingKeepsHire DEF HiringInv
<1>5. CASE Becomes(i, Moved(i, "done")) /\ UNCHANGED mempool
  <2>1. PICK u : u = Moved(i, "done") /\ Becomes(i, u)
    BY <1>5
  <2>2. /\ DOMAIN u = Fields /\ u.at = "done" /\ u.fetching = FALSE /\ u.awaiting = FALSE
        /\ u.hired = step[i].hired /\ u.payment = step[i].payment
        /\ u.status = step[i].status /\ u.answer = step[i].answer
    BY <1>1, <2>1, MovedFacts
  <2>3. Pays(step[i], u)
    BY <1>1, <2>2, Stopping
  <2>4. HiringTypeOK'
    BY <1>1, <1>5, <2>1, <2>3, TypesKept DEF PayInv, Pays
  <2>5. \A j \in Steps : AccountOK(step[j], escrow.paid[j], escrow.allocation[j])'
    BY <1>1, <2>1, <2>2, AccountsUntouched
  <2>6. ASSUME NEW k \in DOMAIN mempool' PROVE TxOK(mempool[k])'
    <3>1. PICK t \in Txs : t = mempool[k] /\ t = mempool'[k] /\ TxOK(t)
      <4>1. mempool' = mempool /\ TxOK(mempool[k])
        BY <1>1, <1>5 DEF PayInv
      <4>2. mempool[k] \in Txs
        BY <1>1, <4>1
      <4> QED
        BY <4>1, <4>2
    <3>2. ~(t.awaited /\ t.step = i)
      BY <1>1, <3>1 DEF TxOK
    <3>3. TxOK(t)'
      BY <1>1, <2>1, <2>3, <3>1, <3>2, PayingKeepsTxs
    <3> QED
      BY <3>1, <3>3 DEF TxOK
  <2>7. PayInv'
    BY <1>1, <1>5, <2>4, <2>5, <2>6 DEF PayInv
  <2> QED
    BY <1>1, <2>1, <2>3, <2>7, PayingKeepsHire DEF HiringInv
<1> QED
  BY <1>1, <1>2, <1>4, <1>5 DEF SendPayment

-----------------------------------------------------------------------------
\* A transaction is mined.
MarkedAs(payment, b) == {[p EXCEPT !.released = b] : p \in payment}

LEMMA Marked ==
    ASSUME NEW payment \in Payments, NEW b \in BOOLEAN
    PROVE  /\ MarkedAs(payment, b) \in Payments
           /\ payment # {} => MarkedAs(payment, b) # {}
           /\ \A p \in MarkedAs(payment, b) : p.released = b
           /\ AmountsIn(MarkedAs(payment, b)) = AmountsIn(payment)
<1> SUFFICES ASSUME NEW marked, marked = MarkedAs(payment, b)
             PROVE  /\ marked \in Payments
                    /\ payment # {} => marked # {}
                    /\ \A p \in marked : p.released = b
                    /\ AmountsIn(marked) = AmountsIn(payment)
  OBVIOUS
<1>0. marked = {[p EXCEPT !.released = b] : p \in payment}
  BY DEF MarkedAs
<1>1. CASE payment = {}
  <2>1. marked = {}
    BY <1>0, <1>1
  <2> QED
    BY <1>1, <2>1 DEF Payments, AmountsIn
<1>2. CASE \E p \in [amount : Nat, released : BOOLEAN] : payment = {p}
  <2>1. PICK p \in [amount : Nat, released : BOOLEAN] : payment = {p}
    BY <1>2
  <2>2. PICK q \in [amount : Nat, released : BOOLEAN] : q = [p EXCEPT !.released = b]
    OBVIOUS
  <2>3. q.amount = p.amount /\ q.released = b
    BY <2>2
  <2>4. marked = {q}
    BY <1>0, <2>1, <2>2
  <2>5. AmountsIn(marked) = {q.amount} /\ AmountsIn(payment) = {p.amount}
    BY <2>1, <2>4 DEF AmountsIn
  <2> QED
    BY <2>1, <2>3, <2>4, <2>5 DEF Payments
<1> QED
  BY <1>1, <1>2 DEF Payments

\* What the escrow does with a transaction of step i.
LEMMA EscrowMoves ==
    ASSUME PayInv, NEW tx \in Txs, NEW passed \in BOOLEAN, passed = Passes(tx),
           escrow' = IF passed THEN Executed(tx) ELSE escrow
    PROVE  /\ DOMAIN escrow' = {"balance", "closed", "paid", "allocation"}
           /\ escrow'.paid \in [Steps -> Nat] /\ escrow'.allocation \in [Steps -> Nat]
           /\ \A j \in Steps : j # tx.step => /\ escrow'.paid[j] = escrow.paid[j]
                                              /\ escrow'.allocation[j] = escrow.allocation[j]
           /\ ~passed => UNCHANGED escrow
           /\ passed => escrow.paid[tx.step] = 0
           /\ passed /\ tx.op = "allocate" =>
                  escrow'.paid[tx.step] = 0 /\ escrow'.allocation[tx.step] = tx.amount
           /\ passed /\ tx.op = "release" =>
                  /\ escrow'.paid[tx.step] = escrow.allocation[tx.step]
                  /\ escrow.allocation[tx.step] # 0 /\ escrow'.allocation[tx.step] = 0
<1>1. /\ DOMAIN escrow = {"balance", "closed", "paid", "allocation"}
      /\ escrow.paid \in [Steps -> Nat] /\ escrow.allocation \in [Steps -> Nat]
      /\ tx.step \in Steps /\ tx.op \in Paid /\ tx.amount \in Nat
  BY DEF PayInv, HiringTypeOK, Txs
<1>2. passed => /\ escrow.paid[tx.step] = 0
                /\ tx.op = "release" => escrow.allocation[tx.step] # 0
  BY <1>1 DEF Passes, Paid
<1>3. CASE ~passed
  BY <1>1, <1>2, <1>3
<1>4. CASE passed /\ tx.op = "allocate"
  <2>1. escrow' = [escrow EXCEPT !.allocation = [@ EXCEPT ![tx.step] = tx.amount]]
    BY <1>1, <1>4 DEF Executed
  <2> QED
    BY <1>1, <1>2, <1>4, <2>1
<1>5. CASE passed /\ tx.op = "release"
  <2>1. PICK balance : balance = escrow.balance - escrow.allocation[tx.step]
    OBVIOUS
  <2>2. escrow' = [[[escrow EXCEPT !.allocation = [@ EXCEPT ![tx.step] = 0]]
                            EXCEPT !.paid = [@ EXCEPT ![tx.step] = escrow.allocation[tx.step]]]
                            EXCEPT !.balance = balance]
    BY <1>1, <1>5, <2>1 DEF Executed
  <2>3. /\ DOMAIN escrow' = {"balance", "closed", "paid", "allocation"}
        /\ escrow'.paid = [escrow.paid EXCEPT ![tx.step] = escrow.allocation[tx.step]]
        /\ escrow'.allocation = [escrow.allocation EXCEPT ![tx.step] = 0]
    BY <1>1, <2>2
  <2> QED
    BY <1>1, <1>2, <1>5, <2>3
<1> QED
  BY <1>1, <1>3, <1>4, <1>5 DEF Paid

LEMMA MineKeeps ==
    ASSUME HiringInv, Mine
    PROVE  HiringInv'
<1>1. /\ PayInv /\ HireInv /\ mempool \in Seq(Txs) /\ mempool # <<>>
      /\ mempool' = Tail(mempool) /\ DOMAIN step = Steps
      /\ UNCHANGED <<config, chain, agentKey, changes, cache>>
  BY DEF HiringInv, PayInv, HiringTypeOK, Mine
<1>2. PICK tx \in Txs : tx = Head(mempool) /\ tx = mempool[1]
  BY <1>1
<1>3. PICK passed \in BOOLEAN : passed = Passes(tx)
  BY DEF Passes
<1>4. PICK i \in Steps : i = tx.step
  BY DEF Txs
<1>5. /\ escrow' = IF passed THEN Executed(tx) ELSE escrow
      /\ step' = IF tx.awaited THEN Confirmed(i, passed) ELSE step
  BY <1>2, <1>3, <1>4 DEF Mine
<1>6. /\ mempool' \in Seq(Txs) /\ 1 \in DOMAIN mempool
      /\ \A k \in DOMAIN mempool' : /\ k + 1 \in DOMAIN mempool /\ mempool[k + 1] \in Txs
                                    /\ mempool'[k] = mempool[k + 1] /\ k + 1 # 1
      /\ \A k, l \in DOMAIN mempool' : k + 1 = l + 1 => k = l
  BY <1>1
<1>7. TxOK(tx) /\ StepOK(step[i]) /\ DOMAIN step[i] = Fields /\ AccountOK(step[i], escrow.paid[i], escrow.allocation[i])
  BY <1>1, <1>2, <1>6 DEF PayInv, HiringTypeOK, StepOK
<1>8. /\ DOMAIN escrow' = {"balance", "closed", "paid", "allocation"}
      /\ escrow'.paid \in [Steps -> Nat] /\ escrow'.allocation \in [Steps -> Nat]
      /\ \A j \in Steps : j # i => /\ escrow'.paid[j] = escrow.paid[j]
                                   /\ escrow'.allocation[j] = escrow.allocation[j]
      /\ ~passed => UNCHANGED escrow
      /\ passed => escrow.paid[i] = 0
      /\ passed /\ tx.op = "allocate" => escrow'.paid[i] = 0 /\ escrow'.allocation[i] = tx.amount
      /\ passed /\ tx.op = "release" => /\ escrow'.paid[i] = escrow.allocation[i]
                                        /\ escrow.allocation[i] # 0 /\ escrow'.allocation[i] = 0
  BY <1>1, <1>3, <1>4, <1>5, EscrowMoves
<1>9. /\ escrow'.paid[i] # 0 => escrow'.paid[i] \in Amounts(step[i])
      /\ escrow'.allocation[i] # 0 => escrow'.allocation[i] \in Amounts(step[i])
  BY <1>4, <1>7, <1>8 DEF TxOK, AccountOK, Txs, Paid
<1>10. \A p \in step[i].payment : Amounts(step[i]) = {p.amount}
  <2> SUFFICES ASSUME NEW p \in step[i].payment PROVE Amounts(step[i]) = {p.amount}
    OBVIOUS
  <2>1. step[i].payment = {p}
    BY <1>7 DEF StepOK, Payments
  <2> QED
    BY <2>1 DEF Amounts
<1>11. CASE ~tx.awaited
  <2>1. UNCHANGED step
    BY <1>5, <1>11
  <2>2. HiringTypeOK'
    BY <1>1, <1>6, <1>8, <2>1 DEF PayInv, HiringTypeOK
  <2>3. ASSUME NEW j \in Steps PROVE AccountOK(step[j], escrow.paid[j], escrow.allocation[j])'
    <3>1. CASE j = i
      <4>1. \A p \in step[i].payment : p.released => escrow'.paid[i] = p.amount
        BY <1>7, <1>8, <1>9, <1>10 DEF AccountOK, Txs, Paid
      <4> QED
        BY <1>9, <2>1, <3>1, <4>1 DEF AccountOK, Amounts
    <3>2. CASE j # i
      BY <1>1, <1>8, <2>1, <3>2 DEF PayInv, AccountOK, Amounts
    <3> QED
      BY <3>1, <3>2
  <2>4. ASSUME NEW k \in DOMAIN mempool' PROVE TxOK(mempool[k])'
    <3>1. TxOK(mempool[k + 1]) /\ mempool'[k] = mempool[k + 1]
      BY <1>1, <1>6 DEF PayInv
    <3> QED
      BY <2>1, <3>1 DEF TxOK, Amounts
  <2>5. ASSUME NEW k \in DOMAIN mempool', NEW l \in DOMAIN mempool',
               mempool'[k].awaited, mempool'[l].awaited, mempool'[k].step = mempool'[l].step
        PROVE  k = l
    BY <1>1, <1>6, <2>5 DEF PayInv
  <2>6. PayInv'
    BY <2>2, <2>3, <2>4, <2>5 DEF PayInv
  <2>7. HireInv'
    BY <1>1, <2>1 DEF HireInv, InTurn, Amounts, Priced
  <2> QED
    BY <2>6, <2>7 DEF HiringInv
<1>12. CASE tx.awaited
  <2>1. step[i].awaiting /\ step[i].at = tx.op /\ step[i].at \in Paid /\ step[i].fetching = FALSE
    BY <1>4, <1>7, <1>12 DEF TxOK, StepOK, Txs, Paid, LookupPlaces
  <2>2. PICK at \in {"release", "done"} : at = IF Is(i, "allocate") /\ passed THEN "release" ELSE "done"
    OBVIOUS
  <2>3. PICK b \in BOOLEAN : b = (Is(i, "release") /\ passed)
    OBVIOUS
  <2>4. PICK marked : marked = {[p EXCEPT !.released = b] : p \in step[i].payment}
    OBVIOUS
  <2>5. PICK u : u = [[[step[i] EXCEPT !.awaiting = FALSE] EXCEPT !.at = at] EXCEPT !.payment = marked]
    OBVIOUS
  <2>6. Becomes(i, u)
    BY <1>1, <1>5, <1>12, <2>2, <2>3, <2>4, <2>5 DEF Confirmed, Becomes
  <2>7. /\ DOMAIN u = Fields /\ u.at = at /\ u.fetching = FALSE /\ u.awaiting = FALSE
        /\ u.hired = step[i].hired /\ u.payment = marked
        /\ u.status = step[i].status /\ u.answer = step[i].answer
    BY <1>7, <2>1, <2>5 DEF Fields
  <2>8. /\ marked \in Payments /\ marked # {} /\ \A p \in marked : p.released = b
        /\ AmountsIn(marked) = AmountsIn(step[i].payment)
    <3>1. PICK owed \in Payments : owed = step[i].payment /\ owed # {}
      BY <1>7, <2>1 DEF StepOK
    <3>2. marked = MarkedAs(owed, b)
      BY <2>4, <3>1 DEF MarkedAs
    <3> QED
      BY <3>1, <3>2, Marked
  <2>9. Amounts(u) = Amounts(step[i])
    BY <2>7, <2>8 DEF Amounts, AmountsIn
  <2>10. StepOK(u)
    BY <1>7, <2>1, <2>2, <2>7, <2>8 DEF StepOK, Late, Paid, Places
  <2>11. Pays(step[i], u)
    BY <2>1, <2>2, <2>7, <2>9, <2>10 DEF Pays, Late, Paid
  <2>12. step'[i] = u /\ DOMAIN step' = Steps /\ \A j \in Steps : j # i => step'[j] = step[j]
    BY <1>1, <2>6 DEF Becomes
  <2>13. \A j \in Steps : StepOK(step'[j])
    BY <1>1, <2>10, <2>12 DEF PayInv, HiringTypeOK
  <2>14. HiringTypeOK'
    BY <1>1, <1>6, <1>8, <2>12, <2>13 DEF PayInv, HiringTypeOK, StepOK
  <2>15. ASSUME NEW j \in Steps PROVE AccountOK(step[j], escrow.paid[j], escrow.allocation[j])'
    <3>1. CASE j = i
      <4>1. b => escrow'.paid[i] # 0
        BY <1>8, <2>1, <2>3 DEF Is
      <4>2. \A p \in u.payment : p.amount \in Amounts(step[i]) /\ p.released = b
        BY <2>7, <2>8, <2>9 DEF Amounts
      <4>3. \A p \in u.payment : p.released => escrow'.paid[i] = p.amount
        <5> SUFFICES ASSUME NEW p \in u.payment, p.released PROVE escrow'.paid[i] = p.amount
          OBVIOUS
        <5>1. p.amount \in Amounts(step[i]) /\ escrow'.paid[i] \in Amounts(step[i])
          BY <1>9, <4>1, <4>2
        <5>2. PICK q \in step[i].payment : p.amount = q.amount
          BY <5>1 DEF Amounts
        <5> QED
          BY <1>10, <5>1, <5>2
      <4> QED
        BY <1>9, <2>9, <2>12, <3>1, <4>3 DEF AccountOK, Amounts
    <3>2. CASE j # i
      BY <1>1, <1>8, <2>12, <3>2 DEF PayInv, AccountOK, Amounts
    <3> QED
      BY <3>1, <3>2
  <2>16. ASSUME NEW k \in DOMAIN mempool' PROVE TxOK(mempool[k])'
    <3>1. PICK t \in Txs : t = mempool[k + 1] /\ t = mempool'[k]
      BY <1>6
    <3>2. k + 1 \in DOMAIN mempool /\ k + 1 # 1 /\ 1 \in DOMAIN mempool
      BY <1>6
    <3>3. TxOK(t)
      BY <1>1, <3>1, <3>2 DEF PayInv
    <3>4. ~(t.awaited /\ t.step = i)
      BY <1>1, <1>2, <1>4, <1>12, <3>1, <3>2 DEF PayInv
    <3>5. TxOK(t)'
      BY <1>1, <2>6, <2>11, <3>3, <3>4, PayingKeepsTxs
    <3> QED
      BY <3>1, <3>5 DEF TxOK
  <2>17. ASSUME NEW k \in DOMAIN mempool', NEW l \in DOMAIN mempool',
                mempool'[k].awaited, mempool'[l].awaited, mempool'[k].step = mempool'[l].step
         PROVE  k = l
    BY <1>1, <1>6, <2>17 DEF PayInv
  <2>18. PayInv'
    BY <2>14, <2>15, <2>16, <2>17 DEF PayInv
  <2> QED
    BY <1>1, <2>6, <2>11, <2>18, PayingKeepsHire DEF HiringInv
<1> QED
  BY <1>11, <1>12

-----------------------------------------------------------------------------
LEMMA HiringInit == Init => HiringInv
<1> SUFFICES ASSUME Init PROVE HiringInv
  OBVIOUS
<1>1. /\ DOMAIN NotStarted = Fields /\ NotStarted.at = "policy" /\ NotStarted.fetching = FALSE
      /\ NotStarted.hired = {} /\ NotStarted.awaiting = FALSE /\ NotStarted.payment = {}
  BY DEF NotStarted, Fields
<1>2. StepOK(NotStarted)
  BY <1>1 DEF StepOK, Places, LookupPlaces, MaybeListing, Payments, Late, Paid
<1>3. \A i \in Steps : step[i] = NotStarted /\ escrow.paid[i] = 0 /\ escrow.allocation[i] = 0
  BY DEF Init
<1>4. HiringTypeOK
  <2>1. /\ DOMAIN chain = {"active", "price", "signer", "stake"}
        /\ chain.active \in BOOLEAN /\ chain.price \in Prices
    BY DEF Init
  <2>2. DOMAIN cache = {"adapter", "stake", "signer"} /\ cache["adapter"] = {}
    BY DEF Init
  <2>3. /\ DOMAIN escrow = {"balance", "closed", "paid", "allocation"}
        /\ escrow.paid \in [Steps -> Nat] /\ escrow.allocation \in [Steps -> Nat]
    BY DEF Init
  <2>4. config \in Configs /\ DOMAIN step = Steps /\ mempool \in Seq(Txs)
    BY DEF Init
  <2> QED
    BY <1>2, <1>3, <2>1, <2>2, <2>3, <2>4 DEF HiringTypeOK
<1>5. PayInv
  <2>1. mempool = <<>>
    BY DEF Init
  <2> QED
    BY <1>1, <1>3, <1>4, <2>1 DEF PayInv, AccountOK
<1>6. HireInv
  BY <1>1, <1>3 DEF HireInv, InTurn, Late, Paid
<1> QED
  BY <1>5, <1>6 DEF HiringInv

LEMMA HiringStep == HiringInv /\ [Next]_vars => HiringInv'
<1> SUFFICES ASSUME HiringInv, [Next]_vars PROVE HiringInv'
  OBVIOUS
<1>1. ASSUME NEW i \in Steps, StepAction(i) PROVE HiringInv'
  <2>1. ASSUME TimesOut(i) PROVE HiringInv'
    BY <2>1, TryAgainKeeps DEF TimesOut, TransportFails
  <2> QED
    BY <1>1, <2>1, LookupKeeps, FetchedKeeps, SendKeeps, AnchorKeeps, SendPaymentKeeps, GiveUpKeeps
       DEF StepAction
<1>2. ASSUME NEW i \in Steps, AgentAnswers(i) \/ TransportFails(i) \/ Trickles(i) PROVE HiringInv'
  <2>1. ASSUME TransportFails(i) PROVE HiringInv'
    BY <2>1, TryAgainKeeps DEF TransportFails
  <2> QED
    BY <1>2, <2>1, AnswerKeeps, TricklesKeeps
<1> QED
  BY <1>1, <1>2, TickKeeps, MineKeeps, OthersKeep DEF Next

LEMMA HiringInvariance == Spec => []HiringInv
<1>1. Init => HiringInv
  BY HiringInit
<1>2. HiringInv /\ [Next]_vars => HiringInv'
  BY HiringStep
<1> QED
  BY <1>1, <1>2, PTL DEF Spec

\* What the result of a run says was paid for a step left the escrow, in the
\* amount it says, whatever became of the transactions the executor gave up
\* on (escrow.ts: send; execute.ts: settleStep).
THEOREM ReportedPaymentsAreMade == Spec => []PaymentReportsAreTrue
<1>1. HiringInv => PaymentReportsAreTrue
  BY DEF HiringInv, PayInv, AccountOK, PaymentReportsAreTrue
<1> QED
  BY <1>1, HiringInvariance, PTL

\* A run that looks its agents up and hires them one step at a time pays for
\* signed work the price it saw when it hired, however the owner changes the
\* listing meanwhile and whichever reads of the chain fail (adapters.ts).
THEOREM AgentsArePaidAsHired == Spec => []PaidAsHired
<1>1. HiringInv => PaidAsHired
  BY DEF HiringInv, HireInv, InTurn, Late, Priced, Is, Amounts, PaidAsHired
<1> QED
  BY <1>1, HiringInvariance, PTL
=============================================================================
