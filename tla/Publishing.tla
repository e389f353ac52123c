------------------------------ MODULE Publishing ------------------------------
(***************************************************************************)
(* One publisher lists agents by the two front doors, the command line     *)
(* (publish.ts, cli.ts) and the web page (PublishPage.tsx with wallet.ts,  *)
(* and the server's preflight), over the registries.  Every await is a     *)
(* step: in between others publish, hand identities over or appoint        *)
(* operators, a transaction is mined late or after it was given up, and    *)
(* the page's fields change.                                               *)
(***************************************************************************)
EXTENDS AgentRegistry

CONSTANTS
    Publisher,      \* the account both fronts send from
    Endpoints,      \* where agents are served
    Forms,          \* what is typed: [endpoint, named, payTo, signer, price]
    Malformed,      \* an entry that does not parse
    Jobs,           \* bound: the publications attempted, begun in this order
    MaxChecks,      \* bound: preflights
    MaxMeddling     \* bound: what others do

\* named is the identity to reuse, 0 to mint one.
ASSUME PublishingAssumption ==
    /\ Publisher \in Accounts
    /\ MaxChecks \in Nat /\ MaxMeddling \in Nat /\ Malformed \notin Accounts \cup Keys \cup Prices
    /\ Forms # {}
    /\ Forms \subseteq [endpoint : Endpoints, named : 0 .. MaxAgents, signer : Keys \cup {Zero},
                        payTo : Accounts \cup {Zero, Malformed}, price : Prices \cup {Malformed}]

VARIABLES
    described,      \* id -> the fields of its listing AgentRegistry leaves out
    page,           \* the page's phase, its last preflight and those under way
    jobs,           \* the publications, their local variables
    txs,            \* the publisher's transactions not mined yet, in nonce order
    passed,         \* endpoints whose agent passed the suite at some time
    checks, meddling

pubVars == <<agentVars, described, page, jobs, txs, passed, checks, meddling>>

Unlisted == [endpoint |-> Zero, root |-> Zero, conformant |-> FALSE]

\* A job's receipt is that of the transaction it waits for, as far as there is
\* one.
NoJob == [pc |-> "off", front |-> "cli", endpoint |-> Zero, conformant |-> FALSE, root |-> Zero,
          form |-> CHOOSE f \in Forms : TRUE, id |-> 0, seen |-> 0, receipt |-> "none"]

\* The publisher has an identity already and has appointed somebody.
PubInit ==
    /\ nextId = 2
    /\ owners = [id \in Identities |-> IF id = 1 THEN Publisher ELSE Zero]
    /\ balances = [a \in Accounts |-> IF a = Publisher THEN 1 ELSE 0]
    /\ tokenURIs = [id \in Identities |-> IF id = 1 THEN CHOOSE uri \in URIs : TRUE ELSE Zero]
    /\ operators = [id \in Identities |-> IF id = 1 THEN CHOOSE a \in Accounts : a # Publisher ELSE Zero]
    /\ adapters = [id \in Identities |-> NoAdapter]
    /\ known = [id \in Identities |-> FALSE] /\ directory = <<>>
    /\ described = [id \in Identities |-> Unlisted]
    /\ page = [phase |-> "form", preflight |-> {}, asked |-> {}]
    /\ jobs = [j \in Jobs |-> NoJob]
    /\ txs = <<>> /\ passed = {} /\ checks = 0 /\ meddling = 0

At(j, pc) == jobs[j].pc = pc
Goes(j, pc) == jobs' = [jobs EXCEPT ![j].pc = pc]
Fails(j) == jobs' = [jobs EXCEPT ![j] = [NoJob EXCEPT !.pc = "failed"]]
Elsewhere == UNCHANGED <<agentVars, described, txs, passed, checks, meddling>>

\* What ends a publication also sets the page's phase, whatever the page does.
Ends(j, phase) == page' = IF jobs[j].front = "page" THEN [page EXCEPT !.phase = phase] ELSE page

-----------------------------------------------------------------------------
\* The page: a preflight runs the suite and, if it passed, stores the schema,
\* on the server.  The signer the agent names is only offered: what is
\* published is what the form holds at the click.
RunPreflight ==
    /\ page.phase # "checking" /\ checks < MaxChecks
    /\ \E e \in Endpoints :
           page' = [page EXCEPT !.phase = "checking", !.preflight = {}, !.asked = @ \cup {e}]
    /\ checks' = checks + 1
    /\ UNCHANGED <<agentVars, described, jobs, txs, passed, meddling>>

\* The result is kept if the page can go on from it: the agent is conformant,
\* and the server could store its schema.
PreflightDone ==
    /\ \E e \in page.asked :
       \/ /\ \E phase \in {"form", "checked"} : page' = [page EXCEPT !.phase = phase, !.asked = @ \ {e}]
          /\ UNCHANGED passed
       \/ /\ page' = [page EXCEPT !.phase = "checked", !.asked = @ \ {e},
                                  !.preflight = {[endpoint |-> e, conformant |-> TRUE, root |-> e]}]
          /\ passed' = passed \cup {e}
    /\ UNCHANGED <<agentVars, described, jobs, txs, checks, meddling>>

\* The button works while no publication is shown as under way; a preflight
\* started meanwhile hides the one that is.  What is published is the agent of
\* the last preflight: the address in the field may be another by then.
ClickPublish(j) ==
    /\ At(j, "off") /\ page.phase = "checked"
    /\ \E preflight \in page.preflight, form \in Forms :
           /\ form.payTo # Malformed
           /\ jobs' = [jobs EXCEPT ![j] = [NoJob EXCEPT !.pc = "identity", !.front = "page",
                     !.endpoint = preflight.endpoint, !.conformant = preflight.conformant,
                     !.root = preflight.root, !.form = form]]
    /\ page' = [page EXCEPT !.phase = "publishing"]
    /\ Elsewhere

-----------------------------------------------------------------------------
\* The command line: the arguments, then the suite.
StartCli(j) ==
    /\ At(j, "off")
    /\ \E form \in {f \in Forms : f.price # Malformed} :
           jobs' = [jobs EXCEPT ![j] = [NoJob EXCEPT !.pc = "gate", !.endpoint = form.endpoint, !.form = form]]
    /\ UNCHANGED page /\ Elsewhere

\* With --force it goes on without a pass, and the listing says so.
Gate(j) ==
    /\ At(j, "gate")
    /\ \/ /\ passed' = passed \cup {jobs[j].endpoint}
          /\ jobs' = [jobs EXCEPT ![j].pc = "identity", ![j].conformant = TRUE]
       \/ /\ Goes(j, "identity") \/ Fails(j)
          /\ UNCHANGED passed
    /\ UNCHANGED <<agentVars, described, page, txs, checks, meddling>>

\* A named identity is looked up by the command line, and taken by the page.
UseIdentity(j) ==
    /\ At(j, "identity") /\ jobs[j].form.named # 0
    /\ IF jobs[j].front = "cli" /\ owners[jobs[j].form.named] # Publisher
       THEN Fails(j)
       ELSE jobs' = [jobs EXCEPT ![j].id = jobs[j].form.named,
                                 ![j].pc = IF jobs[j].front = "cli" THEN "schema" ELSE "version"]
    /\ UNCHANGED page /\ Elsewhere

\* A transaction: who waits for it, the call, and for a listing what it says.
Mint(j) == [job |-> j, kind |-> "mint", id |-> 0, listing |-> NoAdapter, description |-> Unlisted]
Submit(j, tx, pc) ==
    /\ txs' = Append(txs, tx)
    /\ jobs' = [jobs EXCEPT ![j].pc = pc, ![j].receipt = "none"]

SendMint(j) ==
    /\ At(j, "identity") /\ jobs[j].form.named = 0
    /\ Submit(j, Mint(j), "minting")
    /\ UNCHANGED <<agentVars, described, page, passed, checks, meddling>>

\* Only the wallet asks, to connect, to switch to the network or to sign; the
\* page goes back to where it was.
RejectInWallet(j) ==
    /\ jobs[j].front = "page"
    /\ At(j, "identity") \/ At(j, "list")
    /\ Fails(j) /\ Ends(j, "checked")
    /\ Elsewhere

\* The new id is read from the log of the transaction.
Minted(j) ==
    /\ At(j, "minting") /\ jobs[j].receipt = "success"
    /\ Goes(j, IF jobs[j].front = "cli" THEN "schema" ELSE "version")
    /\ UNCHANGED page /\ Elsewhere

\* fetchSchema and storage.put: the agent or the storage may be down.
StoreSchema(j) ==
    /\ At(j, "schema")
    /\ \/ jobs' = [jobs EXCEPT ![j].pc = "version", ![j].root = jobs[j].endpoint]
       \/ Fails(j)
    /\ UNCHANGED page /\ Elsewhere

\* hasAdapter and getAdapter: as if in one, whatever happens in between, for a
\* listing never goes away.
ReadVersion(j) ==
    /\ At(j, "version")
    /\ jobs' = [jobs EXCEPT ![j].pc = "list",
                            ![j].seen = IF known[jobs[j].id] THEN adapters[jobs[j].id].version ELSE 0]
    /\ UNCHANGED page /\ Elsewhere

Submitted(job) == [version |-> job.seen + 1, active |-> TRUE, signer |-> job.form.signer,
                   payTo |-> job.form.payTo, price |-> job.form.price]
Description(job) == [endpoint |-> job.endpoint, root |-> job.root, conformant |-> job.conformant]

\* encodeRegisterAdapter throws at an address or a price that does not parse.
SendListing(j) ==
    /\ At(j, "list")
    /\ IF Malformed \in {jobs[j].form.payTo, jobs[j].form.price}
       THEN Fails(j) /\ Ends(j, "checked") /\ UNCHANGED txs
       ELSE Submit(j, [Mint(j) EXCEPT !.kind = "list", !.id = jobs[j].id, !.listing = Submitted(jobs[j]),
                                      !.description = Description(jobs[j])], "listing") /\ UNCHANGED page
    /\ UNCHANGED <<agentVars, described, passed, checks, meddling>>

Waiting(j) == At(j, "minting") \/ At(j, "listing")

Reverted(j) ==
    /\ Waiting(j) /\ jobs[j].receipt = "reverted"
    /\ Fails(j) /\ Ends(j, "checked")
    /\ Elsewhere

\* Variant for the mutation checks: it waits for as long as it takes.
GivesUp_Never(receipt) == FALSE

GivesUp(receipt) == receipt = "none"

\* waitForReceipt's deadline; the transaction may still be mined.
GiveUp(j) ==
    /\ Waiting(j) /\ GivesUp(jobs[j].receipt)
    /\ Fails(j) /\ Ends(j, "checked")
    /\ Elsewhere

\* The listing read back; the page compares only its signer.
Confirmed(job) ==
    /\ SignerOf(job.id) = job.form.signer
    /\ job.front = "cli" => described[job.id].endpoint = job.endpoint /\ adapters[job.id].active

Confirm(j) ==
    /\ At(j, "listing") /\ jobs[j].receipt = "success"
    /\ IF Confirmed(jobs[j]) THEN Goes(j, "published") /\ Ends(j, "done")
       ELSE Fails(j) /\ Ends(j, "checked")
    /\ Elsewhere

-----------------------------------------------------------------------------
\* The chain takes the publisher's transactions in nonce order.
\* Whoever gave up on one does not learn of it.
NextTx == Head(txs)
Mined(tx, status, id) ==
    /\ txs' = Tail(txs)
    /\ jobs' = IF Waiting(tx.job) THEN [jobs EXCEPT ![tx.job].receipt = status, ![tx.job].id = id]
               ELSE jobs
    /\ UNCHANGED <<page, passed, checks, meddling>>

MineMint ==
    /\ txs # <<>> /\ NextTx.kind = "mint"
    /\ \E uri \in URIs : Register(Publisher, uri)
    /\ Mined(NextTx, "success", nextId)
    /\ UNCHANGED described

\* encodeRegisterAdapter always names a kind and the endpoint.
MineListing ==
    /\ txs # <<>> /\ NextTx.kind = "list"
    /\ \/ /\ RegisterAdapter(Publisher, NextTx.id, NextTx.listing, TRUE)
          /\ described' = [described EXCEPT ![NextTx.id] = NextTx.description]
          /\ Mined(NextTx, "success", NextTx.id)
       \/ /\ ~CanRegisterAdapter(Publisher, NextTx.id, NextTx.listing, TRUE)
          /\ UNCHANGED <<agentVars, described>>
          /\ Mined(NextTx, "reverted", NextTx.id)

\* Anybody else, and the publisher by other means.
Meddle ==
    /\ meddling < MaxMeddling /\ meddling' = meddling + 1
    /\ \E caller \in Accounts, id \in Identities :
       \/ /\ \/ \E to \in Accounts : TransferFrom(caller, caller, to, id)
             \/ Deactivate(caller, id)
             \/ \E operator \in Accounts : SetOperator(caller, id, operator)
          /\ UNCHANGED described
       \/ \E v \in {adapters[id].version, adapters[id].version + 1}, signer \in Keys, price \in Prices :
             /\ RegisterAdapter(caller, id, [version |-> v, active |-> TRUE, payTo |-> caller,
                                             signer |-> signer, price |-> price], TRUE)
             /\ described' = [described EXCEPT ![id] = [Unlisted EXCEPT !.endpoint = CHOOSE e \in Endpoints : TRUE]]
    /\ UNCHANGED <<page, jobs, txs, passed, checks>>

JobStep(j) ==
    \/ Gate(j) \/ UseIdentity(j) \/ SendMint(j) \/ RejectInWallet(j) \/ Minted(j) \/ StoreSchema(j)
    \/ ReadVersion(j) \/ SendListing(j) \/ Reverted(j) \/ GiveUp(j) \/ Confirm(j)

PubNext ==
    \/ RunPreflight \/ PreflightDone
    \/ \E j \in Jobs : (\A i \in Jobs : i < j => ~At(i, "off")) /\ (ClickPublish(j) \/ StartCli(j))
    \/ \E j \in Jobs : JobStep(j)
    \/ MineMint \/ MineListing \/ Meddle

PubSpec == PubInit /\ [][PubNext]_pubVars

\* Calls are answered or fail, and the wallet's owner decides.
PubFairSpec == PubSpec /\ \A j \in Jobs : WF_pubVars(JobStep(j))

-----------------------------------------------------------------------------
\* What is reported as published is on chain as it was entered, address,
\* payee, price and schema included, though the page reads back only the
\* signer: as long as the version is the one submitted, nobody changed the
\* listing but to deactivate it.  If it says that its agent is conformant, the
\* agent at that address passed, whatever was typed after the preflight.
PublishedListingsAreKept ==
    \A j \in Jobs :
        LET job == jobs[j]
        IN  At(j, "published") /\ adapters[job.id].version = job.seen + 1 =>
                /\ adapters[job.id] \in {Submitted(job), [Submitted(job) EXCEPT !.active = FALSE]}
                /\ described[job.id] = Description(job)
                /\ job.conformant => job.endpoint \in passed

\* The version is read and written in two transactions' time.  A listing
\* somebody published in between, an operator or the publisher in another
\* tab, is never replaced by one who had not seen it.
NoListingIsLostUnseen ==
    [][txs # <<>> /\ txs' = Tail(txs) /\ adapters' # adapters
          => adapters[NextTx.id].version = NextTx.listing.version - 1]_pubVars

\* Every publication begun ends with a report, mined or not.
PublishingEnds ==
    \A j \in Jobs : jobs[j].pc # "off" ~> jobs[j].pc \in {"published", "failed"}
=============================================================================
