---------------------------- MODULE SolanaBridge ----------------------------
(***************************************************************************)
(* The bridge of server/solana: requests are written to a history, sent to *)
(* the chain by the relayer, mirrored in a table of accounts, and confirmed*)
(* by another request.                                                     *)
(*                                                                         *)
(* A request is a chain of steps between awaits: of the RPC and of the     *)
(* writes of the store's file, which follow a change of its memory.  A     *)
(* history record and its payload are named by the position of the record, *)
(* a signature by its position in chain: one from elsewhere is to a record *)
(* like that of another record.  There is one wallet; memos, urls, dates   *)
(* and the cap of 5000 records are abstracted.  A row also remembers if it *)
(* was crossed: confirmed with a signature that is not its own.            *)
(***************************************************************************)
EXTENDS Naturals, Sequences, FiniteSets

CONSTANTS
    BridgeCallers,  \* the requests that can be in flight at once
    Subjects,       \* the subject ids
    BridgeRoutes,   \* the routes in use, of those of RouteActions
    HasRelayer,     \* whether a relayer's key is configured
    Orders,         \* whether callers keep an order: a subset of BOOLEAN
    MaxSends,       \* bound: records of the history
    MaxConfirms,    \* bound: confirmations
    NoTx            \* the signature of a record that has none

ASSUME BridgeAssumption == HasRelayer \in BOOLEAN /\ Orders \subseteq BOOLEAN /\ NoTx = 0

VARIABLES
    history,        \* state.history, oldest first
    accounts,       \* state.accounts
    chain,          \* the transactions sent: the record of each and its fate
    credited,       \* what the routes have recorded with the identity and memory services
    sends,          \* the requests in flight and the await each is at
    confirms,       \* the number of confirmations so far
    orderly,        \* whether callers wait for an answer, and for the confirmation
                    \* of what they have sent to an account before they send more
    faulty          \* whether a write or the answer to a sent transaction was lost

bridgeVars == <<history, accounts, chain, credited, sends, confirms, orderly, faulty>>

Resting == [at |-> "resting"]

\* The action each route sends; transaction/send takes any.
RouteActions(route) ==
    CASE route = "skills" -> {"create_skill"}
      [] route = "updates" -> {"update_skill_version"}
      [] route = "receipts" -> {"anchor_receipt"}
      [] route = "plans" -> {"create_plan_receipt"}
      [] route = "memory" -> {"create_memory_receipt"}
      [] route = "reflections" -> {"create_reflection_receipt"}
      [] route = "build" -> {"create_plan_receipt"}
      [] route = "send" -> {"initialize_registry", "complete_plan_receipt"}

\* deriveAccount: several actions share the account of a subject.
KindOf(action) ==
    CASE action = "initialize_registry" -> "registry"
      [] action = "create_skill" -> "skill"
      [] action = "update_skill_version" -> "skill_version"
      [] action \in {"create_plan_receipt", "complete_plan_receipt"} -> "plan_receipt"
      [] action \in {"create_memory_receipt", "create_reflection_receipt"} -> "memory_receipt"
      [] OTHER -> "proof_receipt"

Kinds == {"registry", "skill", "skill_version", "plan_receipt", "memory_receipt", "proof_receipt"}
Addresses == Kinds \X (Subjects \cup {"-"})

AddressOf(action, subject) ==
    <<KindOf(action), IF action = "initialize_registry" THEN "-" ELSE subject>>

NoAccount == [of |-> 0, status |-> "none", tx |-> NoTx, crossed |-> FALSE]

BridgeInit ==
    /\ history = <<>>
    /\ accounts = [a \in Addresses |-> NoAccount]
    /\ chain = <<>>
    /\ credited = {}
    /\ sends = [c \in BridgeCallers |-> Resting]
    /\ confirms = 0
    /\ orderly \in Orders
    /\ faulty = FALSE

----------------------------------------
(* The store.                                                              *)

At(c, step) == sends[c].at = step
Proceeds(c, s) == sends' = [sends EXCEPT ![c] = s]

\* updateHistory: the signature, once there, stays.
UpdateHistory(i, status, tx) ==
    history' = [history EXCEPT ![i].status = status, ![i].tx = IF tx = NoTx THEN @ ELSE tx]

\* Whose a transaction is: a record, and that record's account.
OwnAccount(tx) == history[chain[tx].of].address

\* What a caller that keeps an order waits for.
MayBegin(c) ==
    /\ sends[c] = Resting
    /\ orderly => \A d \in BridgeCallers : sends[d] = Resting

----------------------------------------
(* buildInstruction and sendInstruction.                                   *)

\* Up to the write of the new record.
BuildInstruction(c, route, action, subject) ==
    LET a == AddressOf(action, subject) IN
    /\ MayBegin(c)
    /\ orderly => accounts[a].status # "pending"
    /\ Len(history) < MaxSends
    /\ history' = Append(history, [address |-> a, status |-> "building", tx |-> NoTx,
                                   crossed |-> FALSE])
    /\ Proceeds(c, [at |-> "building", i |-> Len(history) + 1, route |-> route, tx |-> NoTx])
    /\ UNCHANGED <<accounts, chain, credited, confirms, orderly, faulty>>

\* The request has failed, which is written too.
Fails(c) ==
    /\ UpdateHistory(sends[c].i, "failed", NoTx)
    /\ Proceeds(c, [sends[c] EXCEPT !.at = "failing"])

BuildSaved(c) ==
    /\ At(c, "building")
    /\ CASE sends[c].route = "build" -> Proceeds(c, Resting) /\ UNCHANGED history
         [] sends[c].route # "build" /\ ~HasRelayer -> Fails(c)
         [] OTHER -> Proceeds(c, [sends[c] EXCEPT !.at = "sending"]) /\ UNCHANGED history
    /\ UNCHANGED <<accounts, chain, credited, confirms, orderly, faulty>>

\* The RPC answers with an error, or not at all although it took the transaction.
SendFails(c, taken) ==
    /\ At(c, "sending")
    /\ Fails(c)
    /\ chain' = IF taken THEN Append(chain, [of |-> sends[c].i, fate |-> "sent"]) ELSE chain
    /\ faulty' = (faulty \/ taken)
    /\ UNCHANGED <<accounts, credited, confirms, orderly>>

\* The signature is published in the history; its write is awaited.
Sent(c) ==
    /\ At(c, "sending")
    /\ chain' = Append(chain, [of |-> sends[c].i, fate |-> "sent"])
    /\ UpdateHistory(sends[c].i, "submitted", Len(chain) + 1)
    /\ Proceeds(c, [sends[c] EXCEPT !.at = "publishing", !.tx = Len(chain) + 1])
    /\ UNCHANGED <<accounts, credited, confirms, orderly, faulty>>

\* saveAccount of the pending account, whatever was there, with the signature
\* the request was answered.
Pending(c) ==
    LET i == sends[c].i IN
    accounts' = [accounts EXCEPT ![history[i].address] =
                    [of |-> i, status |-> "pending", tx |-> sends[c].tx, crossed |-> FALSE]]

PublishSaved(c) ==
    /\ At(c, "publishing")
    /\ Pending(c)
    /\ Proceeds(c, [sends[c] EXCEPT !.at = "mirroring"])
    /\ UNCHANGED <<history, chain, credited, confirms, orderly, faulty>>

\* What the route records after the send: a reputation event of a published
\* skill only if it was sent, the others in any case.
Credit(route, i, failed) ==
    IF route \in {"plans", "memory", "reflections"} \/ (route \in {"skills", "updates"} /\ ~failed)
    THEN {<<route, i>>} ELSE {}

Answers(c, failed) ==
    /\ credited' = credited \cup Credit(sends[c].route, sends[c].i, failed)
    /\ Proceeds(c, Resting)

MirrorSaved(c) ==
    /\ At(c, "mirroring")
    /\ Answers(c, FALSE)
    /\ UNCHANGED <<history, accounts, chain, confirms, orderly, faulty>>

FailureSaved(c) ==
    /\ At(c, "failing")
    /\ Answers(c, TRUE)
    /\ UNCHANGED <<history, accounts, chain, confirms, orderly, faulty>>

----------------------------------------
(* confirmInstruction.                                                     *)

\* Anyone may confirm any signature, naming any record (or none, 0) and any
\* account (or none), which need not be the signature's own: nothing compares
\* them.  An account of no record is unknown, and naming it changes nothing.
\* Those who keep an order name the signature's own two, and confirm it once.
Confirm(c, tx, i, to) ==
    /\ MayBegin(c)
    /\ confirms < MaxConfirms
    /\ i # 0 \/ to # {}
    /\ orderly => i = chain[tx].of /\ to = {OwnAccount(tx)} /\ history[i].status = "submitted"
    /\ confirms' = confirms + 1
    /\ Proceeds(c, [at |-> "confirming", i |-> i, tx |-> tx, to |-> to])
    /\ UNCHANGED <<history, accounts, chain, credited, orderly, faulty>>

\* Fault: what is not final is taken for a failure.
OnlyFinal(fate) == "failed"

StatusOfFate(fate) == IF fate = "ok" THEN "confirmed" ELSE "failed"

\* saveAccount with the fate, if an account is named and known.
SettleAccount(c) ==
    LET s == sends[c]
        known == {a \in s.to : accounts[a] # NoAccount}
    IN  /\ accounts' = [a \in Addresses |->
                IF a \in known
                THEN [accounts[a] EXCEPT !.status = StatusOfFate(chain[s.tx].fate),
                                         !.tx = s.tx,
                                         !.crossed = @ \/ OwnAccount(s.tx) # a]
                ELSE accounts[a]]
        /\ Proceeds(c, IF known = {} THEN Resting ELSE [at |-> "settled"])

\* updateHistory with the fate.
SettleRecord(c) ==
    LET s == sends[c] IN
    history' = [history EXCEPT ![s.i].status = StatusOfFate(chain[s.tx].fate),
                               ![s.i].tx = s.tx,
                               ![s.i].crossed = @ \/ chain[s.tx].of # s.i]

\* The chain has answered.
Confirmed(c) ==
    /\ At(c, "confirming")
    /\ chain[sends[c].tx].fate # "sent"
    /\ IF sends[c].i # 0
       THEN /\ SettleRecord(c)
            /\ Proceeds(c, [sends[c] EXCEPT !.at = "settling"])
            /\ UNCHANGED accounts
       ELSE SettleAccount(c) /\ UNCHANGED history
    /\ UNCHANGED <<chain, credited, confirms, orderly, faulty>>

\* The record is written; the account is read and saved with the fate.
RecordSettled(c) ==
    /\ At(c, "settling")
    /\ SettleAccount(c)
    /\ UNCHANGED <<history, chain, credited, confirms, orderly, faulty>>

AccountSettled(c) ==
    /\ At(c, "settled")
    /\ Proceeds(c, Resting)
    /\ UNCHANGED <<history, accounts, chain, credited, confirms, orderly, faulty>>

----------------------------------------
(* Failures and the chain.                                                 *)

\* A write fails.  Those after the send are caught: the record becomes failed.
\* Any other ends the request with an error.
WriteFails(c) ==
    /\ sends[c].at \in {"building", "publishing", "mirroring", "failing", "settling", "settled"}
    /\ faulty' = TRUE
    /\ IF sends[c].at \in {"publishing", "mirroring"}
       THEN Fails(c)
       ELSE Proceeds(c, Resting) /\ UNCHANGED history
    /\ UNCHANGED <<accounts, chain, credited, confirms, orderly>>

\* The RPC does not answer the confirmation in time.
ConfirmTimesOut(c) ==
    /\ At(c, "confirming")
    /\ Proceeds(c, Resting)
    /\ UNCHANGED <<history, accounts, chain, credited, confirms, orderly, faulty>>

Lands(tx, fate) ==
    /\ chain[tx].fate = "sent"
    /\ chain' = [chain EXCEPT ![tx].fate = fate]
    /\ UNCHANGED <<history, accounts, credited, sends, confirms, orderly, faulty>>

BridgeNext ==
    \/ \E tx \in DOMAIN chain, fate \in {"ok", "err"} : Lands(tx, fate)
    \/ \E c \in BridgeCallers :
          \/ \E route \in BridgeRoutes, subject \in Subjects :
                \E action \in RouteActions(route) : BuildInstruction(c, route, action, subject)
          \/ BuildSaved(c)
          \/ \E taken \in BOOLEAN : SendFails(c, taken)
          \/ Sent(c)
          \/ PublishSaved(c)
          \/ MirrorSaved(c)
          \/ FailureSaved(c)
          \/ \E tx \in DOMAIN chain, i \in {0} \cup DOMAIN history :
                \/ Confirm(c, tx, i, {})
                \/ \E j \in DOMAIN history : Confirm(c, tx, i, {history[j].address})
          \/ Confirmed(c)
          \/ RecordSettled(c)
          \/ AccountSettled(c)
          \/ WriteFails(c)
          \/ ConfirmTimesOut(c)

BridgeSpec == BridgeInit /\ [][BridgeNext]_bridgeVars

----------------------------------------
(* Properties.                                                             *)

\* Nothing is called confirmed that the chain has not executed: a record or an
\* account says confirmed only of a transaction that landed well, although both
\* are written from what was read before an await.
ConfirmedIsOnChain ==
    /\ \A i \in DOMAIN history :
          history[i].status = "confirmed" => chain[history[i].tx].fate = "ok"
    /\ \A a \in Addresses :
          accounts[a].status = "confirmed" => chain[accounts[a].tx].fate = "ok"

\* Unless it was confirmed with another's signature, a record shows that of its own
\* transaction, and an account one of a transaction that was sent to it.
SignaturesMatch ==
    /\ \A i \in DOMAIN history : history[i].tx # NoTx =>
          chain[history[i].tx].of = i \/ history[i].crossed
    /\ \A a \in Addresses : accounts[a].tx # NoTx =>
          OwnAccount(accounts[a].tx) = a \/ accounts[a].crossed

\* Unless a write or an answer was lost, or its record was confirmed with another's
\* signature, a request that is called failed has not been carried out by the
\* chain, at any time.
FailedNeverLands ==
    ~faulty => \A i \in DOMAIN history :
        history[i].status = "failed" /\ ~history[i].crossed =>
            \A tx \in DOMAIN chain : chain[tx].of = i => chain[tx].fate = "err"

\* Callers that keep an order cross nothing.
OrderlyNeverCross ==
    orderly => /\ \A i \in DOMAIN history : ~history[i].crossed
               /\ \A a \in Addresses : ~accounts[a].crossed

\* For callers that keep an order, unless something was lost, a confirmed account shows the payload of the
\* very transaction that was confirmed.  Others may send twice to an account: the
\* confirmation of the first transaction then confirms the payload of the second.
ConfirmedPayload ==
    (orderly /\ ~faulty) => \A a \in Addresses :
        accounts[a].status = "confirmed" => accounts[a].of = chain[accounts[a].tx].of

\* For callers that keep an order, between requests and unless something was lost
\* the account says what the record of its last transaction says.  (Others may
\* confirm between the publication of the signature and the save of the account,
\* which then stays pending.)
AccountFollowsRecord ==
    (orderly /\ ~faulty /\ \A c \in BridgeCallers : sends[c] = Resting) =>
        \A a \in Addresses : accounts[a] # NoAccount =>
            /\ accounts[a].of = chain[accounts[a].tx].of
            /\ accounts[a].status = "pending" <=> history[accounts[a].of].status = "submitted"
            /\ accounts[a].status = "confirmed" <=> history[accounts[a].of].status = "confirmed"

\* A skill that is credited to its author's reputation was sent to the chain.
CreditsRestOnTransactions ==
    \A i \in DOMAIN history : \A route \in {"skills", "updates"} :
        <<route, i>> \in credited => \E tx \in DOMAIN chain : chain[tx].of = i

\* What bridgeService.ts keeps of requests and accounts is what the chain has done
\* with them, although every record is written from what was read before an await.
BridgeTellsTheChain ==
    /\ ConfirmedIsOnChain
    /\ SignaturesMatch
    /\ FailedNeverLands
    /\ OrderlyNeverCross
    /\ ConfirmedPayload
    /\ AccountFollowsRecord
    /\ CreditsRestOnTransactions
=============================================================================
