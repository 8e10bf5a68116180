------------------------- MODULE StructuredReceipts -------------------------
(***************************************************************************)
(* The structured receipts: those the server derives from the receipts of  *)
(* the 0G sidecar, with the ones an operator has posted, and those the     *)
(* panels derive from a row of the wallet's history; what each is labelled *)
(* and what may be claimed of it.  Both lists are in memory only.          *)
(*                                                                         *)
(* A receipt is its status, its signature (none, simulated or real) and    *)
(* whether it has an explorer's address; the texts are left out.           *)
(***************************************************************************)
EXTENDS Naturals, Sequences, FiniteSets

CONSTANT MaxStructured      \* bound: receipts of the sidecar, and of the operator

ASSUME StructuredAssumption == MaxStructured \in Nat

VARIABLES
    sidecarMode,    \* of the integration status
    mirrored,       \* the number of the sidecar's receipts
    manualReceipts, \* manualStructured, the newest first
    historyRow,     \* the newest row of the wallet's history
    firstPosted     \* history: by id, the receipt first posted under it

structuredVars == <<sidecarMode, mirrored, manualReceipts, historyRow, firstPosted>>

Evidence == [status : {"draft", "submitted", "confirmed", "verified", "failed", "degraded",
                       "cached"},
             sig : {"none", "simulated", "real"}, explorer : BOOLEAN]

ReceiptIds == {<<"sidecar", n>> : n \in 1..MaxStructured} \cup {<<"posted", n>> : n \in 1..MaxStructured}

----------------------------------------
\* Fault: a live sidecar vouches for its receipts.
LiveIsVerified(receipt, mode) ==
    CASE receipt.status = "degraded" -> "degraded"
      [] receipt.status # "degraded" /\ mode = "live" -> "verified"
      [] OTHER -> "demo_only"

InferProofIntegrity(receipt, mode) ==
    IF receipt.status = "degraded" THEN "degraded"
    ELSE IF receipt.sig = "none" THEN (IF mode = "mock" THEN "demo_only" ELSE "pending")
    ELSE IF receipt.sig = "simulated" \/ mode # "live" THEN "demo_only"
    ELSE "pending"

DeriveProofStatusFromSolanaRow(row) ==
    IF row.sig = "simulated" THEN "demo_only"
    ELSE IF row.sig = "none" /\ ~row.explorer
         THEN (IF row.status = "verified" THEN "pending" ELSE "unverified")
    ELSE IF row.status \in {"failed", "degraded"} THEN "degraded"
    ELSE IF row.status = "verified" /\ row.sig # "none" /\ row.explorer THEN "verified"
    ELSE "pending"

Structured(receipt, proof) ==
    [status |-> receipt.status, sig |-> receipt.sig, explorer |-> receipt.explorer, proof |-> proof]

ReceiptStatusToStructured(status) == IF status = "cached" THEN "submitted" ELSE status

SolanaTxRecordToStructured(row, demo) ==
    IF demo THEN [Structured(row, "cached_only") EXCEPT !.status = "cached"]
    ELSE [Structured(row, DeriveProofStatusFromSolanaRow(row))
             EXCEPT !.status = ReceiptStatusToStructured(@)]

\* A simulated signature gets no explorer's address.
MirrorReceiptRowToStructured(receipt) ==
    [Structured(receipt, InferProofIntegrity(receipt, sidecarMode))
        EXCEPT !.explorer = (receipt.sig = "real")]

CanClaimAnchored(receipt) ==
    /\ receipt.sig # "none" /\ receipt.explorer
    /\ receipt.proof = "verified" /\ receipt.status \in {"verified", "confirmed"}

\* getClaimText and the first line of getReceiptTruthLine.
ClaimIsMade(receipt) == receipt.proof = "verified"
SaidOnSolana(receipt) == receipt.proof = "verified" /\ receipt.sig # "none"

----------------------------------------
\* createSolanaReceipt: confirmed, with a simulated signature.
SidecarReceipt == [status |-> "confirmed", sig |-> "simulated", explorer |-> FALSE]

Derived == [n \in 1..mirrored |->
              [id |-> <<"sidecar", n>>, receipt |-> MirrorReceiptRowToStructured(SidecarReceipt)]]

MergedRows == Derived \o manualReceipts

\* mergeStructuredReceiptLists: the last row of an id is the one that is listed.
ListedReceipts ==
    LET Last(id) == CHOOSE i \in DOMAIN MergedRows :
            /\ MergedRows[i].id = id
            /\ \A j \in DOMAIN MergedRows : MergedRows[j].id = id => j <= i
    IN [id \in {MergedRows[i].id : i \in DOMAIN MergedRows} |-> MergedRows[Last(id)].receipt]

StructuredInit ==
    /\ sidecarMode \in {"live", "mock", "degraded"}
    /\ mirrored = 0 /\ manualReceipts = <<>>
    /\ historyRow \in Evidence
    /\ firstPosted = [id \in {} |-> 0]

SidecarMirrors ==
    /\ mirrored < MaxStructured
    /\ mirrored' = mirrored + 1
    /\ UNCHANGED <<sidecarMode, manualReceipts, historyRow, firstPosted>>

\* What a body may say of a receipt and of its proof, one whatever the other: nothing, in
\* which case the route fills in the first of each, or all there is to say.
PostedReceipts ==
    {Structured(receipt, proof) :
        receipt \in {[status |-> "draft", sig |-> "none", explorer |-> FALSE],
                     [status |-> "verified", sig |-> "real", explorer |-> TRUE]},
        proof \in {"pending", "verified"}}

\* POST /api/solana/receipt: with an id that is listed, or a new one.
PostReceipt(id, receipt) ==
    /\ Len(manualReceipts) < MaxStructured
    /\ id \in DOMAIN ListedReceipts \/ id = <<"posted", Len(manualReceipts) + 1>>
    /\ manualReceipts' = <<[id |-> id, receipt |-> receipt]>> \o manualReceipts
    /\ firstPosted' = IF id \in DOMAIN firstPosted THEN firstPosted
                      ELSE [k \in DOMAIN firstPosted \cup {id} |->
                              IF k = id THEN receipt ELSE firstPosted[k]]
    /\ UNCHANGED <<sidecarMode, mirrored, historyRow>>

StructuredNext ==
    \/ SidecarMirrors
    \/ \E id \in ReceiptIds, receipt \in PostedReceipts : PostReceipt(id, receipt)

----------------------------------------
\* A posted receipt stays what it was first posted as, over the sidecar's receipt of
\* its id and whatever is posted under the id later.
FirstPostedStays ==
    \A id \in DOMAIN firstPosted : ListedReceipts[id] = firstPosted[id]

\* The claim of a receipt is only made, of the list, for one that an operator has posted
\* as verified, in every mode of the sidecar; and of the wallet's history for a row that
\* is verified, signed for real and linked, which are the rows that may be called
\* anchored and are said to be on Solana.
ClaimsAreBacked ==
    /\ \A id \in DOMAIN ListedReceipts :
          ClaimIsMade(ListedReceipts[id]) =>
              id \in DOMAIN firstPosted /\ firstPosted[id].proof = "verified"
    /\ \A demo \in BOOLEAN :
          LET receipt == SolanaTxRecordToStructured(historyRow, demo) IN
          /\ ClaimIsMade(receipt) =>
                ~demo /\ historyRow = [status |-> "verified", sig |-> "real", explorer |-> TRUE]
          /\ ClaimIsMade(receipt) = CanClaimAnchored(receipt)
          /\ ClaimIsMade(receipt) = SaidOnSolana(receipt)
=============================================================================
