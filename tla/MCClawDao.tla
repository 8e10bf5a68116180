------------------------------ MODULE MCClawDao ------------------------------
(***************************************************************************)
(* Small instances of the DAO program for TLC.  A behaviour is one of a    *)
(* ballot - two members vote on one proposal while stakes and the          *)
(* configuration change, with weights near the largest u64 - or of the     *)
(* treasury: two proposals of two kinds, decided by one member, compete    *)
(* for a small vault.                                                      *)
(***************************************************************************)
EXTENDS ClawDao, TLC

CONSTANTS w1, w2

VARIABLE part

(* Wallets are interchangeable: nothing compares them but for equality.    *)
WalletSymmetry == Permutations(Wallets)

SmallInit == Init /\ part \in {"ballot", "treasury"}

BallotNext ==
  \/ slot = 0 /\ Tick
  \/ \E threshold \in ThresholdBps :
       \/ InitializeDao(6, threshold, 0, 1, 0)
       \/ \E paused \in BOOLEAN : UpdateDao(paused, 6, threshold, 0, 1)
  \/ Join
  \/ \E w \in Wallets : CreateProposal(w, 1, "Text", 0, 0)
  \/ Decide

(* One member of stake 1 decides both proposals; deposits stop at 5.       *)
TreasuryNext ==
  \/ Tick
  \/ InitializeDao(0, 5, 0, 0, 2)
  \/ \E w \in Wallets : dao.total_members = 0 /\ RegisterMember(w, 1, 0)
  \/ Propose
  \/ Decide
  \/ Deposit /\ treasury'.total_deposits <= 5

SmallNext ==
  \/ part = "ballot" /\ BallotNext /\ UNCHANGED part
  \/ part = "treasury" /\ TreasuryNext /\ UNCHANGED part

SmallSpec == SmallInit /\ [][SmallNext]_<<vars, part>>
=============================================================================
