--------------------------- MODULE ClawDaoDiscovery ---------------------------
(***************************************************************************)
(* The claw_dao program with its discovery rows: anyone may copy a         *)
(* proposal, with a rank computed from its votes, into its row account;    *)
(* nothing refreshes the row when the proposal moves on.                   *)
(***************************************************************************)
EXTENDS ClawDao

VARIABLE row  \* the DaoDiscoveryRow account of each proposal

NoRow == [exists |-> FALSE, status |-> "None", yes_votes |-> 0, no_votes |-> 0,
          abstain_votes |-> 0, total_votes |-> 0, rank |-> 0]

RankOf(p) ==
  LET pr == proposal[p] IN
  RankScore(pr.yes_votes, pr.no_votes, pr.abstain_votes, pr.total_votes,
            pr.quorum_bps, pr.approval_threshold_bps)

Snapshot(p) ==
  LET pr == proposal[p] IN
  [exists |-> TRUE, status |-> pr.status, yes_votes |-> pr.yes_votes,
   no_votes |-> pr.no_votes, abstain_votes |-> pr.abstain_votes,
   total_votes |-> pr.total_votes, rank |-> RankOf(p)]

Refreshed(p) == Snapshot(p)

(* Neither the pause nor the status of the proposal is looked at.          *)
RefreshDiscovery(p) ==
  /\ dao.live
  /\ proposal[p].status # "None"
  /\ row' = [row EXCEPT ![p] = Refreshed(p)]
  /\ UNCHANGED vars

DiscoveryInit == Init /\ row = [p \in ProposalIds |-> NoRow]

DiscoveryNext ==
  \/ Next /\ UNCHANGED row
  \/ \E p \in ProposalIds : RefreshDiscovery(p)

DiscoverySpec == DiscoveryInit /\ [][DiscoveryNext]_<<vars, row>>

----------------------------------------
(* A row is a whole picture of its proposal at an earlier moment: its      *)
(* counters fit together and are at most those of today, and once it shows *)
(* a verdict they are final, whatever was voted before the refresh.        *)
RowsAreSnapshots ==
  \A p \in ProposalIds : row[p].exists =>
    LET r == row[p]
        pr == proposal[p]
    IN /\ r.yes_votes + r.no_votes + r.abstain_votes = r.total_votes
       /\ r.yes_votes <= pr.yes_votes /\ r.no_votes <= pr.no_votes
       /\ r.abstain_votes <= pr.abstain_votes
       /\ r.status # "Active" =>
            /\ r.total_votes = pr.total_votes /\ r.yes_votes = pr.yes_votes
            /\ r.rank = RankOf(p)

(* A yes vote never lowers the rank of a proposal while the products of    *)
(* compute_rank_score do not saturate: the two denominators grow with it.  *)
YesNeverLowersRank ==
  [][\A p \in ProposalIds :
       (proposal'[p].yes_votes > proposal[p].yes_votes
          /\ proposal'[p].total_votes * BpsScale <= U64Max)
         => RankOf(p)' >= RankOf(p)]_vars
=============================================================================
