------------------------------- MODULE ClawNft -------------------------------
(***************************************************************************)
(* The claw_nft program: one collection, its supply, and a receipt for     *)
(* every token minted in it.  One action per instruction; texts, metadata  *)
(* accounts, editions and times are abstracted.                            *)
(***************************************************************************)
EXTENDS Naturals, FiniteSets

CONSTANTS
    NftWallets,     \* the wallets that sign
    NftMints,       \* the mints whose authority is the program's; one is the collection's
    MaxSupplies,    \* the supplies a collection may be given
    TokensBefore,   \* the tokens a mint may have when the program gets its authority
    TokenMax,       \* u64::MAX, above which the token program mints nothing
    NftNone

VARIABLES
    collection,     \* collection_config
    nftReceipts,    \* the receipt (and the mint state) of each mint
    supply,         \* the tokens of each mint
    before          \* history: those it had before the program minted

nftVars == <<collection, nftReceipts, supply, before>>

\* NftReceipt and NftMintState, of which mint_nft creates one each.
NftReceipt == [authority : NftWallets, owner : NftWallets, signed : BOOLEAN]

CollectionConfig == [authority : NftWallets, minted : Nat, max : MaxSupplies, frozen : BOOLEAN]

ASSUME SupplyAssumption ==
    /\ MaxSupplies \subseteq Nat
    /\ TokenMax \in Nat /\ TokensBefore \subseteq 0..TokenMax
    /\ IsFiniteSet(NftMints)
    /\ NftNone \notin NftReceipt /\ NftNone \notin CollectionConfig

NftInit ==
    /\ collection = NftNone
    /\ nftReceipts = [m \in NftMints |-> NftNone]
    /\ before \in [NftMints -> TokensBefore]
    /\ supply = before

InitializeCollection(authority, max) ==
    /\ collection = NftNone
    /\ collection' = [authority |-> authority, minted |-> 0, max |-> max, frozen |-> FALSE]
    /\ UNCHANGED <<nftReceipts, supply>>

Mintable(config) == ~config.frozen /\ config.minted < config.max

\* The receipt's and the mint state's accounts are created by the instruction.
Unminted(m) == nftReceipts[m] = NftNone

\* Whoever pays may mint, to any owner and with any mint of the authority, whatever its
\* supply; the token program refuses a full one.
MintNft(payer, owner, m) ==
    /\ collection # NftNone
    /\ Unminted(m)
    /\ Mintable(collection)
    /\ supply[m] < TokenMax
    /\ supply' = [supply EXCEPT ![m] = @ + 1]
    /\ nftReceipts' = [nftReceipts EXCEPT ![m] =
                          [authority |-> payer, owner |-> owner, signed |-> FALSE]]
    /\ collection' = [collection EXCEPT !.minted = @ + 1]

FreezeCollection(authority) ==
    /\ collection # NftNone
    /\ collection.authority = authority
    /\ collection' = [collection EXCEPT !.frozen = TRUE]
    /\ UNCHANGED <<nftReceipts, supply>>

RecordReceipt(authority, m) ==
    /\ nftReceipts[m] # NftNone
    /\ nftReceipts[m].authority = authority
    /\ nftReceipts' = [nftReceipts EXCEPT ![m].signed = TRUE]
    /\ UNCHANGED <<collection, supply>>

NftNext ==
    /\ UNCHANGED before
    /\ \E w \in NftWallets :
          \/ \E max \in MaxSupplies : InitializeCollection(w, max)
          \/ \E m \in NftMints, owner \in NftWallets : MintNft(w, owner, m)
          \/ FreezeCollection(w)
          \/ \E m \in NftMints : RecordReceipt(w, m)

NftSpec == NftInit /\ [][NftNext]_nftVars

----------------------------------------
(* Properties.                                                             *)

Minted == {m \in NftMints : nftReceipts[m] # NftNone}

\* The collection counts its receipts and never exceeds its supply.
SupplyHeld ==
    IF collection = NftNone THEN Minted = {}
    ELSE collection.minted = Cardinality(Minted) /\ collection.minted <= collection.max

\* Every token the program minted has a receipt that says who got it: one token for each
\* receipt, beside those its mint had before.  (The receipt says supply 1 all the same.)
OneTokenEach ==
    \A m \in NftMints : supply[m] = before[m] + (IF m \in Minted THEN 1 ELSE 0)

\* A frozen collection stays as it is, and no receipt changes its owner or authority.
FrozenForGood ==
    [][/\ (collection # NftNone /\ collection.frozen) => collection' = collection /\ supply' = supply
       /\ \A m \in Minted : /\ nftReceipts'[m].owner = nftReceipts[m].owner
                            /\ nftReceipts[m].signed => nftReceipts'[m].signed]_nftVars
=============================================================================
