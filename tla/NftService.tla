------------------------------ MODULE NftService ------------------------------
(***************************************************************************)
(* The NFT service over its store.  Every operation checks and changes the *)
(* memory in one stretch and then awaits the write of the file, which may  *)
(* reject; a crash brings back what the last finished write had put there. *)
(* Mints and collections are numbered in the order they are made (they are *)
(* fresh keypairs in the code).                                            *)
(***************************************************************************)
EXTENDS Naturals, FiniteSets

CONSTANTS
    NftCalls,       \* the requests that may await their write at once
    Supplies,       \* the maxSupply of a request; the service does not check it
    MaxKeys         \* bound: keypairs generated

ASSUME NftAssumption == Supplies \subseteq Nat /\ MaxKeys \in Nat

VARIABLES
    nft,            \* the store's state in memory
    nftFile,        \* the state in the file
    nftCalls,       \* what each pending request is about to write, or NoWrite
    keys            \* the keypairs generated

nftServiceVars == <<nft, nftFile, nftCalls, keys>>

NoCollection == [mint |-> 0, max |-> 0, minted |-> 0, frozen |-> FALSE]
NoWrite == [pending |-> FALSE]

EmptyNft == [collection |-> NoCollection, mints |-> {}]

NftServiceInit ==
    /\ nft = EmptyNft
    /\ nftFile = EmptyNft
    /\ nftCalls = [c \in NftCalls |-> NoWrite]
    /\ keys = 0

\* The store's persist: the memory has changed, the snapshot is written later.
Persists(c, state) ==
    /\ nftCalls[c] = NoWrite
    /\ nft' = state
    /\ nftCalls' = [nftCalls EXCEPT ![c] = [pending |-> TRUE, state |-> state]]
    /\ UNCHANGED nftFile

NewKey == keys < MaxKeys /\ keys' = keys + 1

\* A collection replaces the one there was, frozen or not; its mints stay listed.
NewCollection(max) == [mint |-> keys + 1, max |-> max, minted |-> 0, frozen |-> FALSE]

CreateCollection(c, max) ==
    /\ NewKey
    /\ Persists(c, [nft EXCEPT !.collection = NewCollection(max)])

\* Fault: the freeze is not looked at.
FrozenToo == nft.collection.minted < nft.collection.max

MayMint == ~nft.collection.frozen /\ nft.collection.minted < nft.collection.max

Mint(c) ==
    /\ nft.collection # NoCollection
    /\ MayMint
    /\ NewKey
    /\ Persists(c, [collection |-> [nft.collection EXCEPT !.minted = @ + 1],
                    mints |-> nft.mints \cup {[mint |-> keys + 1, of |-> nft.collection.mint]}])

Freeze(c) ==
    /\ nft.collection # NoCollection
    /\ UNCHANGED keys
    /\ Persists(c, [nft EXCEPT !.collection.frozen = TRUE])

\* mkdir is awaited before the state is stringified: the file may receive a state
\* that is newer than the request's own change.
Stringify(c) ==
    /\ nftCalls[c].pending
    /\ nftCalls[c].state # nft
    /\ nftCalls' = [nftCalls EXCEPT ![c].state = nft]
    /\ UNCHANGED <<nft, nftFile, keys>>

\* The write resolves, or rejects and leaves the file as it was or torn.
Written(c) ==
    /\ nftCalls[c].pending
    /\ nftFile' = nftCalls[c].state
    /\ nftCalls' = [nftCalls EXCEPT ![c] = NoWrite]
    /\ UNCHANGED <<nft, keys>>

NotWritten(c) ==
    /\ nftCalls[c].pending
    /\ nftFile' \in {nftFile, EmptyNft}
    /\ nftCalls' = [nftCalls EXCEPT ![c] = NoWrite]
    /\ UNCHANGED <<nft, keys>>

\* The process dies and is started again; a write in progress may tear the file.
NftRestarts ==
    /\ \E read \in {nftFile} \cup {EmptyNft : c \in {d \in NftCalls : nftCalls[d].pending}} :
          nft' = read /\ nftFile' = read
    /\ nftCalls' = [c \in NftCalls |-> NoWrite]
    /\ UNCHANGED keys

NftServiceNext ==
    \/ \E c \in NftCalls : \/ \E max \in Supplies : CreateCollection(c, max)
                           \/ Mint(c)
                           \/ Freeze(c)
                           \/ Stringify(c)
                           \/ Written(c)
                           \/ NotWritten(c)
    \/ NftRestarts

NftServiceSpec == NftServiceInit /\ [][NftServiceNext]_nftServiceVars

----------------------------------------
(* Properties.                                                             *)

MintsOf(state) == {m \in state.mints : m.of = state.collection.mint}

\* The collection counts its own mints, not those of the one it replaced, and never
\* exceeds its supply; in memory and in the file, whatever writes failed.
CountsItsMints ==
    \A state \in {nft, nftFile} :
        /\ state.collection.minted = Cardinality(MintsOf(state))
        /\ state.collection.minted <= state.collection.max

\* A collection that is frozen in memory and in the file, with no write under way,
\* never gets another mint: neither a late write nor a restart thaws it.
FrozenIsFinal ==
    [][(/\ nft.collection.frozen /\ nftFile.collection = nft.collection
        /\ \A c \in NftCalls : ~nftCalls[c].pending)
       => MintsOf(nft') = MintsOf(nft) \/ nft'.collection.mint # nft.collection.mint]_nftServiceVars
=============================================================================
