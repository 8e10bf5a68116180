------------------------------ MODULE JsonStore ------------------------------
(***************************************************************************)
(* How the server's stores keep their state in one JSON file.  A save      *)
(* changes the memory at once and then writes the whole state; its answer  *)
(* waits for that write.  The plan, memory, indexer, identity, NFT and     *)
(* governance stores write side by side: mkdir, then writeFile of what the *)
(* memory holds by then.  SwarmMirrorStore chains its writes one after the *)
(* other, and a write that rejects rejects all that are chained after it.  *)
(* A crash may come at any moment; init reads the file again.              *)
(*                                                                         *)
(* The state is the sequence of what was saved, without repetitions: a     *)
(* snapshot of it is one of its prefixes, and is named by its length.      *)
(***************************************************************************)
EXTENDS Naturals, Sequences, FiniteSets, SequencesExt

CONSTANTS
    Saves,      \* the saves that are made, each once
    Chainings,  \* whether writes are chained: a subset of BOOLEAN
    Crashes     \* bound: the crashes in a behaviour

ASSUME StoreAssumption ==
    /\ Chainings \subseteq BOOLEAN /\ Crashes \in Nat
    /\ {"torn", "absent"} \cap Saves = {}     \* their names mean something else

VARIABLES
    chained,    \* the store is SwarmMirrorStore
    storeUp,    \* the server has started its stores
    mem,        \* the state in memory: the saves, in order
    file,       \* what readFile would find: a prefix of the saves, Torn or Absent
    saving,     \* where each save is
    chain,      \* the writes chained and not yet started
    snapshots,  \* what each write in progress writes
    mixed,      \* the writes in progress that overlap another one
    rejected,   \* writeChain has rejected
    crashed,    \* how many crashes there were
    overlapped, \* history: two writes have been in progress at once
    cutShort    \* history: a write has rejected midway or died with the server

storeVars == <<chained, storeUp, mem, file, saving, chain, snapshots, mixed, rejected, crashed,
              overlapped, cutShort>>

Torn == <<"torn">>
Absent == <<"absent">>
Writing == {s \in Saves : saving[s] = "writing"}

StoreInit ==
    /\ chained \in Chainings
    /\ storeUp = FALSE
    /\ mem = <<>>
    /\ file = Absent
    /\ saving = [s \in Saves |-> "new"]
    /\ chain = <<>>
    /\ snapshots = [s \in Saves |-> <<>>]
    /\ mixed = {}
    /\ rejected = FALSE
    /\ crashed = 0
    /\ overlapped = FALSE /\ cutShort = FALSE

\* What JSON.parse makes of the file; nothing when it throws.
Parsed == IF file \in {Torn, Absent} THEN <<>> ELSE file

\* init.  SwarmMirrorStore writes the empty state when it could not read one.
StoreStarts ==
    /\ ~storeUp
    /\ storeUp' = TRUE
    /\ mem' = Parsed
    /\ file' = IF chained THEN Parsed ELSE file
    /\ UNCHANGED <<chained, saving, chain, snapshots, mixed, rejected, crashed, overlapped, cutShort>>

\* A save, up to its first await.
Save(s) ==
    /\ storeUp
    /\ saving[s] = "new"
    /\ mem' = Append(mem, s)
    /\ IF chained
       THEN /\ chain' = Append(chain, s)
            /\ saving' = [saving EXCEPT ![s] = "chained"]
       ELSE /\ saving' = [saving EXCEPT ![s] = "mkdir"]
            /\ UNCHANGED chain
    /\ UNCHANGED <<chained, storeUp, file, snapshots, mixed, rejected, crashed, overlapped, cutShort>>

\* Fault: the state is stringified before the directory is made.
StringifiedEarly(s) == SubSeq(mem, 1, CHOOSE i \in DOMAIN mem : mem[i] = s)

\* What JSON.stringify gives when the write begins.
Stringified(s) == mem

\* Fault: a chained write does not wait for the one before it.
OutOfTurn(s) ==
    IF chained THEN saving[s] = "chained" /\ chain # <<>> /\ Head(chain) = s ELSE saving[s] = "mkdir"

\* A chained write waits for all that came before it.
Turn(s) ==
    IF chained THEN OutOfTurn(s) /\ Writing = {} ELSE saving[s] = "mkdir"

\* writeFile truncates the file and writes.  Two writes at once go through handles
\* of their own, each from the file's beginning.
WriteBegins(s) ==
    /\ Turn(s)
    /\ ~(chained /\ rejected)
    /\ saving' = [saving EXCEPT ![s] = "writing"]
    /\ snapshots' = [snapshots EXCEPT ![s] = Stringified(s)]
    /\ file' = Torn
    /\ mixed' = IF Writing = {} THEN mixed ELSE mixed \cup Writing \cup {s}
    /\ overlapped' = (overlapped \/ Writing # {})
    /\ chain' = IF chained THEN Tail(chain) ELSE chain
    /\ UNCHANGED <<chained, storeUp, mem, rejected, crashed, cutShort>>

\* writeFile resolves.  A write that overlapped another may have left its state, the
\* other's, or a mixture of the two.
WriteEnds(s) ==
    /\ saving[s] = "writing"
    /\ saving' = [saving EXCEPT ![s] = "saved"]
    /\ file' \in IF s \in mixed
                 THEN {snapshots[s], file, Torn} \cup {snapshots[o] : o \in Writing}
                 ELSE {snapshots[s]}
    /\ mixed' = mixed \ {s}
    /\ snapshots' = [snapshots EXCEPT ![s] = <<>>]
    /\ UNCHANGED <<chained, storeUp, mem, chain, rejected, crashed, overlapped, cutShort>>

\* Fault: the chain goes on after a rejected write.
NeverRejects == FALSE

\* writeChain stays the rejected promise.
ChainRejects == chained

\* mkdir rejects.
MkdirFails(s) ==
    /\ saving[s] = "mkdir"
    /\ saving' = [saving EXCEPT ![s] = "failed"]
    /\ UNCHANGED <<chained, storeUp, mem, file, chain, snapshots, mixed, rejected, crashed, overlapped, cutShort>>

\* writeFile rejects: the file is what the write has made of it so far.
WriteFailsMidway(s) ==
    /\ saving[s] = "writing"
    /\ saving' = [saving EXCEPT ![s] = "failed"]
    /\ mixed' = mixed \ {s}
    /\ snapshots' = [snapshots EXCEPT ![s] = <<>>]
    /\ rejected' = (rejected \/ ChainRejects)
    /\ cutShort' = TRUE
    /\ UNCHANGED <<chained, storeUp, mem, file, chain, crashed, overlapped>>

\* A write chained to a rejected one rejects without being tried.
RejectedUntried(s) ==
    /\ chained /\ rejected
    /\ chain # <<>> /\ Head(chain) = s
    /\ chain' = Tail(chain)
    /\ saving' = [saving EXCEPT ![s] = "failed"]
    /\ UNCHANGED <<chained, storeUp, mem, file, snapshots, mixed, rejected, crashed, overlapped, cutShort>>

\* The process dies; a write in progress leaves the file as it is.
StoreCrashes ==
    /\ storeUp
    /\ crashed < Crashes
    /\ crashed' = crashed + 1
    /\ storeUp' = FALSE
    /\ mem' = <<>>
    /\ saving' = [s \in Saves |-> IF saving[s] \in {"mkdir", "chained", "writing"} THEN "lost" ELSE saving[s]]
    /\ chain' = <<>>
    /\ snapshots' = [s \in Saves |-> <<>>]
    /\ mixed' = {}
    /\ rejected' = FALSE
    /\ cutShort' = (cutShort \/ Writing # {})
    /\ UNCHANGED <<chained, file, overlapped>>

Progress(s) == WriteBegins(s) \/ WriteEnds(s) \/ RejectedUntried(s)

StoreNext ==
    \/ StoreStarts
    \/ StoreCrashes
    \/ \E s \in Saves : \/ Save(s)
                        \/ Progress(s)
                        \/ MkdirFails(s)
                        \/ WriteFailsMidway(s)

\* Node's event loop runs every callback that is due, and the file system answers.
StoreFairness == \A s \in Saves : WF_storeVars(Progress(s))

StoreSpec == StoreInit /\ [][StoreNext]_storeVars /\ StoreFairness

----------------------------------------
(* Properties.                                                             *)

\* The saves whose answer says they are on disk.
Answered == {s \in Saves : saving[s] = "saved"}

\* Between writes the file holds every save that was answered, in the life of the
\* server and after it, as long as no write was cut short: always for chained writes,
\* and for writes side by side that never overlapped.
AnsweredIsOnDisk ==
    (~cutShort /\ (chained \/ ~overlapped) /\ Writing = {}) => Answered \subseteq ToSet(Parsed)

\* Nothing is restored in another order than it was saved in, and nothing without
\* what was saved before it in the same life of the server.
RestoresAPrefix ==
    (storeUp /\ file \notin {Torn, Absent}) => IsPrefix(file, mem)

\* Once a chained write has rejected no later save is answered well until the server
\* is started anew: the mirror's memory runs ahead of its file from then on.
PoisonedUntilRestart ==
    [][(chained /\ \E s \in ToSet(mem) : saving[s] = "failed") =>
          \A s \in Saves : saving'[s] = "saved" => saving[s] = "saved"]_storeVars

\* Every save is answered, well or not, unless the server crashes.
EverySaveIsAnswered ==
    \A s \in Saves : saving[s] \in {"chained", "mkdir", "writing"} ~> saving[s] \in {"saved", "failed", "lost"}
=============================================================================
