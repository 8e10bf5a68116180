---------------------------- MODULE ZeroGSidecar ----------------------------
(***************************************************************************)
(* The 0G sidecar: artifacts, compute jobs, availability records, receipts *)
(* and links in one store in memory, the blobs kept among the artifacts    *)
(* under an id made of their namespace and content type, and the log of    *)
(* data availability with the roots of its batches.  Nothing in it leaves  *)
(* the process or can fail, so a handler runs to its end before the next.  *)
(*                                                                         *)
(* The last section is the OpenClaw bridge, the other relay of the server  *)
(* that keeps what it was given in memory.                                 *)
(*                                                                         *)
(* A hash is what is hashed; a random id is the number of the write.       *)
(***************************************************************************)
EXTENDS Naturals, Sequences, FiniteSets

CONSTANTS
    Payloads,       \* the texts and bytes that callers send
    Reflections,    \* the reflections mirrored into the sidecar
    BlobPlaces,     \* pairs of a namespace and a content type
    MaxWrites,      \* bound: writes in a behaviour
    SkillVersions,  \* pairs of a skillId and a version
    ManifestHashes, \* what hashJson says of a manifest
    MaxBridged      \* bound: imports and exports in a behaviour

ASSUME SidecarAssumption ==
    /\ MaxWrites \in Nat /\ MaxBridged \in Nat
    /\ \A place \in BlobPlaces : place = <<place[1], place[2]>>

VARIABLES
    enabled,        \* ZEROG_ENABLED
    artifacts,      \* by id: the blob flag, the hash and the status
    jobs,           \* by id: the output of the last job submitted under it
    availability,   \* what was published
    proofs,         \* the receipts, with what they refer to
    links,          \* the links of the reflections
    logged,         \* the records of CanonicalDaService
    roots,          \* by root of a batch: batched or verified
    sidecarWrites,  \* the number of the last write
    named,          \* history: the names written, and those written again:
    renamed,        \* an artifact or job id, or a place of blobs
    blobRefs,       \* history: the references putBlob has answered
    asked           \* history: the hashes verifyArtifact was asked about

sidecarVars == <<enabled, artifacts, jobs, availability, proofs, links, logged, roots,
                 sidecarWrites, named, renamed, blobRefs, asked>>
daVars == <<logged, roots>>

NoOutput == <<"no output">>
JobId(n) == <<"job", n>>

\* Fault: blobs of one content type share an id, whatever their namespace.
ByContentType(place) == <<"blob", place[2]>>

BlobId(place) == <<"blob", place[1], place[2]>>
ReflectionId(r) == <<"reflection", r>>
ArtifactIds == {ReflectionId(r) : r \in Reflections} \cup {BlobId(p) : p \in BlobPlaces}

SidecarInit ==
    /\ enabled \in BOOLEAN
    /\ artifacts = [x \in {} |-> 0] /\ jobs = [x \in {} |-> 0]
    /\ availability = {} /\ proofs = {} /\ links = {}
    /\ logged = {} /\ roots = [x \in {} |-> 0]
    /\ sidecarWrites = 0
    /\ named = {} /\ renamed = {} /\ blobRefs = {} /\ asked = {}

----------------------------------------
Put(table, id, row) == [x \in DOMAIN table \cup {id} |-> IF x = id THEN row ELSE table[x]]

\* A write under the given names.
WritesSidecar(names) ==
    /\ sidecarWrites < MaxWrites
    /\ sidecarWrites' = sidecarWrites + 1
    /\ named' = named \cup names
    /\ renamed' = renamed \cup (named \cap names)
New == sidecarWrites + 1

StoredStatus(id) == IF enabled THEN "stored" ELSE "failed"

StoreArtifact(id, blob, hash) ==
    artifacts' = Put(artifacts, id, [blob |-> blob, hash |-> hash, status |-> StoredStatus(id)])

\* The same output for the same input; none while the sidecar is disabled.
ComputeOutput(input) == <<"output", input>>
SubmitJob(id, input) ==
    jobs' = Put(jobs, id, IF enabled THEN ComputeOutput(input) ELSE NoOutput)
JobOutput(input) == IF enabled THEN ComputeOutput(input) ELSE <<"summary", input>>

----------------------------------------
PostArtifact(id, payload) ==
    /\ WritesSidecar({id} \cup {p \in BlobPlaces : BlobId(p) = id})
    /\ StoreArtifact(id, FALSE, payload)
    /\ UNCHANGED <<enabled, jobs, availability, proofs, links, daVars, blobRefs, asked>>

PostJob(id, input) ==
    /\ WritesSidecar({id})
    /\ SubmitJob(id, <<input>>)
    /\ UNCHANGED <<enabled, artifacts, availability, proofs, links, daVars, blobRefs, asked>>

PostAvailability(id, root) ==
    /\ WritesSidecar({})
    /\ availability' = availability \cup {[n |-> New, artifact |-> id, root |-> root]}
    /\ UNCHANGED <<enabled, artifacts, jobs, proofs, links, daVars, blobRefs, asked>>

VerifyArtifact(id, expected) ==
    /\ id \in DOMAIN artifacts
    /\ asked' = asked \cup {<<id, expected>>}
    /\ artifacts' = IF artifacts[id].hash = expected
                    THEN [artifacts EXCEPT ![id].status = "verified"] ELSE artifacts
    /\ UNCHANGED <<enabled, jobs, availability, proofs, links, daVars, sidecarWrites,
                   named, renamed, blobRefs>>

\* Fault: the checksum is published for the hash of the content.
Checksum(id, payload) == <<id, payload>>

PublishedRoot(id, payload) == payload

\* An artifact, a job on the given input, their availability, their receipt and their link.
Mirrors(id, text, input) ==
    /\ WritesSidecar({id, JobId(New)})
    /\ StoreArtifact(id, FALSE, text)
    /\ SubmitJob(JobId(New), input)
    /\ availability' = availability \cup
          {[n |-> New, artifact |-> id, root |-> PublishedRoot(id, text)]}
    /\ proofs' = proofs \cup {[n |-> New, artifact |-> id, summary |-> JobOutput(input)]}
    /\ links' = links \cup {[artifact |-> id, job |-> JobId(New), published |-> New, proof |-> New,
                             content |-> text, summary |-> JobOutput(input)]}
    /\ UNCHANGED <<enabled, daVars, blobRefs, asked>>

\* orchestrateReflectionSidecar: the text is what is hashed and what the job is about.
OrchestrateReflection(id, text) == Mirrors(id, text, <<text>>)

\* runDemoFlow: the same text each time under an id of its own; the job is about the whole
\* content, in which the prompt and the moment are.
DemoId == <<"demo", New>>
RunDemoFlow(prompt) == Mirrors(DemoId, "root cause, correction, next action", <<prompt, New>>)

----------------------------------------
\* The canonical blobs and the log.
PutsBlob(place, data) ==
    /\ WritesSidecar({place})
    /\ StoreArtifact(BlobId(place), TRUE, data)
    /\ blobRefs' = blobRefs \cup {[place |-> place, uri |-> BlobId(place), checksum |-> data]}

PutBlob(place, data) ==
    /\ PutsBlob(place, data)
    /\ UNCHANGED <<enabled, jobs, availability, proofs, links, daVars, asked>>

CombineRoot(hashes) == <<"GENESIS">> \o hashes
\* Each at a moment of its own.
LeafHash(payload, subject) == <<payload, subject, New>>

RecordRoot(leaf) == CombineRoot(<<leaf>>)

Record(payload, subject, lane) ==
    LET leaf == LeafHash(payload, subject) IN
    [n |-> New, leaf |-> leaf, root |-> RecordRoot(leaf), lane |-> lane]

AppendRecord(payload, subject) ==
    /\ WritesSidecar({})
    /\ logged' = logged \cup {Record(payload, subject, "append")}
    /\ UNCHANGED <<enabled, artifacts, jobs, availability, proofs, links, roots, blobRefs, asked>>

\* A batch of no records has a random root; a batch of the same records is new again.
BatchRoot(records) ==
    IF records = <<>> THEN <<"random", New>>
    ELSE CombineRoot([i \in DOMAIN records |-> records[i].leaf])

AppendBatch(records) ==
    /\ WritesSidecar({})
    /\ roots' = Put(roots, BatchRoot(records), "batched")
    /\ UNCHANGED <<enabled, artifacts, jobs, availability, proofs, links, logged, blobRefs, asked>>

VerifyBatch(root) ==
    /\ root \in DOMAIN roots
    /\ roots' = [roots EXCEPT ![root] = "verified"]
    /\ UNCHANGED <<enabled, artifacts, jobs, availability, proofs, links, logged,
                   sidecarWrites, named, renamed, blobRefs, asked>>

\* persistArtifact: the blob, its record in a batch of its own, and the receipt.
PersistArtifact(place, subject, payload) ==
    LET record == Record(payload, subject, "persist") IN
    /\ PutsBlob(place, payload)
    /\ logged' = logged \cup {record}
    /\ roots' = Put(roots, BatchRoot(<<record>>), "batched")
    /\ proofs' = proofs \cup {[n |-> New, artifact |-> BlobId(place), summary |-> payload]}
    /\ UNCHANGED <<enabled, jobs, availability, links, asked>>

\* The routes of the log, of persistArtifact and of the sidecar's own store.
LogNext ==
    \/ \E p \in Payloads, r \in Reflections : AppendRecord(p, r)
    \/ \E records \in {<<>>} \cup {<<r>> : r \in logged} \cup {<<r, s>> : r, s \in logged} :
          AppendBatch(records)
    \/ \E root \in DOMAIN roots : VerifyBatch(root)

PersistNext ==
    \E place \in BlobPlaces, r \in Reflections, p \in Payloads : PersistArtifact(place, r, p)

SidecarNext ==
    \/ LogNext
    \/ PersistNext
    \/ \E p \in Payloads :
        \/ \E id \in ArtifactIds : PostArtifact(id, p) \/ VerifyArtifact(id, p)
        \/ \E id \in DOMAIN artifacts : PostAvailability(id, p)
        \/ \E id \in DOMAIN jobs \cup {JobId(0)} : PostJob(id, p)
        \/ \E r \in Reflections : OrchestrateReflection(ReflectionId(r), p)
        \/ RunDemoFlow(p)
        \/ \E place \in BlobPlaces : PutBlob(place, p)

----------------------------------------
VerifiesBlob(ref) ==
    /\ ref.uri \in DOMAIN artifacts
    /\ artifacts[ref.uri].blob /\ artifacts[ref.uri].hash = ref.checksum

\* What a caller was told stays true of the store until somebody writes under
\* the very same name: a reference to a blob verifies while nothing else was
\* put in its namespace under its content type, and the artifact, the job, the
\* availability record and the receipt of a link carry the link's hashes.
ReferencesHold ==
    /\ \A ref \in blobRefs : ref.place \in renamed \/ VerifiesBlob(ref)
    /\ \A l \in links :
        /\ l.artifact \in renamed \/ artifacts[l.artifact].hash = l.content
        /\ l.job \in renamed \/ jobs[l.job] \in {NoOutput, l.summary}
        /\ \E a \in availability : /\ a.n = l.published
                                   /\ a.artifact = l.artifact /\ a.root = l.content
        /\ \E r \in proofs : r.n = l.proof /\ r.artifact = l.artifact /\ r.summary = l.summary

\* An artifact is shown as verified only if somebody asked about the hash it
\* has now: a later write under its id takes the mark away.
VerifiedWasAsked ==
    \A id \in DOMAIN artifacts :
        artifacts[id].status = "verified" => <<id, artifacts[id].hash>> \in asked

\* The record that persistArtifact answers verifies under its own root, which
\* the log computes apart from the root of its batch.
LoggedRootsVerify == \A r \in logged : r.lane = "persist" => r.root \in DOMAIN roots

----------------------------------------
(* The OpenClaw bridge: a list of skill manifests and the receipts of its   *)
(* imports and exports, newest first.  An import replaces the first         *)
(* manifest of its skill and version, an export always adds one.            *)
VARIABLES
    manifests,      \* state.manifests
    bridged         \* state.receipts, with the version of the manifest

openClawVars == <<manifests, bridged>>

OpenClawInit == manifests = <<>> /\ bridged = <<>>

Listed(list, skill) == {i \in DOMAIN list : list[i].skill = skill}

FindIndex(skill) ==
    CHOOSE i \in Listed(manifests, skill) : \A j \in Listed(manifests, skill) : i <= j

Receives(direction, skill, hash) ==
    /\ Len(bridged) < MaxBridged
    /\ bridged' = <<[direction |-> direction, skill |-> skill, hash |-> hash]>> \o bridged

ImportManifest(skill, hash) ==
    LET manifest == [skill |-> skill, hash |-> hash] IN
    /\ Receives("import", skill, hash)
    /\ manifests' = IF Listed(manifests, skill) # {}
                    THEN [manifests EXCEPT ![FindIndex(skill)] = manifest]
                    ELSE <<manifest>> \o manifests

ExportSkill(skill, hash) ==
    /\ Receives("export", skill, hash)
    /\ manifests' = <<[skill |-> skill, hash |-> hash]>> \o manifests

OpenClawNext ==
    \E skill \in SkillVersions, hash \in ManifestHashes :
        ImportManifest(skill, hash) \/ ExportSkill(skill, hash)

\* Although exports leave several manifests of one skill and version in the
\* list, the first of them, which a reader finds, is the one of the newest
\* receipt, through imports that replace one of them in place.
NewestManifestIsFirst ==
    \A i \in DOMAIN bridged :
        LET skill == bridged[i].skill IN
        (\A j \in Listed(bridged, skill) : i <= j) =>
            Listed(manifests, skill) # {} /\ manifests[FindIndex(skill)].hash = bridged[i].hash
=============================================================================
