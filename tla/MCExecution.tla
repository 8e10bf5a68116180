----------------------------- MODULE MCExecution -----------------------------
(***************************************************************************)
(* Small instances of what a run of the swarm rests on and of what is told *)
(* of it, one of them in each behaviour: the bridge with its callers; a    *)
(* run alone with either way of recording the plan; two runs that compete  *)
(* for one place in the mirror; selections and drafts, beside a run; the   *)
(* 0G sidecar; the OpenClaw bridge; the errors on their way to the         *)
(* command center.                                                         *)
(***************************************************************************)
EXTENDS SolanaBridge, SwarmExecute, ZeroGSidecar, ErrorSurface, TLC

CONSTANTS c1, c2

VARIABLE part

MCCallers == {c1, c2}
Symmetric == Permutations(MCCallers)

partVars == <<bridgeVars, swarmVars>>
aroundVars == <<sidecarVars, openClawVars, surfaceVars>>
executionVars == <<partVars, aroundVars, part>>

Places == {<<"ns1", "json">>, <<"ns2", "json">>}

\* The two places are alike: whichever is named first is the first one.
FirstPlaceFirst ==
    LET Named(place) == named \cap {place, BlobId(place)} # {} IN
    Named(<<"ns2", "json">>) => Named(<<"ns1", "json">>)

Begun == {r \in Runs : at[r].next # "begin"}

ExecutionInit ==
    /\ part \in {"bridge", "alone", "pair", "desk", "sidecar", "openclaw", "errors"}
    /\ BridgeInit /\ SwarmInit /\ SidecarInit /\ OpenClawInit /\ ErrorSurfaceInit
    /\ part # "bridge" => orderly
    /\ part # "sidecar" => enabled
    /\ IF part = "alone" THEN limit = 2 ELSE planService /\ limit = 1

RunNext ==
    \/ part = "bridge" /\ BridgeNext /\ (confirms' = 2 => ~faulty') /\ UNCHANGED swarmVars
    \/ /\ part = "alone" /\ (MirrorNext \/ SwarmRunNext) /\ Cardinality(Begun') <= 1
       /\ UNCHANGED bridgeVars
    \/ part = "pair" /\ (MirrorNext \/ SwarmRunNext) /\ UNCHANGED bridgeVars
    \/ /\ part = "desk" /\ SwarmNext /\ Cardinality({r \in Begun' : wish'[r] = "none"}) <= 1
       /\ UNCHANGED bridgeVars

AroundNext ==
    \/ /\ part = "sidecar" /\ SidecarNext /\ FirstPlaceFirst'
       /\ UNCHANGED <<openClawVars, surfaceVars>>
    \/ part = "openclaw" /\ OpenClawNext /\ UNCHANGED <<sidecarVars, surfaceVars>>
    \/ part = "errors" /\ ErrorSurfaceNext /\ UNCHANGED <<sidecarVars, openClawVars>>

ExecutionNext ==
    /\ UNCHANGED part
    /\ \/ RunNext /\ UNCHANGED aroundVars
       \/ AroundNext /\ UNCHANGED partVars

ExecutionSpec == ExecutionInit /\ [][ExecutionNext]_executionVars

\* What the 0G sidecar and the OpenClaw bridge have answered can be found and
\* verified again.
RelaysTellTheTruth ==
    /\ ReferencesHold
    /\ VerifiedWasAsked
    /\ LoggedRootsVerify
    /\ NewestManifestIsFirst
=============================================================================
