\* The lifecycle of POST /demo/run: every upload and anchor succeeds, results
\* link their reflection and memory, one request at a time.
SPECIFICATION Spec
CONSTANTS
    Plans = {p1}
    Callers = {c1}
    Outcomes = {"success"}
    Links <- BothLinks
    HasClient = TRUE
    Answers = {"signed"}
    Uploads = {TRUE}
    Patience = {TRUE}
    MaxRequests = 3
    None = None
INVARIANTS
    LifecycleVerifies
CHECK_DEADLOCK FALSE
