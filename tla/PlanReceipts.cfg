\* One plan, two requests at once or one after the other, uploads, anchors and
\* writes that may fail.
SPECIFICATION Spec
CONSTANTS
    Plans = {p1}
    Callers = {c1, c2}
    Outcomes = {"success", "failed"}
    Links <- SomeLinks
    HasClient = TRUE
    Answers = {"signed", "error"}
    Uploads = {FALSE}
    Patience = {TRUE, FALSE}
    MaxRequests = 3
    None = None
SYMMETRY Symmetry
\* The requests are bounded: the model stops where the server does not.
CHECK_DEADLOCK FALSE
INVARIANTS
  PlansAreHonest
  PlansInTurn
PROPERTIES
  LinksStay
