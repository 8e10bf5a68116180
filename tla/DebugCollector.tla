---------------------------- MODULE DebugCollector ----------------------------
(***************************************************************************)
(* The debug collector: debug-collector.js keeps what a page logs, fetches *)
(* and clicks in three buffers and posts them every two seconds to the     *)
(* development server, whose plugin in vite.config.ts appends them to      *)
(* three files.                                                            *)
(*                                                                         *)
(* An entry is the moment it was pushed at.  What it says is left out, as  *)
(* is the script's start.                                                  *)
(***************************************************************************)
EXTENDS Naturals, FiniteSets, SequencesExt

CONSTANTS
    BufferSize,     \* CONFIG.bufferSize, by kind
    LogSize,        \* MAX_LOG_SIZE_BYTES, in entries
    TrimTarget,     \* TRIM_TARGET_BYTES, in entries
    MaxEntries,     \* bound: the moments at which something is pushed
    MaxFetches,     \* bound: requests of the page under way at once
    MaxReports,     \* bound: reports under way at once
    MaxLogFaults    \* bound: reports that fail, writes that throw and trims that do

ASSUME CollectorAssumption ==
    /\ BufferSize \in [{"console", "network", "ui"} -> Nat]
    /\ LogSize \in Nat /\ TrimTarget \in Nat /\ TrimTarget <= LogSize

VARIABLES
    logPage,        \* "open", or "closed" once it was left
    moment,         \* the moments passed
    logBuffer,      \* store: the entries waiting, by kind
    awaited,        \* requests of the page whose answer, or whose body, is awaited
    reports,        \* payloads posted, with what has become of them
    logFiles,       \* the three log files
    pushed,         \* history: all entries
    cut,            \* history: entries that a limit has dropped, or that went with the page
    refused,        \* history: entries of payloads the server could not write
    beside,         \* history: some payload was posted beside another, or twice
    untrimmed,      \* history: the files whose last trim failed
    logFaults       \* failures so far

collectorVars == <<logPage, moment, logBuffer, awaited, reports, logFiles, pushed, cut, refused, beside,
                  untrimmed, logFaults>>

LogKinds == {"console", "network", "ui"}
NoLogs == [k \in LogKinds |-> <<>>]
EntriesOf(payload) == UNION {{k} \X ToSet(payload[k]) : k \in LogKinds}

CollectorInit ==
    /\ logPage = "open"
    /\ moment = 0
    /\ logBuffer = NoLogs
    /\ awaited = [waiting |-> 0, reading |-> 0]
    /\ reports = {}
    /\ logFiles = NoLogs
    /\ pushed = {}
    /\ cut = {}
    /\ refused = {}
    /\ beside = FALSE
    /\ untrimmed = {}
    /\ logFaults = 0

Newest(n, s) == IF Len(s) <= n THEN s ELSE SubSeq(s, Len(s) - n + 1, Len(s))

\* pruneBuffer
Pruned(k, s) == Newest(BufferSize[k], s)

\* Puts s in the place of the buffers: what does not fit is cut.
HoldsLogs(s) ==
    /\ logBuffer' = [k \in LogKinds |-> Pruned(k, s[k])]
    /\ cut' = cut \cup (EntriesOf(s) \ EntriesOf(logBuffer'))

\* One push to each of the buffers of kinds.
Pushes(kinds) ==
    /\ moment < MaxEntries
    /\ moment' = moment + 1
    /\ pushed' = pushed \cup {<<k, moment + 1>> : k \in kinds}
    /\ HoldsLogs([k \in LogKinds |-> IF k \in kinds THEN Append(logBuffer[k], moment + 1) ELSE logBuffer[k]])

----------------------------------------
(* What the page does.                                                     *)

\* console.log and its like.
ConsoleCall ==
    /\ logPage = "open"
    /\ Pushes({"console"})
    /\ UNCHANGED <<logPage, awaited, reports, logFiles, untrimmed, refused, beside, logFaults>>

\* An uncaught error or rejection is told in both streams.
Uncaught ==
    /\ logPage = "open"
    /\ Pushes({"console", "ui"})
    /\ UNCHANGED <<logPage, awaited, reports, logFiles, untrimmed, refused, beside, logFaults>>

\* A listener of installUiEventListeners hears of something to log.
UiEvent ==
    /\ logPage = "open"
    /\ Pushes({"ui"})
    /\ UNCHANGED <<logPage, awaited, reports, logFiles, untrimmed, refused, beside, logFaults>>

\* The wrapped fetch; the collector's own requests pass by.
FetchBegins ==
    /\ logPage = "open"
    /\ awaited.waiting + awaited.reading < MaxFetches
    /\ awaited' = [awaited EXCEPT !.waiting = @ + 1]
    /\ UNCHANGED <<logPage, moment, logBuffer, reports, logFiles, untrimmed, pushed, cut, refused, beside, logFaults>>

\* A request of the page has ended: what is told of it, and what is still to be read.
RequestEnds(reads, kinds) ==
    /\ logPage = "open"
    /\ awaited.waiting > 0
    /\ awaited' = [waiting |-> awaited.waiting - 1, reading |-> awaited.reading + reads]
    /\ IF kinds = {} THEN UNCHANGED <<moment, logBuffer, pushed, cut>> ELSE Pushes(kinds)
    /\ UNCHANGED <<logPage, reports, logFiles, untrimmed, refused, beside, logFaults>>

\* An error status is also an event.
EventOf(status) == IF status = "error" THEN {"ui"} ELSE {}

\* A body that is not captured (a stream, a binary, a large one) is pushed at once; a text is
\* read in the background, so that the event of an error status comes before the entry.
FetchAnswers(status, captured) ==
    IF captured THEN RequestEnds(1, EventOf(status)) ELSE RequestEnds(0, EventOf(status) \cup {"network"})

\* Read or not, the entry is pushed.
FetchBodyEnds ==
    /\ logPage = "open"
    /\ awaited.reading > 0
    /\ awaited' = [awaited EXCEPT !.reading = @ - 1]
    /\ Pushes({"network"})
    /\ UNCHANGED <<logPage, reports, logFiles, untrimmed, refused, beside, logFaults>>

FetchRejects == RequestEnds(0, {"network", "ui"})

\* An XMLHttpRequest has its whole answer when it loads.
XhrLoads(status) == RequestEnds(0, EventOf(status) \cup {"network"})

XhrErrors == RequestEnds(0, {"network", "ui"})

----------------------------------------
(* The reports.                                                            *)

\* reportLogs, of the interval or forced.
ReportLogs ==
    /\ logPage = "open"
    /\ logBuffer # NoLogs
    /\ Cardinality(reports) < MaxReports
    /\ reports' = reports \cup {[payload |-> logBuffer, written |-> FALSE]}
    /\ logBuffer' = NoLogs
    /\ beside' = (beside \/ reports # {})
    /\ UNCHANGED <<logPage, moment, awaited, logFiles, untrimmed, pushed, cut, refused, logFaults>>

\* Fault: what was pushed meanwhile is overwritten.
PutBackOnly(payload) == payload

\* Before what was pushed meanwhile.
PutBack(payload) == [k \in LogKinds |-> payload[k] \o logBuffer[k]]

\* The catch of a report: no answer came, whatever the server has done.  On a page that was
\* left nobody puts anything back.
ReportFails(r) ==
    /\ logFaults < MaxLogFaults
    /\ logFaults' = logFaults + 1
    /\ reports' = reports \ {r}
    /\ IF logPage = "open"
       THEN /\ HoldsLogs(PutBack(r.payload))
            /\ beside' = (beside \/ r.written)
       ELSE /\ cut' = IF r.written THEN cut ELSE cut \cup EntriesOf(r.payload)
            /\ UNCHANGED <<logBuffer, beside>>
    /\ UNCHANGED <<logPage, moment, awaited, logFiles, untrimmed, pushed, refused>>

ReportAnswered(r) ==
    /\ r.written
    /\ reports' = reports \ {r}
    /\ UNCHANGED <<logPage, moment, logBuffer, awaited, logFiles, untrimmed, pushed, cut, refused, beside, logFaults>>

\* beforeunload, and the page goes.  Its beacon is a string, so that the server has no payload
\* of it and writes nothing (see HandlePayload): what waits is lost.  When the page stays, as
\* for a download, the event changes nothing.
BeforeUnload ==
    /\ logPage = "open"
    /\ logPage' = "closed"
    /\ awaited' = [waiting |-> 0, reading |-> 0]
    /\ logBuffer' = NoLogs
    /\ cut' = cut \cup EntriesOf(logBuffer)
    /\ UNCHANGED <<moment, reports, logFiles, untrimmed, pushed, refused, beside, logFaults>>

----------------------------------------
(* The server.                                                             *)

\* trimLogFile: the newest entries up to the target, once the limit is passed.
Trimmed(s) == IF Len(s) <= LogSize THEN s ELSE Newest(TrimTarget, s)

\* An error ends it and is ignored: the file is whole when nothing was written, or has the first
\* n of what was to be kept.
SpoiltTrim(s, n) == IF n > TrimTarget THEN s ELSE SubSeq(Newest(TrimTarget, s), 1, n)

\* handlePayload writes the three in this order, without giving way, and of each what there is:
\* writeToLogFile appends and then trims.  The first n are reached, the trims of spoilt fail.
WriteOrder == <<"console", "network", "ui">>
Writes(n, payload, spoilt) ==
    LET reached == {WriteOrder[i] : i \in 1..n}
        written == {k \in reached : payload[k] # <<>>}
        appended == [k \in LogKinds |-> logFiles[k] \o payload[k]]
    IN  /\ \A k \in spoilt : k \in written /\ Len(appended[k]) > LogSize
        /\ \E left \in [spoilt -> 0..TrimTarget + 1] :
              logFiles' = [k \in LogKinds |->
                              IF k \in spoilt THEN SpoiltTrim(appended[k], left[k])
                              ELSE IF k \in written THEN Trimmed(appended[k]) ELSE logFiles[k]]
        /\ untrimmed' = (untrimmed \ written) \cup spoilt
        /\ refused' = refused \cup {e \in EntriesOf(payload) : e[1] \notin reached}
        /\ cut' = cut \cup ((EntriesOf(logFiles) \cup {e \in EntriesOf(payload) : e[1] \in reached})
                                \ EntriesOf(logFiles'))

LogFaults(n) ==
    /\ logFaults + n <= MaxLogFaults
    /\ logFaults' = logFaults + n

\* The body of a report is JSON, which express has parsed.  (That of a beacon is text: express
\* leaves an empty object, which has no logs, and the answer is a 200.)
HandlePayload(r, spoilt) ==
    /\ ~r.written
    /\ LogFaults(Cardinality(spoilt))
    /\ Writes(3, r.payload, spoilt)
    /\ reports' = (reports \ {r}) \cup {[r EXCEPT !.written = TRUE]}
    /\ UNCHANGED <<logPage, moment, logBuffer, awaited, pushed, beside>>

\* A write throws: the answer is a 400, and for the page an answer like any other.
WriteThrows(r, n, spoilt) ==
    /\ ~r.written
    /\ LogFaults(Cardinality(spoilt) + 1)
    /\ Writes(n, r.payload, spoilt)
    /\ reports' = reports \ {r}
    /\ UNCHANGED <<logPage, moment, logBuffer, awaited, pushed, beside>>

CollectorNext ==
    \/ ConsoleCall \/ Uncaught \/ UiEvent \/ FetchBegins \/ FetchBodyEnds \/ FetchRejects \/ XhrErrors
    \/ \E status \in {"ok", "error"} :
         \/ \E captured \in BOOLEAN : FetchAnswers(status, captured)
         \/ XhrLoads(status)
    \/ ReportLogs
    \/ BeforeUnload
    \/ \E r \in reports :
         \/ ReportFails(r) \/ ReportAnswered(r)
         \/ \E spoilt \in SUBSET LogKinds :
               HandlePayload(r, spoilt) \/ \E n \in 0..2 : WriteThrows(r, n, spoilt)

----------------------------------------
(* What the collector promises.                                            *)

\* Nothing that was pushed disappears in silence while the page is open: it waits, is under
\* way or is in its file, unless a limit has cut it or the server could not write it.
NoEntryVanishes ==
    pushed \subseteq EntriesOf(logBuffer) \cup EntriesOf(logFiles) \cup cut \cup refused
                        \cup UNION {EntriesOf(r.payload) : r \in reports}

\* While no report is posted beside another or twice, each file has its entries once and in
\* the order they were pushed in, whatever was put back meanwhile.
WrittenInOrder ==
    ~beside => \A k \in LogKinds : \A i \in 1..Len(logFiles[k]) - 1 : logFiles[k][i] < logFiles[k][i + 1]

\* The buffers stay within their limits, and so do the files; but a file whose trim failed
\* may be above until the next write to it.
WithinLimits ==
    \A k \in LogKinds : /\ Len(logBuffer[k]) <= BufferSize[k]
                        /\ Len(logFiles[k]) <= LogSize \/ k \in untrimmed

\* While the page stays open, everything reaches the server in the end.
ReportsArrive == <>[](logBuffer = NoLogs /\ reports = {})

\* debug-collector.js and its server keep what they were told.
LogsAreKept ==
    /\ NoEntryVanishes
    /\ WrittenInOrder
    /\ WithinLimits
=============================================================================
