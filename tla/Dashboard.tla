----------------------------- MODULE Dashboard ------------------------------
(***************************************************************************)
(* The page (src/fleet/static/dashboard.js and makeRefreshGate of ui.js):  *)
(* refreshes start every minute and when the tab comes back, each aborting *)
(* the one before; answers and failures come in any order; a fingerprint   *)
(* of what a rendering depends on spares it when nothing changed.  Between *)
(* two awaits the script runs undisturbed, so that each action is the      *)
(* script from one event to its next await.                                *)
(***************************************************************************)
EXTENDS Integers

CONSTANTS
    MaxVersion,    \* bound on the versions of the server's status
    Broken,        \* versions whose rendering throws
    Windows        \* values of the serving window

ASSUME VersionAssumption == MaxVersion \in Nat \ {0} /\ Broken \subseteq Nat
ASSUME WindowsAssumption == Windows # {}

VARIABLES
    version,          \* the status the server would answer now
    hidden,           \* document.hidden
    booted,           \* the first refresh is over: setInterval runs
    requests,         \* the refreshes that have not returned
    lastStatus,       \* version of lastStatus, 0 for null
    pollError,        \* whether it is set
    servingWindow,
    expanded,         \* whether the host is in payoutExpand
    hourly,           \* "unloaded", "loading", "loaded" or "failed"
    lastFingerprint,
    page,             \* what #hosts was last rendered from
    subtitle

inputs == <<lastStatus, pollError, servingWindow, expanded, hourly>>
drawn == <<lastFingerprint, page, subtitle>>
vars == <<version, hidden, booted, requests, inputs, drawn>>

Versions == 1 .. MaxVersion

(* A request waits for the server, is answered by it, or its fetch has     *)
(* settled with the data or an error, which its await has yet to hand on.  *)
(* It is current while its token is the gate's latest.                     *)
Request == [state : {"waiting", "answered", "data", "error"},
            data : 0 .. MaxVersion, current : BOOLEAN, first : BOOLEAN]

Fingerprint(status, error, window, isExpanded, isHourly) ==
    [status |-> status, error |-> error, window |-> window,
     expanded |-> isExpanded, hourly |-> isHourly]

Fingerprints == [status : 0 .. MaxVersion, error : BOOLEAN, window : Windows,
                 expanded : BOOLEAN, hourly : BOOLEAN]

TypeOK == /\ version \in Versions
          /\ hidden \in BOOLEAN
          /\ booted \in BOOLEAN
          /\ requests \subseteq Request
          /\ \A r \in requests : (r.data = 0) <=> (r.state \in {"waiting", "error"})
          /\ \A r, q \in requests : r.current /\ q.current => r = q
          /\ lastStatus \in 0 .. version
          /\ pollError \in BOOLEAN
          /\ servingWindow \in Windows
          /\ expanded \in BOOLEAN
          /\ hourly \in {"unloaded", "loading", "loaded", "failed"}
          /\ lastFingerprint \in Fingerprints
          /\ page \in Fingerprints
          /\ subtitle \in {"", "unavailable", "render failed", "stale", "refreshed"}

NewRequest(isFirst) == [state |-> "waiting", data |-> 0, current |-> TRUE, first |-> isFirst]

(* The script has run up to the await of its first refresh.                *)
Init == /\ version = 1
        /\ hidden \in BOOLEAN
        /\ booted = hidden
        /\ requests = IF hidden THEN {} ELSE {NewRequest(TRUE)}
        /\ lastStatus = 0
        /\ pollError = FALSE
        /\ servingWindow \in Windows
        /\ expanded = FALSE
        /\ hourly = "unloaded"
        /\ lastFingerprint = Fingerprint(0, FALSE, servingWindow, FALSE, FALSE)
        /\ page = lastFingerprint
        /\ subtitle = ""

-----------------------------------------------------------------------------
(* render() of the inputs as they are after the step.                      *)

\* Mutant of NextFingerprint: the error is not part of it.
NextFingerprintNoError ==
    Fingerprint(lastStatus', FALSE, servingWindow', expanded', hourly' = "loaded")

NextFingerprint ==
    Fingerprint(lastStatus', pollError', servingWindow', expanded', hourly' = "loaded")

Drawing == Fingerprint(lastStatus', pollError', servingWindow', expanded', hourly' = "loaded")

SetSubtitle == subtitle' = IF pollError' THEN "stale" ELSE "refreshed"

Skip == /\ NextFingerprint = lastFingerprint
        /\ UNCHANGED <<lastFingerprint, page>>
        /\ SetSubtitle

Draw == /\ lastFingerprint' = NextFingerprint
        /\ IF lastStatus' \in Broken
           THEN page' = page /\ subtitle' = "render failed"
           ELSE page' = Drawing /\ SetSubtitle

Render == Skip \/ (NextFingerprint # lastFingerprint /\ Draw)

ForceRender == IF lastStatus' # 0 THEN Draw ELSE UNCHANGED drawn

-----------------------------------------------------------------------------
(* refresh(): it takes a token, and aborts the request before it, whose    *)
(* await hands the abort on; one that has settled already is superseded.   *)

Superseded == {[r EXCEPT !.current = FALSE] :
                  r \in {q \in requests : q.state \in {"data", "error"}}}

BeginRefresh == /\ requests' = Superseded \cup {NewRequest(FALSE)}
                /\ booted' = (booted \/ \E r \in requests : r.first /\ r.state \in {"waiting", "answered"})

\* Mutant of Poll: the new refresh leaves the gate's token alone.
PollSameToken ==
    /\ booted /\ ~ hidden
    /\ requests' = requests \cup {NewRequest(FALSE)}
    /\ UNCHANGED <<version, hidden, booted, inputs, drawn>>

(* setInterval fires.                                                      *)
Poll == /\ booted /\ ~ hidden
        /\ BeginRefresh
        /\ UNCHANGED <<version, hidden, inputs, drawn>>

(* visibilitychange.                                                       *)
Show == /\ hidden
        /\ hidden' = FALSE
        /\ BeginRefresh
        /\ UNCHANGED <<version, inputs, drawn>>

Hide == /\ ~ hidden
        /\ hidden' = TRUE
        /\ UNCHANGED <<version, booted, requests, inputs, drawn>>

(* The server's status changes, and answers a request; the answer arrives, *)
(* or a network or HTTP error, or a malformed payload.                     *)
ServerChanges == /\ version < MaxVersion
                 /\ version' = version + 1
                 /\ UNCHANGED <<hidden, booted, requests, inputs, drawn>>

Turns(r, state, data) ==
    /\ requests' = (requests \ {r}) \cup {[r EXCEPT !.state = state, !.data = data]}
    /\ UNCHANGED <<version, hidden, booted, inputs, drawn>>

Answers(r) == r.state = "waiting" /\ Turns(r, "answered", version)

Arrives(r) == r.state = "answered" /\ Turns(r, "data", r.data)

Fails(r) == r.state \in {"waiting", "answered"} /\ Turns(r, "error", 0)

\* Mutant of Returns: a first refresh that fails ends the script.
ReturnsUnbooted(r) == /\ requests' = requests \ {r}
                      /\ booted' = (booted \/ (r.first /\ r.state = "data"))
                      /\ UNCHANGED <<version, hidden>>

Returns(r) == /\ requests' = requests \ {r}
              /\ booted' = (booted \/ r.first)
              /\ UNCHANGED <<version, hidden>>

\* Mutant of IsCurrent: no gate.
IsCurrentAlways(r) == TRUE

IsCurrent(r) == r.current

(* applyStatus, then render.                                               *)
HandleData(r) ==
    /\ r.state = "data"
    /\ Returns(r)
    /\ UNCHANGED <<servingWindow, expanded>>
    /\ IF IsCurrent(r)
       THEN /\ lastStatus' = r.data
            /\ pollError' = FALSE
            /\ hourly' = IF hourly = "unloaded" /\ r.data \notin Broken
                         THEN "loading" ELSE hourly
            /\ Render
       ELSE UNCHANGED <<lastStatus, pollError, hourly, drawn>>

(* applyPollError, then render once there is something to show.            *)
HandleError(r) ==
    /\ r.state = "error"
    /\ Returns(r)
    /\ UNCHANGED <<servingWindow, expanded, lastStatus, hourly>>
    /\ IF IsCurrent(r)
       THEN /\ pollError' = TRUE
            /\ IF lastStatus # 0 THEN Render
               ELSE subtitle' = "unavailable" /\ UNCHANGED <<lastFingerprint, page>>
       ELSE UNCHANGED <<pollError, drawn>>

-----------------------------------------------------------------------------
(* The rest of the page.                                                   *)

(* The import of hourly.js, once it is requested: a failed one is kept in  *)
(* hourlyLoad and not repeated.                                            *)
HourlyLoads == /\ hourly = "loading"
               /\ hourly' = "loaded"
               /\ UNCHANGED <<version, hidden, booted, requests,
                              lastStatus, pollError, servingWindow, expanded>>
               /\ ForceRender

HourlyFails == /\ hourly = "loading"
               /\ hourly' = "failed"
               /\ UNCHANGED <<version, hidden, booted, requests,
                              lastStatus, pollError, servingWindow, expanded, drawn>>

ChooseWindow(w) == /\ servingWindow' = w
                   /\ UNCHANGED <<version, hidden, booted, requests,
                                  lastStatus, pollError, expanded, hourly>>
                   /\ ForceRender

\* The button is there once the host's card is.
ToggleExpand == /\ page.status # 0
                /\ expanded' = ~ expanded
                /\ UNCHANGED <<version, hidden, booted, requests,
                               lastStatus, pollError, servingWindow, hourly>>
                /\ ForceRender

Next == \/ Poll \/ Show \/ Hide \/ ServerChanges
        \/ \E r \in requests : \/ Answers(r) \/ Arrives(r) \/ Fails(r)
                               \/ HandleData(r) \/ HandleError(r)
        \/ HourlyLoads \/ HourlyFails
        \/ \E w \in Windows : ChooseWindow(w)
        \/ ToggleExpand

Spec == Init /\ [][Next]_vars

(* Timers fire, settled promises are handed on, and the server's answers   *)
(* are not all lost or overtaken by the next poll.                         *)
Fairness == /\ WF_vars(Poll)
            /\ SF_vars(\E r \in requests : r.current /\ Answers(r))
            /\ SF_vars(\E r \in requests : r.current /\ Arrives(r))
            /\ SF_vars(\E r \in requests : r.current /\ HandleData(r))
            /\ WF_vars(\E r \in requests : ~ r.current /\ HandleData(r))
            /\ WF_vars(\E r \in requests : HandleError(r))

FairSpec == Spec /\ Fairness

-----------------------------------------------------------------------------
(* Properties.                                                             *)

(* The page is a function of the script's state between any two events:    *)
(* no change of the status, the error, the window, the expanded host or    *)
(* the hourly module is lost to a fingerprint that did not see it.  (Ages  *)
(* that a rendering takes from the browser's clock are of its moment; they *)
(* are not in the page here.)                                              *)
PageIsCurrent ==
    (lastStatus # 0 /\ lastStatus \notin Broken) =>
        /\ page = Fingerprint(lastStatus, pollError, servingWindow, expanded,
                              hourly = "loaded")
        /\ subtitle = IF pollError THEN "stale" ELSE "refreshed"

(* The page never goes back to an older status, in whatever order the      *)
(* answers of overlapping refreshes come.                                  *)
NeverBack == [][lastStatus' >= lastStatus /\ page'.status >= page.status]_vars

(* A tab that stays in view catches up with the server, whatever its first *)
(* refresh came to.                                                        *)
CatchesUp == \A v \in Versions : version = v ~> (lastStatus >= v \/ hidden)
=============================================================================
