-------------------------- MODULE DashboardProofs ---------------------------
(***************************************************************************)
(* Theorems about the page for any number of versions of the status, any   *)
(* of which may fail to be rendered, and any windows.                      *)
(***************************************************************************)
EXTENDS Dashboard, TLAPS

(* An answer that would be taken is not older than what was taken, and no  *)
(* answer is ahead of the server.                                          *)
AnswersAreNew ==
    \A r \in requests : /\ r.data <= version
                        /\ r.current /\ r.data # 0 => lastStatus <= r.data

(* The fingerprint is that of the page, unless its rendering threw.        *)
FingerprintIsDrawn ==
    lastFingerprint.status \notin Broken => page = lastFingerprint

\* What was drawn is not ahead of what was taken.
PageIsPast == page.status <= lastStatus /\ lastFingerprint.status <= lastStatus

\* The types, and the invariant, by what reads and writes them: the inputs of a
\* rendering, what was rendered, and the requests.
InputTypes == /\ lastStatus \in 0 .. version
              /\ pollError \in BOOLEAN
              /\ servingWindow \in Windows
              /\ expanded \in BOOLEAN
              /\ hourly \in {"unloaded", "loading", "loaded", "failed"}

DrawnTypes == /\ lastFingerprint \in Fingerprints
              /\ page \in Fingerprints
              /\ subtitle \in {"", "unavailable", "render failed", "stale", "refreshed"}

RequestTypes == /\ requests \subseteq Request
                /\ \A r \in requests : (r.data = 0) <=> (r.state \in {"waiting", "error"})
                /\ \A r, q \in requests : r.current /\ q.current => r = q

DrawnInv == DrawnTypes /\ FingerprintIsDrawn /\ PageIsPast /\ PageIsCurrent

RequestInv == RequestTypes /\ AnswersAreNew

IInv == /\ version \in Versions /\ hidden \in BOOLEAN /\ booted \in BOOLEAN
        /\ InputTypes /\ RequestInv /\ DrawnInv

-----------------------------------------------------------------------------

LEMMA TypesHold == IInv => TypeOK
  BY DEF IInv, RequestInv, DrawnInv, TypeOK, InputTypes, DrawnTypes, RequestTypes

LEMMA VersionFacts ==
  ASSUME version \in Versions, lastStatus \in 0 .. version
  PROVE  /\ lastStatus \in Int /\ version \in Int
         /\ 0 < version /\ lastStatus <= version
         /\ lastStatus \in 0 .. MaxVersion /\ version \in 0 .. MaxVersion
  BY VersionAssumption DEF Versions

-----------------------------------------------------------------------------
(* The rendering.                                                          *)

\* render(), for any inputs it may be called with.
LEMMA RenderHolds ==
  ASSUME DrawnInv, version' \in Versions, lastStatus \in 0 .. MaxVersion,
         InputTypes', lastStatus <= lastStatus', Render \/ Draw
  PROVE  DrawnInv' /\ page.status <= page'.status
  <1> DEFINE fingerprint == NextFingerprint
  <1>1. lastStatus' \in 0 .. MaxVersion
    BY VersionAssumption DEF InputTypes, Versions
  <1>0. lastStatus \in Int /\ lastStatus' \in Int
    BY <1>1, VersionAssumption
  <1>2. fingerprint \in Fingerprints /\ fingerprint.status = lastStatus'
    BY <1>1 DEF NextFingerprint, InputTypes, Fingerprint, Fingerprints
  <1>3. Drawing = fingerprint
    BY DEF Drawing, NextFingerprint
  <1>4. page.status \in Int /\ lastFingerprint.status \in Int
    <2>1. \A f \in Fingerprints : f.status \in 0 .. MaxVersion
      BY DEF Fingerprints
    <2>2. page.status \in 0 .. MaxVersion /\ lastFingerprint.status \in 0 .. MaxVersion
      BY <2>1 DEF DrawnInv, DrawnTypes
    <2>3. QED  BY <2>2
  <1>5. \/ Skip
        \/ Draw
    BY DEF Render
  <1> HIDE DEF fingerprint
  <1>6. CASE Skip
    <2>1. fingerprint = lastFingerprint /\ UNCHANGED <<lastFingerprint, page>>
      BY <1>6 DEF Skip, fingerprint
    <2>2. subtitle' = IF pollError' THEN "stale" ELSE "refreshed"
      BY <1>6 DEF Skip, SetSubtitle
    <2>3. lastStatus' \notin Broken => page' = fingerprint
      BY <1>2, <2>1 DEF DrawnInv, FingerprintIsDrawn
    <2>4. DrawnTypes' /\ FingerprintIsDrawn'
      BY <2>1, <2>2 DEF DrawnInv, DrawnTypes, FingerprintIsDrawn
    <2>5. PageIsPast' /\ page.status <= page'.status
      BY <1>1, <1>4, <2>1, VersionAssumption DEF DrawnInv, PageIsPast
    <2>6. PageIsCurrent'
      BY <2>2, <2>3 DEF PageIsCurrent, fingerprint, NextFingerprint, Fingerprint
    <2>7. QED  BY <2>4, <2>5, <2>6 DEF DrawnInv
  <1>7. CASE Draw
    <2>1. lastFingerprint' = fingerprint
      BY <1>7 DEF Draw, fingerprint
    <2>2. CASE lastStatus' \in Broken
      <3>1. page' = page /\ subtitle' = "render failed"
        BY <1>7, <2>2 DEF Draw
      <3>2. DrawnTypes' /\ FingerprintIsDrawn' /\ PageIsCurrent'
        BY <1>2, <2>1, <2>2, <3>1
           DEF DrawnInv, DrawnTypes, FingerprintIsDrawn, PageIsCurrent
      <3>3. PageIsPast' /\ page.status <= page'.status
        <4>1. page.status <= lastStatus
          BY DEF DrawnInv, PageIsPast
        <4>2. page'.status = page.status
          BY <3>1
        <4>3. page.status <= lastStatus'
          BY <1>0, <1>4, <4>1
        <4>4. lastFingerprint'.status <= lastStatus'
          BY <1>0, <1>2, <2>1
        <4>5. page'.status <= lastStatus'
          BY <4>2, <4>3
        <4>6. page.status <= page'.status
          BY <1>4, <4>2
        <4>7. QED  BY <4>4, <4>5, <4>6 DEF PageIsPast
      <3>4. QED  BY <3>2, <3>3 DEF DrawnInv
    <2>3. CASE lastStatus' \notin Broken
      <3>1. page' = fingerprint
        BY <1>3, <1>7, <2>3 DEF Draw
      <3>2. subtitle' = IF pollError' THEN "stale" ELSE "refreshed"
        BY <1>7, <2>3 DEF Draw, SetSubtitle
      <3>3. DrawnTypes' /\ FingerprintIsDrawn'
        BY <1>2, <2>1, <3>1, <3>2 DEF DrawnTypes, FingerprintIsDrawn
      <3>4. PageIsPast' /\ page.status <= page'.status
        BY <1>1, <1>2, <1>4, <2>1, <3>1, VersionAssumption DEF DrawnInv, PageIsPast
      <3>5. PageIsCurrent'
        BY <3>1, <3>2 DEF PageIsCurrent, fingerprint, NextFingerprint, Fingerprint
      <3>6. QED  BY <3>3, <3>4, <3>5 DEF DrawnInv
    <2>4. QED  BY <2>2, <2>3
  <1>8. QED  BY <1>5, <1>6, <1>7

\* A forced rendering, of nothing before the first status.
LEMMA ForceRenderHolds ==
  ASSUME DrawnInv, version' \in Versions, lastStatus \in 0 .. MaxVersion,
         InputTypes', lastStatus' = lastStatus, ForceRender
  PROVE  DrawnInv' /\ page.status <= page'.status
  <1>0. lastStatus \in Int /\ lastStatus <= lastStatus'
    BY VersionAssumption
  <1>1. CASE lastStatus' # 0
    BY <1>0, <1>1, RenderHolds DEF ForceRender
  <1>2. CASE lastStatus' = 0
    <2>1. UNCHANGED drawn  BY <1>2 DEF ForceRender
    <2>2. page.status \in 0 .. MaxVersion
      BY <2>1 DEF DrawnInv, DrawnTypes, Fingerprints
    <2>3. page.status <= page'.status
      BY <2>1, <2>2, VersionAssumption DEF drawn
    <2>4. DrawnInv'
      BY <1>2, <2>1 DEF drawn, DrawnInv, DrawnTypes, FingerprintIsDrawn, PageIsPast,
                        PageIsCurrent
    <2>5. QED  BY <2>3, <2>4
  <1>3. QED  BY <1>1, <1>2

-----------------------------------------------------------------------------
(* The requests.                                                           *)

LEMMA BeginRefreshHolds ==
  ASSUME RequestInv, BeginRefresh, version \in Versions, booted \in BOOLEAN,
         version' = version, lastStatus' = lastStatus
  PROVE  RequestInv' /\ booted' \in BOOLEAN
  <1>1. NewRequest(FALSE) \in Request /\ NewRequest(FALSE).data = 0
        /\ NewRequest(FALSE).state = "waiting"
    BY VersionAssumption DEF NewRequest, Request
  <1>2. ASSUME NEW q \in Superseded
        PROVE  /\ q \in Request /\ ~ q.current
               /\ (q.data = 0) <=> (q.state \in {"waiting", "error"})
               /\ q.data <= version
    <2>1. PICK r \in requests : q = [r EXCEPT !.current = FALSE]
      BY <1>2 DEF Superseded
    <2>2. r \in Request
      BY DEF RequestInv, RequestTypes
    <2>3. q \in Request /\ ~ q.current /\ q.data = r.data /\ q.state = r.state
      BY <2>1, <2>2 DEF Request
    <2>4. QED  BY <2>3 DEF RequestInv, RequestTypes, AnswersAreNew
  <1>3. requests' = Superseded \cup {NewRequest(FALSE)}
    BY DEF BeginRefresh
  <1>4. 0 <= version
    BY VersionAssumption DEF Versions
  <1>5. RequestTypes'
    BY <1>1, <1>2, <1>3 DEF RequestTypes
  <1>6. AnswersAreNew'
    BY <1>1, <1>2, <1>3, <1>4 DEF AnswersAreNew
  <1>7. booted' \in BOOLEAN
    BY DEF BeginRefresh
  <1>8. QED  BY <1>5, <1>6, <1>7 DEF RequestInv

\* One request goes on.
LEMMA TurnsHolds ==
  ASSUME IInv, NEW r \in requests, NEW state, NEW data, Turns(r, state, data),
         [r EXCEPT !.state = state, !.data = data] \in Request,
         (data = 0) <=> (state \in {"waiting", "error"}),
         data <= version, r.current /\ data # 0 => lastStatus <= data
  PROVE  RequestInv'
  <1> DEFINE new == [r EXCEPT !.state = state, !.data = data]
  <1>1. r \in Request
    BY DEF IInv, RequestInv, RequestTypes
  <1>2. new.state = state /\ new.data = data /\ new.current = r.current
    BY <1>1 DEF Request
  <1>3. requests' = (requests \ {r}) \cup {new}
    BY DEF Turns
  <1>4. version' = version /\ lastStatus' = lastStatus
    BY DEF Turns, inputs
  <1> HIDE DEF new
  <1>5. RequestTypes'
    BY <1>2, <1>3 DEF IInv, RequestTypes, RequestInv, new
  <1>6. AnswersAreNew'
    BY <1>2, <1>3, <1>4 DEF IInv, RequestInv, AnswersAreNew
  <1>7. QED  BY <1>5, <1>6 DEF RequestInv

LEMMA RequestsGoOn ==
  ASSUME IInv, NEW r \in requests, Answers(r) \/ Arrives(r) \/ Fails(r)
  PROVE  IInv'
  <1>1. /\ r \in Request /\ r.data <= version
        /\ r.current /\ r.data # 0 => lastStatus <= r.data
        /\ (r.data = 0) <=> (r.state \in {"waiting", "error"})
    BY DEF IInv, RequestInv, RequestTypes, AnswersAreNew
  <1>2. /\ lastStatus \in Int /\ version \in Int /\ 0 < version /\ lastStatus <= version
        /\ version \in 0 .. MaxVersion /\ 0 \in 0 .. MaxVersion
    BY VersionFacts, VersionAssumption DEF IInv, InputTypes
  <1>3. RequestInv'
    <2>1. CASE Answers(r)
      <3>1. [r EXCEPT !.state = "answered", !.data = version] \in Request
        BY <1>1, <1>2 DEF Request
      <3>2. Turns(r, "answered", version)
        BY <2>1 DEF Answers
      <3>3. version <= version /\ ~ version = 0
        BY <1>2
      <3>4. QED  BY <1>2, <3>1, <3>2, <3>3, TurnsHolds
    <2>2. CASE Arrives(r)
      <3>1. [r EXCEPT !.state = "data", !.data = r.data] \in Request
        BY <1>1 DEF Request
      <3>2. r.data # 0
        BY <1>1, <2>2 DEF Arrives
      <3>3. QED  BY <1>1, <2>2, <3>1, <3>2, TurnsHolds DEF Arrives
    <2>3. CASE Fails(r)
      <3>1. [r EXCEPT !.state = "error", !.data = 0] \in Request
        BY <1>1, <1>2 DEF Request
      <3>2. Turns(r, "error", 0)
        BY <2>3 DEF Fails
      <3>3. 0 <= version
        BY <1>2
      <3>4. QED  BY <3>1, <3>2, <3>3, TurnsHolds
    <2>4. QED  BY <2>1, <2>2, <2>3
  <1>4. UNCHANGED <<version, hidden, booted, inputs, drawn>>
    BY DEF Answers, Arrives, Fails, Turns
  <1>5. InputTypes' /\ DrawnInv'
    BY <1>4
       DEF IInv, inputs, drawn, InputTypes, DrawnInv, DrawnTypes, FingerprintIsDrawn,
           PageIsPast, PageIsCurrent
  <1>6. QED  BY <1>3, <1>4, <1>5 DEF IInv

\* A refresh that returns leaves the others.
LEMMA ReturnsHolds ==
  ASSUME IInv, NEW r \in requests, Returns(r),
         lastStatus' = lastStatus \/ (r.current /\ r.data # 0 /\ lastStatus' = r.data)
  PROVE  /\ RequestInv' /\ version' = version
         /\ version' \in Versions /\ hidden' \in BOOLEAN /\ booted' \in BOOLEAN
         /\ lastStatus <= lastStatus' /\ lastStatus' \in 0 .. version'
  <1>1. requests' = requests \ {r} /\ version' = version /\ hidden' = hidden
    BY DEF Returns
  <1>2. r \in Request /\ r.first \in BOOLEAN
    BY DEF IInv, RequestInv, RequestTypes, Request
  <1>3. booted' \in BOOLEAN
    BY <1>2 DEF Returns, IInv
  <1>4. /\ lastStatus \in Int /\ version \in Int /\ lastStatus \in 0 .. version
        /\ lastStatus <= version
    BY VersionFacts DEF IInv, InputTypes
  <1>5. r.data \in 0 .. MaxVersion /\ r.data <= version
    BY <1>2 DEF Request, IInv, RequestInv, AnswersAreNew
  <1>6. r.data \in Int /\ r.data \in 0 .. version
    BY <1>4, <1>5, VersionAssumption
  <1>7. RequestTypes'
    BY <1>1 DEF IInv, RequestInv, RequestTypes
  <1>8. CASE lastStatus' = lastStatus
    <2>1. AnswersAreNew'
      BY <1>1, <1>8 DEF IInv, RequestInv, AnswersAreNew
    <2>2. lastStatus <= lastStatus'
      BY <1>4, <1>8
    <2>3. QED  BY <1>1, <1>3, <1>4, <1>7, <1>8, <2>1, <2>2 DEF IInv, RequestInv
  <1>9. CASE r.current /\ r.data # 0 /\ lastStatus' = r.data
    <2>1. \A q \in requests' : ~ q.current
      BY <1>1, <1>9 DEF IInv, RequestInv, RequestTypes
    <2>2. AnswersAreNew'
      BY <1>1, <2>1 DEF IInv, RequestInv, AnswersAreNew
    <2>3. lastStatus <= lastStatus'
      BY <1>9 DEF IInv, RequestInv, AnswersAreNew
    <2>4. QED  BY <1>1, <1>3, <1>6, <1>7, <1>9, <2>2, <2>3 DEF IInv, RequestInv
  <1>10. QED  BY <1>8, <1>9

-----------------------------------------------------------------------------
(* The steps.  None goes back to an older status.                          *)

NotBack == lastStatus' >= lastStatus /\ page'.status >= page.status

\* Nothing that is rendered, and nothing drawn, changes.
LEMMA UndrawnHolds ==
  ASSUME IInv, UNCHANGED <<inputs, drawn>>, version' \in Versions, version <= version',
         hidden' \in BOOLEAN, booted' \in BOOLEAN, RequestInv'
  PROVE  IInv' /\ NotBack
  <1>1. /\ lastStatus \in Int /\ version \in Int /\ 0 <= lastStatus
        /\ lastStatus <= version
    BY VersionFacts DEF IInv, InputTypes
  <1>2. version' \in Int
    BY VersionAssumption DEF Versions
  <1>3. lastStatus \in 0 .. version'
    BY <1>1, <1>2
  <1>4. InputTypes' /\ DrawnInv'
    BY <1>3
       DEF IInv, inputs, drawn, InputTypes, DrawnInv, DrawnTypes, FingerprintIsDrawn,
           PageIsPast, PageIsCurrent
  <1>5. page.status \in 0 .. MaxVersion
    BY DEF IInv, DrawnInv, DrawnTypes, Fingerprints
  <1>6. page.status >= page.status /\ lastStatus >= lastStatus
    BY <1>1, <1>5, VersionAssumption
  <1>7. NotBack
    BY <1>6 DEF NotBack, inputs, drawn
  <1>8. QED  BY <1>4, <1>7 DEF IInv

LEMMA HandleDataHolds ==
  ASSUME IInv, NEW r \in requests, HandleData(r)
  PROVE  IInv' /\ NotBack
  <1>1. r \in Request /\ r.data # 0 /\ r.data \in 0 .. MaxVersion
    BY DEF HandleData, IInv, RequestInv, RequestTypes, Request
  <1>2. Returns(r) /\ UNCHANGED <<servingWindow, expanded>>
    BY DEF HandleData
  <1>3. CASE r.current
    <2>1. lastStatus' = r.data /\ pollError' = FALSE /\ Render
      BY <1>3 DEF HandleData, IsCurrent
    <2>2. hourly' \in {"unloaded", "loading", "loaded", "failed"}
      BY <1>3 DEF HandleData, IsCurrent, IInv, InputTypes
    <2>3. /\ RequestInv' /\ version' \in Versions /\ hidden' \in BOOLEAN
          /\ booted' \in BOOLEAN /\ lastStatus <= lastStatus'
          /\ lastStatus' \in 0 .. version'
      BY <1>1, <1>2, <1>3, <2>1, ReturnsHolds
    <2>4. InputTypes'
      BY <1>2, <2>1, <2>2, <2>3 DEF IInv, InputTypes
    <2>5. lastStatus \in 0 .. MaxVersion
      BY VersionFacts DEF IInv, InputTypes
    <2>6. DrawnInv' /\ page.status <= page'.status
      BY <2>1, <2>3, <2>4, <2>5, RenderHolds DEF IInv
    <2>7. QED  BY <2>3, <2>4, <2>6 DEF IInv, NotBack
  <1>4. CASE ~ r.current
    <2>1. UNCHANGED <<inputs, drawn>>
      BY <1>2, <1>4 DEF HandleData, IsCurrent, inputs
    <2>2. lastStatus' = lastStatus  BY <2>1 DEF inputs
    <2>3. /\ RequestInv' /\ version' = version /\ version' \in Versions
          /\ hidden' \in BOOLEAN /\ booted' \in BOOLEAN
      BY <1>2, <2>2, ReturnsHolds
    <2>4. version <= version'
      BY <2>3, VersionFacts DEF IInv, InputTypes
    <2>5. QED  BY <2>1, <2>3, <2>4, UndrawnHolds
  <1>5. QED  BY <1>3, <1>4

LEMMA HandleErrorHolds ==
  ASSUME IInv, NEW r \in requests, HandleError(r)
  PROVE  IInv' /\ NotBack
  <1>1. /\ Returns(r) /\ lastStatus' = lastStatus
        /\ UNCHANGED <<servingWindow, expanded, hourly>>
    BY DEF HandleError
  <1>2. /\ RequestInv' /\ version' = version /\ version' \in Versions
        /\ hidden' \in BOOLEAN /\ booted' \in BOOLEAN
        /\ lastStatus <= lastStatus' /\ lastStatus' \in 0 .. version'
    BY <1>1, ReturnsHolds
  <1>3. pollError' \in BOOLEAN
    BY DEF HandleError, IInv, InputTypes
  <1>4. InputTypes'
    BY <1>1, <1>2, <1>3 DEF IInv, InputTypes
  <1>5. lastStatus \in 0 .. MaxVersion
    BY VersionFacts DEF IInv, InputTypes
  <1>6. CASE r.current /\ lastStatus # 0
    <2>1. Render  BY <1>6 DEF HandleError, IsCurrent
    <2>2. DrawnInv' /\ page.status <= page'.status
      BY <1>2, <1>4, <1>5, <2>1, RenderHolds DEF IInv
    <2>3. QED  BY <1>2, <1>4, <2>2 DEF IInv, NotBack
  <1>7. CASE r.current /\ lastStatus = 0
    <2>1. subtitle' = "unavailable" /\ UNCHANGED <<lastFingerprint, page>>
      BY <1>7 DEF HandleError, IsCurrent
    <2>2. DrawnInv'
      BY <1>1, <1>7, <2>1
         DEF IInv, DrawnInv, DrawnTypes, FingerprintIsDrawn, PageIsPast, PageIsCurrent
    <2>3. page.status \in 0 .. MaxVersion
      BY DEF IInv, DrawnInv, DrawnTypes, Fingerprints
    <2>4. page.status <= page'.status
      BY <2>1, <2>3, VersionAssumption
    <2>5. QED  BY <1>2, <1>4, <2>2, <2>4 DEF IInv, NotBack
  <1>8. CASE ~ r.current
    <2>1. UNCHANGED <<inputs, drawn>>
      BY <1>1, <1>8 DEF HandleError, IsCurrent, inputs
    <2>2. version <= version'
      BY <1>2, VersionFacts DEF IInv, InputTypes
    <2>3. QED  BY <1>2, <2>1, <2>2, UndrawnHolds
  <1>9. QED  BY <1>6, <1>7, <1>8

\* A control, or the hourly module: the page is rendered by force.
LEMMA ControlHolds ==
  ASSUME IInv, UNCHANGED <<version, hidden, booted, requests, lastStatus, pollError>>,
         servingWindow' \in Windows, expanded' \in BOOLEAN,
         hourly' \in {"unloaded", "loading", "loaded", "failed"}, ForceRender
  PROVE  IInv' /\ NotBack
  <1>1. InputTypes' /\ RequestInv'
    BY DEF IInv, InputTypes, RequestInv, RequestTypes, AnswersAreNew
  <1>2. lastStatus \in 0 .. MaxVersion /\ lastStatus \in Int
    BY VersionFacts DEF IInv, InputTypes
  <1>3. DrawnInv' /\ page.status <= page'.status
    BY <1>1, <1>2, ForceRenderHolds DEF IInv
  <1>4. lastStatus' >= lastStatus
    BY <1>2
  <1>5. QED  BY <1>1, <1>3, <1>4 DEF IInv, NotBack

LEMMA HourlyFailsHolds ==
  ASSUME IInv, HourlyFails
  PROVE  IInv' /\ NotBack
  <1>1. /\ UNCHANGED <<version, hidden, booted, requests, lastStatus, pollError,
                       servingWindow, expanded, drawn>>
        /\ hourly # "loaded" /\ hourly' = "failed"
    BY DEF HourlyFails
  <1>2. InputTypes' /\ RequestInv'
    BY <1>1 DEF IInv, InputTypes, RequestInv, RequestTypes, AnswersAreNew
  <1>3. PageIsCurrent'
    BY <1>1 DEF IInv, DrawnInv, drawn, PageIsCurrent
  <1>4. DrawnInv'
    BY <1>1, <1>3 DEF IInv, drawn, DrawnInv, DrawnTypes, FingerprintIsDrawn, PageIsPast
  <1>5. page.status \in 0 .. MaxVersion /\ lastStatus \in Int
    BY VersionFacts DEF IInv, InputTypes, DrawnInv, DrawnTypes, Fingerprints
  <1>6. lastStatus' >= lastStatus /\ page'.status >= page.status
    BY <1>1, <1>5, VersionAssumption DEF drawn
  <1>7. QED  BY <1>1, <1>2, <1>4, <1>6 DEF IInv, NotBack

LEMMA InitHolds == Init => IInv
  <1> SUFFICES ASSUME Init PROVE IInv  OBVIOUS
  <1> DEFINE blank == Fingerprint(0, FALSE, servingWindow, FALSE, FALSE)
  <1>1. 0 \in 0 .. MaxVersion /\ 1 \in Versions /\ 0 \in 0 .. 1 /\ 0 <= 1 /\ 0 <= 0
    BY VersionAssumption DEF Versions
  <1>2. blank \in Fingerprints /\ blank.status = 0
    BY <1>1 DEF Init, Fingerprint, Fingerprints
  <1>3. NewRequest(TRUE) \in Request /\ NewRequest(TRUE).data = 0
        /\ NewRequest(TRUE).state = "waiting"
    BY <1>1 DEF NewRequest, Request
  <1>4. RequestInv
    BY <1>1, <1>3 DEF Init, RequestInv, RequestTypes, AnswersAreNew
  <1>5. DrawnInv
    BY <1>1, <1>2
       DEF Init, DrawnInv, DrawnTypes, FingerprintIsDrawn, PageIsPast, PageIsCurrent
  <1>6. InputTypes
    BY <1>1 DEF Init, InputTypes
  <1>7. QED  BY <1>1, <1>4, <1>5, <1>6 DEF Init, IInv

LEMMA NextHolds == IInv /\ [Next]_vars => IInv' /\ [NotBack]_vars
  <1> SUFFICES ASSUME IInv, Next \/ UNCHANGED vars PROVE IInv' /\ [NotBack]_vars
    OBVIOUS
  <1>1. version \in Int /\ version <= version
    BY VersionFacts DEF IInv, InputTypes
  <1>2. CASE Poll \/ Show
    <2>1. /\ BeginRefresh /\ UNCHANGED <<version, inputs, drawn>>
          /\ hidden' \in BOOLEAN
      BY <1>2 DEF Poll, Show, IInv
    <2>2. RequestInv' /\ booted' \in BOOLEAN
      BY <2>1, BeginRefreshHolds DEF IInv, inputs
    <2>3. QED  BY <1>1, <2>1, <2>2, UndrawnHolds DEF IInv
  <1>3. CASE Hide \/ ServerChanges
    <2>1. /\ UNCHANGED <<booted, requests, inputs, drawn>>
          /\ hidden' \in BOOLEAN
      BY <1>3 DEF Hide, ServerChanges, IInv
    <2>2. version' \in Versions /\ version <= version'
      <3>1. CASE Hide  BY <1>1, <3>1 DEF Hide, IInv
      <3>2. CASE ServerChanges
        BY <1>1, <3>2, VersionAssumption DEF ServerChanges, IInv, Versions
      <3>3. QED  BY <1>3, <3>1, <3>2
    <2>3. AnswersAreNew'
      <3> SUFFICES ASSUME NEW r \in requests PROVE r.data <= version'
        BY <2>1 DEF IInv, RequestInv, AnswersAreNew, inputs
      <3>1. r.data \in 0 .. MaxVersion /\ r.data <= version
        BY DEF IInv, RequestInv, RequestTypes, AnswersAreNew, Request
      <3>2. version' \in Int  BY <2>2, VersionAssumption DEF Versions
      <3>3. QED  BY <1>1, <2>2, <3>1, <3>2, VersionAssumption
    <2>4. RequestInv'
      BY <2>1, <2>3 DEF IInv, RequestInv, RequestTypes
    <2>5. QED  BY <2>1, <2>2, <2>4, UndrawnHolds DEF IInv
  <1>4. ASSUME NEW r \in requests, Answers(r) \/ Arrives(r) \/ Fails(r)
        PROVE  IInv' /\ NotBack
    <2>1. UNCHANGED <<inputs, drawn>> /\ version' = version
      BY <1>4 DEF Answers, Arrives, Fails, Turns
    <2>2. IInv'  BY <1>4, RequestsGoOn
    <2>3. QED  BY <1>1, <2>1, <2>2, UndrawnHolds DEF IInv
  <1>5. ASSUME NEW r \in requests, HandleData(r) \/ HandleError(r)
        PROVE  IInv' /\ NotBack
    BY <1>5, HandleDataHolds, HandleErrorHolds
  <1>6. CASE HourlyLoads
    BY <1>6, ControlHolds DEF HourlyLoads, IInv, InputTypes
  <1>7. CASE HourlyFails
    BY <1>7, HourlyFailsHolds
  <1>8. ASSUME NEW w \in Windows, ChooseWindow(w) PROVE IInv' /\ NotBack
    BY <1>8, ControlHolds DEF ChooseWindow, IInv, InputTypes
  <1>9. CASE ToggleExpand
    BY <1>9, ControlHolds DEF ToggleExpand, IInv, InputTypes
  <1>10. CASE UNCHANGED vars
    <2>1. RequestInv' /\ UNCHANGED <<version, hidden, booted, inputs, drawn>>
      BY <1>10 DEF vars, inputs, IInv, RequestInv, RequestTypes, AnswersAreNew
    <2>2. QED  BY <1>1, <2>1, UndrawnHolds DEF IInv
  <1>11. QED
    BY <1>2, <1>3, <1>4, <1>5, <1>6, <1>7, <1>8, <1>9, <1>10 DEF Next

-----------------------------------------------------------------------------

(* The script's requests, what it has taken and the page hang together at  *)
(* every moment, however answers and aborts overlap (dashboard.js).        *)
THEOREM Invariance == Spec => []IInv
  BY InitHolds, NextHolds, PTL DEF Spec

(* The state stays in its types.                                           *)
THEOREM TypeCorrect == Spec => []TypeOK
  BY Invariance, TypesHold, PTL

(* Whatever overlaps, fails or is skipped, the page is that of the         *)
(* script's state (render and its fingerprint in dashboard.js).            *)
THEOREM PagesAreCurrent == Spec => []PageIsCurrent
  <1>1. IInv => PageIsCurrent  BY DEF IInv, DrawnInv
  <1>2. QED  BY <1>1, Invariance, PTL

(* No order of answers takes the page back (makeRefreshGate).              *)
THEOREM PagesNeverGoBack == Spec => NeverBack
  <1>1. IInv /\ [Next]_vars =>
            [lastStatus' >= lastStatus /\ page'.status >= page.status]_vars
    BY NextHolds DEF NotBack
  <1>2. QED  BY <1>1, Invariance, PTL DEF Spec, NeverBack
=============================================================================
