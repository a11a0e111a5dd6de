--------------------------- MODULE WebFrontProofs ---------------------------
(***************************************************************************)
(* Proofs about WebFront and the HttpTransport under it, for any number of *)
(* attempts and any texts.                                                 *)
(*                                                                         *)
(* The invariant relates what the page shows to the outcome of its call,   *)
(* and the outcome to the attempt that brought it.  The menu needs only    *)
(* the types: that a document has one listener at most is what makes a     *)
(* click on a link close it.                                               *)
(***************************************************************************)
EXTENDS WebFront, InfoCodecProofs, TLAPS

(* An outcome comes with the end of a call; only UnaryRequest is tried.    *)
CallInv ==
  /\ call = "idle" => attempt = 0
  /\ call = "waiting" => method = "UnaryRequest" /\ attempt \in Attempts
  /\ call = "over" <=> outcome # "none"
  /\ outcome = "ok" => attempt \in Attempts

(* Only the weather page shows anything.                                   *)
PageInv ==
  /\ shown # "nothing" => page = "weather"
  /\ shown = "forecast" => outcome = "ok" /\ payload = Forecast

WebInv == WebTypeOK /\ CallInv /\ SuccessIsAnswered /\ PageInv

(* The invariant holds before anything is clicked.                         *)
LEMMA WebInvInit == WebInit => WebInv
<1> SUFFICES ASSUME WebInit PROVE WebInv
  OBVIOUS
<1>1. MaxAttempts \in Nat /\ 0 \in 0 .. MaxAttempts
  BY HttpAssumption
<1>2. checked \in BOOLEAN
  BY Zenon DEF WebInit
<1>3. WebTypeOK
  BY <1>1, <1>2 DEF WebInit, HttpInit, WebTypeOK, HttpOutcomes, Pages
<1>4. QED
  BY <1>3 DEF WebInit, HttpInit, WebInv, CallInv, SuccessIsAnswered, PageInv

(* An execution that comes about or goes on for an attempt that has not    *)
(* been answered changes nothing that was told.                            *)
LEMMA ExecutionStep ==
  ASSUME WebInv, UNCHANGED webVars, NEW i \in Attempts, Arrive(i) \/ Execute(i)
  PROVE  WebInv'
<1>1. PICK how \in {"running", "answered", "threw"} :
        /\ execution[i] # "answered"
        /\ execution' = [execution EXCEPT ![i] = how]
  BY DEF Arrive, Execute
<1>2. UNCHANGED <<requestVars, call, attempt, resultVars, webVars>>
  BY DEF Arrive, Execute
<1>3. execution \in [Attempts -> {"none", "running", "answered", "threw"}]
  BY DEF WebInv, WebTypeOK
<1>4. execution' \in [Attempts -> {"none", "running", "answered", "threw"}]
  BY <1>1, <1>3
<1>5. WebTypeOK'
  BY <1>2, <1>4 DEF WebInv, WebTypeOK, requestVars, resultVars, webVars, menuVars, Attempts
<1>6. outcome = "ok" => execution'[attempt] = "answered"
  BY <1>1, <1>3 DEF WebInv, CallInv, SuccessIsAnswered
<1>7. QED
  BY <1>2, <1>5, <1>6
  DEF WebInv, CallInv, SuccessIsAnswered, PageInv, requestVars, resultVars, webVars, menuVars

(* A call succeeds only by an answer to the attempt it waits for.          *)
LEMMA ResponseStep ==
  ASSUME WebInv, UNCHANGED webVars, Response
  PROVE  WebInv'
<1>1. /\ call = "waiting" /\ execution[attempt] = "answered" /\ call' = "over"
      /\ outcome' \in {"ok", "ArgumentException"} /\ payload' = says
      /\ UNCHANGED <<requestVars, attempt, execution, webVars>>
  BY DEF Response, Ends
<1>2. shown # "forecast"
  BY <1>1 DEF WebInv, CallInv, PageInv
<1>3. WebTypeOK'
  BY <1>1 DEF WebInv, WebTypeOK, HttpOutcomes, requestVars, webVars, menuVars
<1>4. QED
  BY <1>1, <1>2, <1>3
  DEF WebInv, CallInv, SuccessIsAnswered, PageInv, requestVars, webVars, menuVars

(* A failed attempt is followed by another or by an exception.             *)
LEMMA FailureStep ==
  ASSUME WebInv, UNCHANGED webVars, ServerError \/ AttemptFails \/ GiveUp \/ Cancel
  PROVE  WebInv'
<1>1. /\ call = "waiting"
      /\ UNCHANGED <<requestVars, execution, payload, webVars>>
  BY DEF ServerError, AttemptFails, GiveUp, Cancel, Retry
<1>2. shown # "forecast" /\ outcome = "none" /\ attempt \in Attempts
  BY <1>1 DEF WebInv, CallInv, PageInv
<1>3. \/ attempt' = attempt /\ call' = "over" /\ outcome' \in HttpOutcomes \ {"none", "ok"}
      \/ attempt < MaxAttempts /\ attempt' = attempt + 1 /\ UNCHANGED <<call, outcome>>
  BY DEF ServerError, AttemptFails, GiveUp, Cancel, Retry, Ends, HttpOutcomes
<1>4. attempt' \in Attempts
  BY <1>2, <1>3, HttpAssumption DEF Attempts
<1>5. attempt' \in 0 .. MaxAttempts
  BY <1>4, HttpAssumption DEF Attempts
<1>6. method = "UnaryRequest" /\ UNCHANGED method
  BY <1>1 DEF WebInv, CallInv, requestVars
<1>7. WebTypeOK'
  BY <1>1, <1>3, <1>5, <1>6 DEF WebInv, WebTypeOK, HttpOutcomes, webVars, menuVars
<1>8. QED
  BY <1>1, <1>2, <1>3, <1>4, <1>6, <1>7
  DEF WebInv, CallInv, SuccessIsAnswered, PageInv, webVars, menuVars

(* A call begins: UnaryRequest makes its first attempt, the others end.    *)
LEMMA BeginStep ==
  ASSUME WebInv, Begin
  PROVE  /\ call = "idle" /\ attempt' \in 0 .. MaxAttempts
         /\ method # "UnaryRequest" => attempt' = 0
         /\ call' \in {"waiting", "over"} /\ outcome' \in HttpOutcomes
         /\ UNCHANGED execution
         /\ CallInv' /\ SuccessIsAnswered'
<1>1. call = "idle" /\ attempt = 0 /\ outcome = "none"
  BY DEF Begin, WebInv, CallInv, WebTypeOK
<1>2. 1 \in Attempts /\ 0 \in 0 .. MaxAttempts /\ 1 \in 0 .. MaxAttempts
  BY HttpAssumption DEF Attempts
<1>3. HandleResponse("InvalidOp") = "InvalidOperationException"
  BY DEF HandleResponse
<1>4. CASE method = "UnaryRequest"
  <2>1. call' = "waiting" /\ attempt' = 1 /\ outcome' = "none"
        /\ UNCHANGED <<requestVars, execution>>
    BY <1>1, <1>4 DEF Begin
  <2>2. QED
    BY <1>1, <1>2, <1>4, <2>1 DEF CallInv, SuccessIsAnswered, HttpOutcomes, requestVars
<1>5. CASE method # "UnaryRequest"
  <2>1. call' = "over" /\ outcome' = "InvalidOperationException" /\ attempt' = 0
        /\ UNCHANGED <<requestVars, execution>>
    BY <1>1, <1>3, <1>5 DEF Begin, Ends
  <2>2. QED
    BY <1>1, <1>2, <1>5, <2>1 DEF CallInv, SuccessIsAnswered, HttpOutcomes, requestVars
<1>6. QED
  BY <1>4, <1>5

(* What the browser does to the menu keeps its types.                      *)
LEMMA MenuKept ==
  ASSUME WebInv, Browser
  PROVE  /\ width' \in {"narrow", "wide"} /\ checked' \in BOOLEAN
         /\ listeners' \in 0 .. 1 /\ page' \in Pages
<1>1. /\ width \in {"narrow", "wide"} /\ checked \in BOOLEAN
      /\ listeners \in 0 .. 1 /\ page \in Pages
  BY DEF WebInv, WebTypeOK
<1>2. /\ ToggledBy(listeners) \in BOOLEAN
      /\ (~checked) \in BOOLEAN
  BY <1>1, Zenon DEF ToggledBy
<1>3. CASE RunScript \/ Resize \/ ClickToggler \/ ClickBeside
  <2>1. checked' \in {checked, ~checked, ToggledBy(listeners)}
    BY <1>3, Zenon DEF RunScript, Resize, ClickToggler, ClickBeside
  <2>2. /\ width' \in {"narrow", "wide"} /\ page' = page
        /\ listeners' \in 0 .. 1
    BY <1>1, <1>3 DEF RunScript, Resize, ClickToggler, ClickBeside
  <2>3. QED
    BY <1>1, <1>2, <2>1, <2>2
<1>4. CASE ClickBrand
  <2>1. checked' \in {FALSE, checked}
    BY <1>4, Zenon DEF ClickBrand, NewDocument
  <2>2. page' \in Pages /\ width' = width /\ listeners' \in {0, listeners}
    BY <1>4 DEF ClickBrand, NewDocument, Pages
  <2>3. checked' \in BOOLEAN
    BY <1>1, <2>1, Zenon
  <2>4. listeners' \in 0 .. 1
    BY <1>1, <2>2
  <2>5. QED
    BY <1>1, <2>2, <2>3, <2>4
<1>5. CASE OpenWeather \/ OpenOther
  <2>1. PICK p \in Pages : Navigate(p)
    BY <1>5 DEF OpenWeather, OpenOther, Pages
  <2>2. checked' \in {FALSE, ToggledBy(listeners)}
    BY <2>1, Zenon DEF Navigate, KeepDocument, NewDocument
  <2>3. page' \in Pages /\ width' = width /\ listeners' \in {0, listeners}
    BY <2>1 DEF Navigate, KeepDocument, NewDocument
  <2>4. checked' \in BOOLEAN
    BY <1>2, <2>2, Zenon
  <2>5. listeners' \in 0 .. 1
    BY <1>1, <2>3
  <2>6. QED
    BY <1>1, <2>3, <2>4, <2>5
<1>6. QED
  BY <1>3, <1>4, <1>5 DEF Browser

(* A click keeps the invariant, whether it makes the call or leaves it.    *)
LEMMA BrowserStep ==
  ASSUME WebInv, Browser
  PROVE  WebInv'
<1>1. CASE OpenWeather
  <2>1. Begin /\ shown' = "loading" /\ page' = "weather"
    BY <1>1 DEF OpenWeather, Navigate
  <2>2. UNCHANGED method
    BY <2>1 DEF Begin, requestVars
  <2>3. WebTypeOK'
    BY <2>1, <2>2, BeginStep, MenuKept DEF WebInv, WebTypeOK
  <2>4. QED
    BY <2>1, <2>3, BeginStep DEF WebInv, PageInv
<1>2. CASE RunScript \/ Resize \/ ClickToggler \/ ClickBeside \/ OpenOther \/ ClickBrand
  <2>1. UNCHANGED httpVars /\ (UNCHANGED <<page, shown>> \/ shown' = "nothing")
    BY <1>2 DEF RunScript, Resize, ClickToggler, ClickBeside, OpenOther, ClickBrand
  <2>2. WebTypeOK'
    BY <2>1, MenuKept DEF WebInv, WebTypeOK, httpVars, requestVars, resultVars
  <2>3. QED
    BY <2>1, <2>2 DEF WebInv, CallInv, SuccessIsAnswered, PageInv, httpVars, requestVars,
                      resultVars
<1>3. QED
  BY <1>1, <1>2 DEF Browser

(* Every step keeps the invariant.                                         *)
LEMMA WebInductive == WebInv /\ [WebNext]_webSpecVars => WebInv'
<1> SUFFICES ASSUME WebInv, [WebNext]_webSpecVars PROVE WebInv'
  OBVIOUS
<1>1. CASE UNCHANGED webSpecVars
  BY <1>1 DEF WebInv, WebTypeOK, CallInv, SuccessIsAnswered, PageInv, webSpecVars, httpVars,
              requestVars, resultVars, webVars, menuVars
<1>2. CASE Browser
  BY <1>2, BrowserStep
<1>3. CASE Show
  <2>1. /\ UNCHANGED <<httpVars, menuVars, page>> /\ page = "weather"
        /\ shown' = IF outcome = "ok" /\ payload = Forecast THEN "forecast" ELSE "error"
    BY <1>3 DEF Show
  <2>2. QED
    BY <2>1 DEF WebInv, WebTypeOK, CallInv, SuccessIsAnswered, PageInv, httpVars, requestVars,
                resultVars, menuVars
<1>4. CASE OtherCall
  <2>1. Begin /\ UNCHANGED webVars /\ UNCHANGED method
    BY <1>4 DEF OtherCall, Begin, requestVars
  <2>2. WebTypeOK'
    BY <2>1, BeginStep DEF WebInv, WebTypeOK, webVars, menuVars
  <2>3. shown # "forecast"
    BY <2>1, BeginStep DEF WebInv, CallInv, PageInv
  <2>4. QED
    BY <2>1, <2>2, <2>3, BeginStep DEF WebInv, PageInv, webVars
<1>5. CASE Calling
  BY <1>5, ExecutionStep, ResponseStep, FailureStep DEF Calling, Transport
<1>6. CASE WebOver
  BY <1>1, <1>6 DEF WebOver, HttpOver, webSpecVars
<1>7. QED
  BY <1>1, <1>2, <1>3, <1>4, <1>5, <1>6 DEF WebNext

(* The invariant holds throughout.                                         *)
THEOREM WebInvHolds == WebSpec => []WebInv
BY WebInvInit, WebInductive, PTL DEF WebSpec

(* Every variable keeps to its domain; a document has one listener at most *)
(* and a stream never causes a request.                                    *)
THEOREM WebTypeCorrect == WebSpec => []WebTypeOK
<1>1. WebInv => WebTypeOK
  BY DEF WebInv
<1>2. QED
  BY <1>1, WebInvHolds, PTL

(* A success is the application's answer to the attempt waited for.        *)
THEOREM SuccessIsAnsweredHolds == WebSpec => []SuccessIsAnswered
<1>1. WebInv => SuccessIsAnswered
  BY DEF WebInv
<1>2. QED
  BY <1>1, WebInvHolds, PTL

(* The page shows a forecast only if the service sent it one.              *)
THEOREM ForecastIsRealHolds == WebSpec => []ForecastIsReal
<1>1. WebInv => ForecastIsReal
  BY DEF WebInv, PageInv, SuccessIsAnswered, ForecastIsReal
<1>2. QED
  BY <1>1, WebInvHolds, PTL

-----------------------------------------------------------------------------
(* GetAppInfo.                                                             *)

(* What GetAppInfo has returned, or thrown, is what ParseFrom made of the  *)
(* application's text.                                                     *)
ReadInv ==
  /\ Asking => says \in Texts
  /\ Asking /\ outcome \in {"ok", "ArgumentException"} =>
       info = ParseFrom(ThroughPayload(says))

(* What a step does to the AppInfo and to the outcome: nothing, or a       *)
(* failure, or it reads the text.                                          *)
LEMMA ReadingSteps ==
  ASSUME WebInv, [WebNext]_webSpecVars
  PROVE  /\ UNCHANGED <<control, says>>
         /\ \/ UNCHANGED <<outcome, info>>
            \/ outcome' \notin {"ok", "ArgumentException"}
            \/ ~Asking
            \/ info' = ParseFrom(ThroughPayload(says))
<1>1. CASE Begin
  <2>1. HandleResponse("InvalidOp") = "InvalidOperationException"
    BY DEF HandleResponse
  <2> QED
    BY <1>1, <2>1 DEF Begin, Ends, requestVars
<1>2. CASE UNCHANGED httpVars
  BY <1>2 DEF httpVars, requestVars, resultVars
<1>3. CASE Transport
  <2>1. CASE \E i \in Attempts : Arrive(i) \/ Execute(i)
    BY <2>1 DEF Arrive, Execute, requestVars, resultVars
  <2>2. CASE Response
    BY <2>2 DEF Response, requestVars
  <2>3. CASE ServerError \/ AttemptFails \/ GiveUp \/ Cancel
    BY <2>3 DEF ServerError, AttemptFails, GiveUp, Cancel, Retry, Ends, requestVars
  <2> QED
    BY <1>3, <2>1, <2>2, <2>3 DEF Transport
<1>4. CASE Browser
  BY <1>1, <1>2, <1>4 DEF Browser, RunScript, Resize, ClickToggler, ClickBeside, OpenWeather,
                          OpenOther, ClickBrand
<1>5. CASE UNCHANGED webSpecVars
  BY <1>2, <1>5 DEF webSpecVars
<1>6. QED
  BY <1>1, <1>2, <1>3, <1>4, <1>5 DEF WebNext, Show, OtherCall, Calling, WebOver, HttpOver

(* GetAppInfo over HTTP reads from any text an application may answer what *)
(* the text means: the loop of ParseFrom, for texts of any length.         *)
THEOREM ParseFaithfulHolds == WebSpec => []ParseFaithful
<1>1. WebInit => ReadInv
  BY DEF WebInit, HttpInit, ReadInv
<1>2. WebInv /\ ReadInv /\ [WebNext]_webSpecVars => ReadInv'
  <2> SUFFICES ASSUME WebInv, ReadInv, [WebNext]_webSpecVars PROVE ReadInv'
    OBVIOUS
  <2>1. Asking' = Asking /\ says' = says
    BY ReadingSteps DEF Asking
  <2> QED
    BY <2>1, ReadingSteps DEF ReadInv
<1>3. ReadInv => ParseFaithful
  <2> SUFFICES ASSUME ReadInv, Asking, outcome \in {"ok", "ArgumentException"}
               PROVE  info = Meaning(ThroughPayload(says))
    BY DEF ParseFaithful
  <2>1. says \in Seq(Tokens) /\ info = ParseFrom(ThroughPayload(says))
    BY TextsAssumption DEF ReadInv
  <2>2. ThroughPayload(says) \in Seq(Tokens)
    BY <2>1, PayloadIsText, Zenon
  <2> QED
    BY <2>1, <2>2, ParseFromMeaning, Zenon
<1>4. QED
  BY <1>1, <1>2, <1>3, WebInvHolds, PTL DEF WebSpec

-----------------------------------------------------------------------------
(* The menu.                                                               *)

(* On a narrow window a link closes the menu it was chosen from.           *)
THEOREM LinkClosesMenuHolds == WebSpec => LinkClosesMenu
<1> DEFINE Closes == page' \notin {page, "home"} /\ width = "narrow" /\ listeners # 0
                       => ~MenuVisible'
<1>1. ASSUME WebInv, [WebNext]_webSpecVars
      PROVE  [Closes]_webSpecVars
  <2>1. SUFFICES ASSUME page' \notin {page, "home"}, width = "narrow", listeners # 0
                 PROVE  ~MenuVisible'
    OBVIOUS
  <2>2. OpenWeather \/ OpenOther
    BY <1>1, <2>1 DEF WebNext, Browser, RunScript, Resize, ClickToggler, ClickBeside, Show,
                      ClickBrand, OtherCall, Calling, WebOver, webSpecVars, webVars
  <2>3. PICK p \in Pages : Navigate(p)
    BY <2>2 DEF OpenWeather, OpenOther, Pages
  <2>4. listeners = 1 /\ checked
    BY <1>1, <2>1, <2>3 DEF WebInv, WebTypeOK, Navigate, MenuVisible
  <2>5. ToggledBy(listeners) = FALSE
    BY <2>4 DEF ToggledBy
  <2>6. checked' = FALSE /\ width' = "narrow"
    BY <2>1, <2>3, <2>5 DEF Navigate, KeepDocument, NewDocument
  <2>7. QED
    BY <2>6 DEF MenuVisible
<1>2. QED
  BY <1>1, WebInvHolds, PTL DEF WebSpec, LinkClosesMenu

=============================================================================
