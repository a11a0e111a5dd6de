------------------------- MODULE ConduitServerProofs -------------------------
(***************************************************************************)
(* Proofs of the safety properties of ConduitServer for every value of     *)
(* its constants.  The inductive invariant has three parts besides TypeOK: *)
(* what precedes the call (NotStarted), the request side (PumpInv) and the *)
(* response side (StreamInv for the downloading methods, SingleInv for the *)
(* two that answer once).                                                  *)
(***************************************************************************)
EXTENDS ConduitServer, TLAPS

Testing == {"testAlt", "testCancel", "testDeadline"}

NotStarted ==
  /\ main = "created" <=> app = "idle"
  /\ main = "created" => /\ pump = "idle" /\ alt = "None"
                         /\ requests = <<>> /\ arrivals = <<>> /\ out = <<>>

(* A verdict once given remains true.                                      *)
Justified(c) ==
  /\ c = "Timeout"   => Expired
  /\ c = "Cancelled" => cancelled

(* The request side.  The request under test is the last one taken, and    *)
(* only that one may be late; past the first test it is not for the token. *)
PumpInv ==
  /\ alt # "None" <=> pump = "cut"
  /\ Justified(alt)
  /\ ~Uploading => pump = "idle"
  /\ Len(requests) =
       Len(fed) + IF pump \in {"testCancel", "testDeadline", "cut"} THEN 1 ELSE 0
  /\ \A i \in DOMAIN fed : fed[i] = i /\ requests[i] = "None"
  /\ \A i \in DOMAIN requests : Justified(requests[i])
  /\ pump = "testDeadline" => requests[Len(requests)] # "Cancelled"

(* The response side of ServerStream and DuplexStream.                     *)
StreamInv ==
  Downloading =>
    /\ main # "returning"
    /\ Len(arrivals) = Len(out) + IF main \in Testing THEN 1 ELSE 0
    /\ main \in Testing =>
         /\ arrivals[Len(arrivals)].alt # "None" => main = "testAlt"
         /\ arrivals[Len(arrivals)].verdict = "Cancelled" => main # "testDeadline"
    /\ main \in {"yielded", "last"} => Len(out) > 0
    /\ \A i \in DOMAIN arrivals :
         /\ Justified(arrivals[i].verdict)
         /\ arrivals[i].alt # "None" => alt = arrivals[i].alt
    /\ \A i \in DOMAIN out :
         \/ out[i] = PayloadResponse(i) /\ ~Late(arrivals[i])
         \/ /\ i = Len(out)
            /\ main \in {"last"} \cup Finished
            /\ out[i].Control \in {"Timeout", "Cancelled"}
            /\ out[i].Payload = NoPayload
            /\ Justified(out[i].Control)
            /\ arrivals[i].alt # "None" => out[i].Control = arrivals[i].alt

(* The response side of UnaryRequest and ClientStream.                     *)
SingleInv ==
  ~Downloading =>
    /\ main \in {"created", "awaiting", "returning", "done", "threw"}
    /\ main \in {"awaiting", "threw"} => arrivals = <<>>
    /\ main \in {"returning", "done"} => Len(arrivals) = 1
    /\ main # "done" => out = <<>>
    /\ main = "done" => Len(out) = 1
    /\ \A i \in DOMAIN arrivals :
         arrivals[i].alt # "None" => alt = arrivals[i].alt
    /\ \A i \in DOMAIN out :
         \/ /\ out[i].Control \in {"None", "GetAppInfo"}
            /\ out[i].Payload = 1
            /\ arrivals[i].alt = "None"
         \/ /\ out[i].Control \in {"Timeout", "Cancelled"}
            /\ out[i].Payload = NoPayload
            /\ Justified(out[i].Control)
            /\ arrivals[i].alt # "None" => out[i].Control = arrivals[i].alt

IInv == TypeOK /\ NotStarted /\ PumpInv /\ StreamInv /\ SingleInv

-----------------------------------------------------------------------------

(* The two forms of a response are responses.                              *)
LEMMA ResponseType ==
  /\ \A c \in ControlCode : ControlResponse(c) \in NetResponse
  /\ \A c \in ControlCode, p \in Nat : [Control |-> c, Payload |-> p] \in NetResponse
  /\ \A p \in Nat : PayloadResponse(p) \in NetResponse
BY DEF ControlResponse, PayloadResponse, NetResponse, NoPayload, ControlCode

(* Every variable keeps to its domain in every step.                       *)
LEMMA TypeInductive == TypeOK /\ [Next]_vars => TypeOK'
<1> SUFFICES ASSUME TypeOK, [Next]_vars PROVE TypeOK'
  OBVIOUS
<1> USE BoundsAssumption DEF TypeOK, MainStates, Finished, PumpStates,
        Verdicts, Methods, Deadlines, vars, callVars, envVars, pumpVars, mainVars
<1>1. CASE Tick
  BY <1>1 DEF Tick
<1>2. CASE RequestCancellation
  BY <1>2 DEF RequestCancellation
<1>3. ASSUME NEW d \in Deadlines, Start(d) PROVE TypeOK'
  BY <1>3 DEF Start
<1>4. CASE MoveNext \/ Drop
  BY <1>4 DEF MoveNext, Drop
<1>5. CASE AppYield
  BY <1>5 DEF AppYield, Arrival, Verdict, Arrivals
<1>6. CASE AppEnd \/ AppThrow
  BY <1>6 DEF AppEnd, AppThrow
<1>7. CASE AppReturn
  BY <1>7 DEF AppReturn, Arrival, Verdict, Arrivals
<1>8. CASE TestAlt
  <2>1. ControlResponse(alt) \in NetResponse
    BY ResponseType DEF ControlCode
  <2>2. Append(out, ControlResponse(alt)) \in Seq(NetResponse)
    BY <2>1
  <2>3. /\ \/ YieldLast(alt)
           \/ UNCHANGED out /\ main' = "testCancel"
        /\ UNCHANGED <<callVars, envVars, pumpVars, app, arrivals>>
    BY <1>8 DEF TestAlt
  <2>4. out' \in Seq(NetResponse) /\ main' \in MainStates
    BY <2>2, <2>3 DEF YieldLast
  <2>5. UNCHANGED <<callVars, envVars, pumpVars, app, arrivals>>
    BY <2>3
  <2>6. QED
    BY <2>4, <2>5
<1>9. CASE TestCancel
  <2>1. ControlResponse("Cancelled") \in NetResponse
    BY ResponseType DEF ControlCode
  <2>2. Append(out, ControlResponse("Cancelled")) \in Seq(NetResponse)
    BY <2>1
  <2>3. /\ \/ YieldLast("Cancelled")
           \/ UNCHANGED out /\ main' = "testDeadline"
        /\ UNCHANGED <<callVars, envVars, pumpVars, app, arrivals>>
    BY <1>9 DEF TestCancel
  <2>4. out' \in Seq(NetResponse) /\ main' \in MainStates
    BY <2>2, <2>3 DEF YieldLast
  <2>5. UNCHANGED <<callVars, envVars, pumpVars, app, arrivals>>
    BY <2>3
  <2>6. QED
    BY <2>4, <2>5
<1>10. CASE TestDeadline
  <2>1. PayloadResponse(Len(arrivals)) \in NetResponse
    BY ResponseType
  <2>2. ControlResponse("Timeout") \in NetResponse
    BY ResponseType DEF ControlCode
  <2>3. /\ \/ YieldLast("Timeout")
           \/ out' = Append(out, PayloadResponse(Len(arrivals))) /\ main' = "yielded"
        /\ UNCHANGED <<callVars, envVars, pumpVars, app, arrivals>>
    BY <1>10 DEF TestDeadline
  <2>4. /\ Append(out, PayloadResponse(Len(arrivals))) \in Seq(NetResponse)
        /\ Append(out, ControlResponse("Timeout")) \in Seq(NetResponse)
    BY <2>1, <2>2
  <2>5. out' \in Seq(NetResponse) /\ main' \in MainStates
    BY <2>3, <2>4 DEF YieldLast
  <2>6. UNCHANGED <<callVars, envVars, pumpVars, app, arrivals>>
    BY <2>3
  <2>7. QED
    BY <2>5, <2>6
<1>11. CASE Return
  BY <1>11, ResponseType DEF Return, ControlCode
<1>12. CASE AppPull
  BY <1>12 DEF AppPull
<1>13. CASE CallerYields
  BY <1>13 DEF CallerYields, Verdict
<1>14. CASE CallerEnds
  BY <1>14 DEF CallerEnds
<1>15. CASE PumpTestCancel
  BY <1>15 DEF PumpTestCancel, CutRequests
<1>16. CASE PumpTestDeadline
  <2>1. /\ \/ CutRequests("Timeout")
           \/ fed' = Append(fed, Len(requests)) /\ pump' = "idle" /\ UNCHANGED alt
        /\ UNCHANGED <<callVars, envVars, requests, mainVars>>
    BY <1>16 DEF PumpTestDeadline
  <2>2. Append(fed, Len(requests)) \in Seq(Nat)
    OBVIOUS
  <2>3. fed' \in Seq(Nat) /\ alt' \in Verdicts /\ pump' \in PumpStates
    BY <2>1, <2>2 DEF CutRequests
  <2>4. UNCHANGED <<callVars, envVars, requests, mainVars>>
    BY <2>1
  <2>5. QED
    BY <2>3, <2>4
<1>17. CASE Over \/ UNCHANGED vars
  BY <1>17 DEF Over
<1> QED
  BY <1>1, <1>2, <1>3, <1>4, <1>5, <1>6, <1>7, <1>8, <1>9, <1>10, <1>11, <1>12,
     <1>13, <1>14, <1>15, <1>16, <1>17
     DEF Next, Environment, Application, Server, ServerMethod, ServerPump, Requests

(* A call that has not started is well typed.                              *)
LEMMA TypeInit == Init => TypeOK
<1> SUFFICES ASSUME Init PROVE TypeOK
  OBVIOUS
<1>1. cancelled \in BOOLEAN
  BY Zenon DEF Init
<1>2. /\ method \in Methods
      /\ control \in {"None", "GetAppInfo"}
      /\ deadline \in Deadlines
      /\ now \in 0 .. MaxTime
  BY BoundsAssumption DEF Init, Deadlines
<1>3. /\ main \in MainStates
      /\ app \in {"idle", "running", "ended", "threw"}
      /\ pump \in PumpStates
      /\ alt \in Verdicts
  BY DEF Init, MainStates, PumpStates, Verdicts
<1>4. /\ fed \in Seq(Nat)
      /\ out \in Seq(NetResponse)
      /\ arrivals \in Seq(Arrivals)
      /\ requests \in Seq(Verdicts)
  BY DEF Init
<1>5. QED
  BY <1>1, <1>2, <1>3, <1>4 DEF TypeOK

(* Every variable keeps to its domain.                                     *)
THEOREM TypeCorrect == Spec => []TypeOK
BY TypeInit, TypeInductive, PTL DEF Spec

-----------------------------------------------------------------------------

(* What appending one element does to the elements of a sequence.          *)
LEMMA AppendFacts ==
  ASSUME NEW S, NEW s \in Seq(S), NEW e \in S
  PROVE  /\ Len(s) \in Nat
         /\ DOMAIN s = 1 .. Len(s)
         /\ Len(Append(s, e)) = Len(s) + 1
         /\ DOMAIN Append(s, e) = 1 .. (Len(s) + 1)
         /\ \A i \in 1 .. Len(s) : Append(s, e)[i] = s[i]
         /\ Append(s, e)[Len(s) + 1] = e
OBVIOUS

(* What is true of the clock, the token and the deadline stays true: a     *)
(* verdict that was justified once remains so.                             *)
LEMMA JustifiedStable ==
  ASSUME TypeOK, [Next]_vars, main # "created"
  PROVE  \A c : Justified(c) => Justified(c)'
<1>1. Expired => Expired'
  <2>1. deadline' = deadline /\ (now' = now \/ now' = now + 1)
    BY DEF Next, Environment, Tick, RequestCancellation, Start, MoveNext, Drop,
           Application, AppYield, AppEnd, AppReturn, AppThrow, AppPull,
           Server, ServerMethod, TestAlt, TestCancel, TestDeadline, Return,
           ServerPump, PumpTestCancel, PumpTestDeadline,
           Requests, CallerYields, CallerEnds, Over, vars, envVars
  <2>2. QED
    BY <2>1, BoundsAssumption DEF Expired, TypeOK, Deadlines
<1>2. cancelled => cancelled'
  BY DEF Next, Environment, Tick, RequestCancellation, Start, MoveNext, Drop,
         Application, AppYield, AppEnd, AppReturn, AppThrow, AppPull,
         Server, ServerMethod, TestAlt, TestCancel, TestDeadline, Return,
         ServerPump, PumpTestCancel, PumpTestDeadline,
         Requests, CallerYields, CallerEnds, Over, vars, envVars
<1>3. QED
  BY <1>1, <1>2 DEF Justified

(* Nothing has happened before the call starts.                            *)
LEMMA NotStartedInductive == TypeOK /\ NotStarted /\ [Next]_vars => NotStarted'
<1> SUFFICES ASSUME TypeOK, NotStarted, [Next]_vars PROVE NotStarted'
  OBVIOUS
<1> USE DEF NotStarted, Finished, vars, callVars, envVars, pumpVars, mainVars
<1>1. CASE Environment
  BY <1>1 DEF Environment, Tick, RequestCancellation
<1>2. ASSUME NEW d \in Deadlines, Start(d) PROVE NotStarted'
  BY <1>2 DEF Start
<1>3. CASE MoveNext \/ Drop
  BY <1>3 DEF MoveNext, Drop
<1>4. CASE AppYield \/ AppEnd \/ AppReturn \/ AppThrow
  BY <1>4 DEF AppYield, AppEnd, AppReturn, AppThrow, TypeOK
<1>5. CASE ServerMethod
  <2>1. main # "created" /\ main' # "created" /\ UNCHANGED app
    BY <1>5 DEF ServerMethod, TestAlt, TestCancel, TestDeadline, Return, YieldLast
  <2>2. QED
    BY <2>1
<1>6. CASE ServerPump \/ Requests
  <2>1. pump # "idle" /\ UNCHANGED mainVars
    BY <1>6 DEF ServerPump, PumpTestCancel, PumpTestDeadline, Requests,
                CallerYields, CallerEnds
  <2>2. QED
    BY <2>1
<1>7. CASE AppPull
  BY <1>7 DEF AppPull
<1>8. CASE Over \/ UNCHANGED vars
  BY <1>8 DEF Over
<1> QED
  BY <1>1, <1>2, <1>3, <1>4, <1>5, <1>6, <1>7, <1>8
     DEF Next, Application, Server

(* The request side: only the last request taken may be late, and it is    *)
(* either still under test or the one at which the stream was cut.         *)
LEMMA PumpInductive ==
  TypeOK /\ NotStarted /\ PumpInv /\ [Next]_vars => PumpInv'
<1> SUFFICES ASSUME TypeOK, NotStarted, PumpInv, [Next]_vars PROVE PumpInv'
  OBVIOUS
<1>0. main # "created" => \A c : Justified(c) => Justified(c)'
  BY JustifiedStable
<1>1. ASSUME UNCHANGED <<callVars, pumpVars>>, main # "created" PROVE PumpInv'
  <2>1. Justified(alt)' /\ \A i \in DOMAIN requests : Justified(requests[i])'
    BY <1>0, <1>1 DEF PumpInv, pumpVars, Justified, Expired
  <2>2. QED
    BY <1>1, <2>1 DEF PumpInv, callVars, pumpVars, Uploading, Justified, Expired
<1>2. ASSUME UNCHANGED <<callVars, pumpVars>>, main = "created" PROVE PumpInv'
  <2>1. alt = "None" /\ requests = <<>>
    BY <1>2 DEF NotStarted
  <2>2. QED
    BY <1>2, <2>1 DEF PumpInv, callVars, pumpVars, Uploading, Justified
<1>3. CASE \/ Environment \/ \E d \in Deadlines : Start(d)
           \/ MoveNext \/ Drop \/ AppYield \/ AppEnd \/ AppReturn \/ AppThrow
           \/ ServerMethod \/ Over \/ UNCHANGED vars
  <2>1. UNCHANGED <<callVars, pumpVars>>
    BY <1>3 DEF Environment, Tick, RequestCancellation, Start, MoveNext, Drop,
                AppYield, AppEnd, AppReturn, AppThrow,
                ServerMethod, TestAlt, TestCancel, TestDeadline, Return, Over, vars
  <2>2. QED
    BY <1>1, <1>2, <2>1
<1>4. CASE AppPull \/ CallerEnds
  BY <1>4 DEF AppPull, CallerEnds, PumpInv, callVars, envVars, Uploading, Justified,
              Expired
<1>5. CASE CallerYields
  <2>1. /\ pump = "pulling" /\ pump' = "testCancel"
        /\ requests' = Append(requests, Verdict)
        /\ UNCHANGED <<callVars, envVars, alt, fed>>
    BY <1>5 DEF CallerYields
  <2>2. Verdict \in Verdicts /\ Justified(Verdict)
    BY DEF Verdict, Verdicts, Justified, Expired, DeadlineExceeded, TypeOK
  <2>3. /\ Len(requests') = Len(requests) + 1
        /\ DOMAIN requests' = 1 .. (Len(requests) + 1)
        /\ \A i \in 1 .. Len(requests) : requests'[i] = requests[i]
        /\ requests'[Len(requests) + 1] = Verdict
        /\ DOMAIN requests = 1 .. Len(requests)
        /\ DOMAIN fed = 1 .. Len(fed)
        /\ Len(requests) \in Nat /\ Len(fed) \in Nat
    BY <2>1, <2>2, AppendFacts DEF TypeOK
  <2>4. \A c : Justified(c)' <=> Justified(c)
    BY <2>1 DEF Justified, Expired, envVars
  <2>5. alt' = alt /\ fed' = fed /\ Uploading' = Uploading
    BY <2>1 DEF callVars, Uploading
  <2>6. (\A i \in DOMAIN requests : Justified(requests[i]))'
    <3>1. \A i \in DOMAIN requests' : Justified(requests'[i])
      BY <2>2, <2>3 DEF PumpInv
    <3>2. QED
      BY <2>1, <3>1 DEF Justified, Expired, envVars
  <2>7. \A i \in DOMAIN fed : requests'[i] = requests[i]
    BY <2>1, <2>3 DEF PumpInv
  <2>8. Justified(alt)'
    BY <2>1 DEF PumpInv, Justified, Expired, envVars
  <2>9. QED
    BY <2>1, <2>3, <2>5, <2>6, <2>7, <2>8 DEF PumpInv
<1>6. CASE PumpTestCancel
  BY <1>6, <1>0 DEF PumpTestCancel, CutRequests, PumpInv, Justified, Expired,
              Uploading, callVars, envVars
<1>7. CASE PumpTestDeadline
  <2>1. CASE CutRequests("Timeout") /\ Expired
    BY <1>7, <2>1 DEF PumpTestDeadline, CutRequests, PumpInv, Justified, Expired,
              Uploading, callVars, envVars
  <2>2. CASE fed' = Append(fed, Len(requests)) /\ pump' = "idle" /\ ~Expired
    <3>1. /\ pump = "testDeadline"
          /\ UNCHANGED <<callVars, envVars, alt, requests>>
      BY <1>7, <2>2 DEF PumpTestDeadline, DeadlineExceeded, Expired
    <3>2. Len(requests) = Len(fed) + 1 /\ Len(requests) \in Nat /\ Len(fed) \in Nat
      BY <3>1 DEF PumpInv, TypeOK
    <3>3. /\ Len(fed') = Len(fed) + 1
          /\ DOMAIN fed' = 1 .. (Len(fed) + 1)
          /\ \A i \in 1 .. Len(fed) : fed'[i] = fed[i]
          /\ fed'[Len(fed) + 1] = Len(requests)
          /\ DOMAIN fed = 1 .. Len(fed)
          /\ DOMAIN requests = 1 .. Len(requests)
      BY <2>2, <3>2, AppendFacts DEF TypeOK
    <3>4. requests[Len(requests)] = "None"
      BY <2>2, <3>1, <3>2, <3>3 DEF PumpInv, Justified, TypeOK, Verdicts
    <3>5. \A i \in DOMAIN fed' : fed'[i] = i /\ requests'[i] = "None"
      BY <3>1, <3>2, <3>3, <3>4 DEF PumpInv
    <3>6. /\ Justified(alt)'
          /\ (\A i \in DOMAIN requests : Justified(requests[i]))'
      BY <3>1 DEF PumpInv, Justified, Expired, envVars
    <3>7. QED
      BY <2>2, <3>1, <3>2, <3>3, <3>5, <3>6 DEF PumpInv, Uploading, callVars
  <2>3. QED
    BY <1>7, <2>1, <2>2 DEF PumpTestDeadline, DeadlineExceeded, Expired
<1> QED
  BY <1>3, <1>4, <1>5, <1>6, <1>7
     DEF Next, Application, Server, ServerPump, Requests

-----------------------------------------------------------------------------

(* altResponse is set at most once.                                        *)
LEMMA AltSetOnce ==
  ASSUME TypeOK, NotStarted, PumpInv, [Next]_vars, alt # "None"
  PROVE  alt' = alt
<1>1. pump = "cut"
  BY DEF PumpInv
<1>2. QED
  BY <1>1 DEF Next, Environment, Tick, RequestCancellation, Start, MoveNext, Drop,
         Application, AppYield, AppEnd, AppReturn, AppThrow, AppPull,
         Server, ServerMethod, TestAlt, TestCancel, TestDeadline, Return,
         ServerPump, PumpTestCancel, PumpTestDeadline,
         Requests, CallerYields, CallerEnds, Over, vars, pumpVars

(* A step of the server's loop that ends the stream with a verdict.        *)
LEMMA StreamCut ==
  ASSUME TypeOK, StreamInv, Downloading, main \in Testing,
         NEW c \in {"Timeout", "Cancelled"}, Justified(c), YieldLast(c),
         arrivals[Len(arrivals)].alt # "None" => c = arrivals[Len(arrivals)].alt,
         UNCHANGED <<callVars, envVars, pumpVars, app, arrivals>>
  PROVE  StreamInv'
<1> DEFINE n == Len(out)
<1>1. n \in Nat /\ Len(arrivals) = n + 1 /\ DOMAIN out = 1 .. n
      /\ DOMAIN arrivals = 1 .. n + 1
  BY DEF StreamInv, TypeOK
<1>2. ControlResponse(c) \in NetResponse
  BY ResponseType DEF ControlCode
<1>3. /\ main' = "last" /\ Len(out') = n + 1 /\ DOMAIN out' = 1 .. n + 1
      /\ \A i \in 1 .. n : out'[i] = out[i]
      /\ out'[n + 1] = ControlResponse(c)
  BY <1>2, AppendFacts DEF YieldLast, TypeOK
<1>5. \A i \in 1 .. n : out'[i] = PayloadResponse(i) /\ ~Late(arrivals[i])
  BY <1>1, <1>3 DEF StreamInv, Testing, Finished
<1>6. /\ out'[n + 1].Control = c
      /\ out'[n + 1].Payload = NoPayload
  BY <1>3 DEF ControlResponse
<1>8. arrivals' = arrivals /\ alt' = alt
  BY DEF pumpVars
<1>9. (\A i \in DOMAIN arrivals : /\ Justified(arrivals[i].verdict)
                                  /\ arrivals[i].alt # "None" => alt = arrivals[i].alt)'
  BY <1>8 DEF StreamInv, Justified, Expired, envVars
<1>10. (\A i \in DOMAIN out :
         \/ out[i] = PayloadResponse(i) /\ ~Late(arrivals[i])
         \/ /\ i = Len(out)
            /\ main \in {"last"} \cup Finished
            /\ out[i].Control \in {"Timeout", "Cancelled"}
            /\ out[i].Payload = NoPayload
            /\ Justified(out[i].Control)
            /\ arrivals[i].alt # "None" => out[i].Control = arrivals[i].alt)'
  <2> SUFFICES ASSUME NEW i \in 1 .. n + 1
               PROVE  \/ out'[i] = PayloadResponse(i) /\ ~Late(arrivals[i])
                      \/ /\ i = n + 1
                         /\ out'[i].Control \in {"Timeout", "Cancelled"}
                         /\ out'[i].Payload = NoPayload
                         /\ Justified(out[i].Control)'
                         /\ arrivals[i].alt # "None" => out'[i].Control = arrivals[i].alt
    BY <1>3, <1>8 DEF Late
  <2>1. CASE i \in 1 .. n
    BY <2>1, <1>5
  <2>2. CASE i = n + 1
    <3>1. Justified(out[i].Control)'
      BY <2>2, <1>6 DEF Justified, Expired, envVars
    <3>2. QED
      BY <2>2, <3>1, <1>1, <1>6
  <2>3. QED
    BY <2>1, <2>2, <1>1
<1>11. QED
  BY <1>1, <1>3, <1>8, <1>9, <1>10 DEF StreamInv, Testing, Downloading, callVars

(* A step that leaves both streams alone and moves between two places of   *)
(* the same kind.                                                          *)
LEMMA StreamKept ==
  ASSUME TypeOK, NotStarted, PumpInv, StreamInv, [Next]_vars,
         UNCHANGED <<callVars, out, arrivals>>,
         \/ main' = main
         \/ main \notin Testing /\ main' \notin Testing \cup {"returning", "yielded", "last"}
            /\ (main' = "awaiting" => main \in {"created", "yielded"})
            /\ (main \in {"last"} \cup Finished => main' \in {"last"} \cup Finished)
  PROVE  StreamInv'
<1> SUFFICES ASSUME Downloading PROVE StreamInv'
  BY DEF StreamInv, Downloading, callVars
<1>1. alt # "None" => alt' = alt
  BY AltSetOnce
<1>2. \A c : Justified(c) => main = "created" \/ Justified(c)'
  BY JustifiedStable
<1>3. main = "created" => arrivals = <<>> /\ out = <<>>
  BY DEF NotStarted
<1>4. (\A i \in DOMAIN arrivals : /\ Justified(arrivals[i].verdict)
                                  /\ arrivals[i].alt # "None" => alt = arrivals[i].alt)'
  <2> SUFFICES ASSUME NEW i \in DOMAIN arrivals
               PROVE  /\ Justified(arrivals[i].verdict)'
                      /\ arrivals[i].alt # "None" => alt' = arrivals[i].alt
    OBVIOUS
  <2>1. main # "created"
    BY <1>3
  <2>2. Justified(arrivals[i].verdict)
    BY DEF StreamInv
  <2>3. Justified(arrivals[i].verdict)'
    BY <1>2, <2>1, <2>2 DEF Justified
  <2>4. QED
    BY <1>1, <2>3 DEF StreamInv
<1>5. (\A i \in DOMAIN out : out[i].Control \in {"Timeout", "Cancelled"} /\ Justified(out[i].Control)
                              => Justified(out[i].Control)')
  BY <1>2, <1>3 DEF Justified
<1>6. QED
  BY <1>3, <1>4, <1>5 DEF StreamInv, Testing, Finished, Late, Downloading, callVars

(* The response side of the two methods that stream their responses.       *)
LEMMA StreamInductive ==
  TypeOK /\ NotStarted /\ PumpInv /\ StreamInv /\ [Next]_vars => StreamInv'
<1> SUFFICES ASSUME TypeOK, NotStarted, PumpInv, StreamInv, [Next]_vars
             PROVE  StreamInv'
  OBVIOUS
<1>1. CASE Environment \/ AppPull \/ Requests \/ ServerPump \/ Over \/ UNCHANGED vars
  <2>1. UNCHANGED <<callVars, out, arrivals>> /\ main' = main
    BY <1>1 DEF Environment, Tick, RequestCancellation, AppPull, Requests, CallerYields,
           CallerEnds, ServerPump, PumpTestCancel, PumpTestDeadline, Over, vars, mainVars
  <2>2. QED
    BY <2>1, StreamKept
<1>2. CASE (\E d \in Deadlines : Start(d)) \/ MoveNext \/ Drop \/ AppEnd \/ AppThrow
  <2>1. /\ UNCHANGED <<callVars, out, arrivals>>
        /\ main \notin Testing /\ main' \notin Testing \cup {"returning", "yielded", "last"}
        /\ main' = "awaiting" => main \in {"created", "yielded"}
        /\ main \in {"last"} \cup Finished => main' \in {"last"} \cup Finished
    BY <1>2 DEF Start, MoveNext, Drop, AppEnd, AppThrow, Testing, Finished
  <2>2. QED
    BY <2>1, StreamKept
<1>3. CASE AppReturn \/ Return
  BY <1>3 DEF AppReturn, Return, StreamInv, Downloading, callVars
<1>4. CASE AppYield
  <2>1. /\ Downloading /\ main = "awaiting" /\ arrivals' = Append(arrivals, Arrival)
        /\ main' = IF method = "DuplexStream" THEN "testAlt" ELSE "testCancel"
        /\ UNCHANGED <<callVars, envVars, pumpVars, out>>
    BY <1>4 DEF AppYield
  <2>2. Arrival \in Arrivals
    BY DEF Arrival, Arrivals, Verdict, Verdicts, TypeOK
  <2>3. /\ Len(arrivals) \in Nat
        /\ DOMAIN arrivals = 1 .. Len(arrivals)
        /\ Len(arrivals') = Len(arrivals) + 1
        /\ DOMAIN arrivals' = 1 .. (Len(arrivals) + 1)
        /\ \A i \in 1 .. Len(arrivals) : arrivals'[i] = arrivals[i]
        /\ arrivals'[Len(arrivals) + 1] = Arrival
    BY <2>1, <2>2, AppendFacts DEF TypeOK
  <2>4. Len(out) = Len(arrivals) /\ DOMAIN out = 1 .. Len(out)
    BY <2>1 DEF StreamInv, Testing, TypeOK
  <2>5. Arrival.alt = alt /\ Justified(Arrival.verdict)
    BY DEF Arrival, Verdict, Justified, Expired, DeadlineExceeded, TypeOK
  <2>6. method = "ServerStream" => alt = "None"
    BY DEF PumpInv, Uploading
  <2>7. \A i \in DOMAIN arrivals' : /\ Justified(arrivals'[i].verdict)
                                    /\ arrivals'[i].alt # "None" => alt = arrivals'[i].alt
    <3> SUFFICES ASSUME NEW i \in 1 .. (Len(arrivals) + 1)
                 PROVE  /\ Justified(arrivals'[i].verdict)
                        /\ arrivals'[i].alt # "None" => alt = arrivals'[i].alt
      BY <2>3
    <3>1. CASE i \in 1 .. Len(arrivals)
      BY <2>1, <2>3, <3>1 DEF StreamInv
    <3>2. CASE i = Len(arrivals) + 1
      BY <2>3, <2>5, <3>2
    <3>3. QED
      BY <2>3, <3>1, <3>2
  <2>8. (\A i \in DOMAIN arrivals : /\ Justified(arrivals[i].verdict)
                                    /\ arrivals[i].alt # "None" => alt = arrivals[i].alt)'
    BY <2>1, <2>7 DEF Justified, Expired, envVars, pumpVars
  <2>9. \A i \in DOMAIN out : out'[i] = PayloadResponse(i) /\ ~Late(arrivals'[i])
    BY <2>1, <2>3, <2>4 DEF StreamInv, Finished
  <2>10. /\ arrivals'[Len(arrivals')].alt # "None" => main' = "testAlt"
         /\ main' # "testDeadline" /\ main' \in Testing /\ main' \notin {"returning"}
    BY <2>1, <2>3, <2>5, <2>6 DEF Testing, Downloading
  <2>11. QED
    BY <2>1, <2>3, <2>4, <2>8, <2>9, <2>10 DEF StreamInv, Late
<1>5. CASE TestAlt
  <2>1. CASE alt = "None"
    <3>1. /\ main = "testAlt" /\ main' = "testCancel"
          /\ UNCHANGED <<callVars, envVars, pumpVars, out, arrivals>>
      BY <1>5, <2>1 DEF TestAlt
    <3>2. QED
      BY <2>1, <3>1 DEF StreamInv, Testing, Justified, Expired, Late, Downloading, Finished,
                        callVars, envVars, pumpVars, TypeOK
  <2>2. CASE alt # "None"
    <3>1. /\ main = "testAlt" /\ YieldLast(alt)
          /\ UNCHANGED <<callVars, envVars, pumpVars, app, arrivals>>
      BY <1>5, <2>2 DEF TestAlt
    <3>2. alt \in {"Timeout", "Cancelled"} /\ Justified(alt)
      BY <2>2 DEF TypeOK, Verdicts, PumpInv
    <3>3. Downloading => (arrivals[Len(arrivals)].alt # "None" => alt = arrivals[Len(arrivals)].alt)
      BY <3>1 DEF StreamInv, Testing, TypeOK
    <3>4. QED
      BY <3>1, <3>2, <3>3, StreamCut DEF Testing, StreamInv, Downloading, callVars
  <2>3. QED
    BY <2>1, <2>2
<1>6. CASE TestCancel
  <2>1. CASE ~cancelled
    <3>1. /\ main = "testCancel" /\ main' = "testDeadline"
          /\ UNCHANGED <<callVars, envVars, pumpVars, out, arrivals>>
      BY <1>6, <2>1 DEF TestCancel
    <3>2. QED
      BY <2>1, <3>1 DEF StreamInv, Testing, Justified, Expired, Late, Downloading, Finished,
                        callVars, envVars, pumpVars, TypeOK
  <2>2. CASE cancelled
    <3>1. /\ main = "testCancel" /\ YieldLast("Cancelled")
          /\ UNCHANGED <<callVars, envVars, pumpVars, app, arrivals>>
      BY <1>6, <2>2 DEF TestCancel
    <3>2. Justified("Cancelled")
      BY <2>2 DEF Justified
    <3>3. Downloading => arrivals[Len(arrivals)].alt = "None"
      BY <3>1 DEF StreamInv, Testing
    <3>4. QED
      BY <3>1, <3>2, <3>3, StreamCut DEF Testing, StreamInv, Downloading, callVars
  <2>3. QED
    BY <2>1, <2>2
<1>7. CASE TestDeadline
  <2>1. CASE Expired
    <3>1. /\ main = "testDeadline" /\ YieldLast("Timeout")
          /\ UNCHANGED <<callVars, envVars, pumpVars, app, arrivals>>
      BY <1>7, <2>1 DEF TestDeadline, DeadlineExceeded, Expired
    <3>2. Justified("Timeout")
      BY <2>1 DEF Justified
    <3>3. Downloading => arrivals[Len(arrivals)].alt = "None"
      BY <3>1 DEF StreamInv, Testing
    <3>4. QED
      BY <3>1, <3>2, <3>3, StreamCut DEF Testing, StreamInv, Downloading, callVars
  <2>2. CASE ~Expired
    <3>1. /\ main = "testDeadline" /\ main' = "yielded"
          /\ out' = Append(out, PayloadResponse(Len(arrivals)))
          /\ UNCHANGED <<callVars, envVars, pumpVars, app, arrivals>>
      BY <1>7, <2>2 DEF TestDeadline, DeadlineExceeded, Expired
    <3> SUFFICES ASSUME Downloading PROVE StreamInv'
      BY <3>1 DEF StreamInv, Downloading, callVars
    <3> DEFINE n == Len(out)
    <3>2. n \in Nat /\ Len(arrivals) = n + 1 /\ DOMAIN out = 1 .. n
          /\ DOMAIN arrivals = 1 .. n + 1
      BY <3>1 DEF StreamInv, Testing, TypeOK
    <3>3. PayloadResponse(Len(arrivals)) \in NetResponse
      BY <3>2, ResponseType
    <3>4. /\ Len(out') = n + 1 /\ DOMAIN out' = 1 .. n + 1
          /\ \A i \in 1 .. n : out'[i] = out[i]
          /\ out'[n + 1] = PayloadResponse(n + 1)
      BY <3>1, <3>2, <3>3, AppendFacts DEF TypeOK
    <3>5. ~Late(arrivals[n + 1])
      <4>1. arrivals[n + 1] \in Arrivals
        BY <3>2 DEF TypeOK
      <4>2. arrivals[n + 1].alt = "None" /\ arrivals[n + 1].verdict # "Cancelled"
        BY <3>1, <3>2 DEF StreamInv, Testing
      <4>3. arrivals[n + 1].verdict # "Timeout"
        BY <2>2, <3>2 DEF StreamInv, Justified
      <4>4. QED
        BY <4>1, <4>2, <4>3 DEF Late, Arrivals, Verdicts
    <3>6. \A i \in 1 .. n : out'[i] = PayloadResponse(i) /\ ~Late(arrivals[i])
      BY <3>1, <3>2, <3>4 DEF StreamInv, Finished
    <3>7. (\A i \in DOMAIN arrivals : /\ Justified(arrivals[i].verdict)
                                      /\ arrivals[i].alt # "None" => alt = arrivals[i].alt)'
      BY <3>1 DEF StreamInv, Justified, Expired, envVars, pumpVars
    <3>8. QED
      BY <3>1, <3>2, <3>4, <3>5, <3>6, <3>7 DEF StreamInv, Testing, Late
  <2>3. QED
    BY <2>1, <2>2
<1> QED
  BY <1>1, <1>2, <1>3, <1>4, <1>5, <1>6, <1>7
     DEF Next, Application, Server, ServerMethod

(* The response side of the two methods that answer once.                  *)
LEMMA SingleInductive ==
  TypeOK /\ NotStarted /\ PumpInv /\ SingleInv /\ [Next]_vars => SingleInv'
<1> SUFFICES ASSUME TypeOK, NotStarted, PumpInv, SingleInv, [Next]_vars, ~Downloading
             PROVE  SingleInv'
  BY DEF SingleInv, Downloading, Next, Environment, Tick, RequestCancellation, Start,
         MoveNext, Drop, Application, AppYield, AppEnd, AppReturn, AppThrow, AppPull,
         Server, ServerMethod, TestAlt, TestCancel, TestDeadline, Return,
         ServerPump, PumpTestCancel, PumpTestDeadline,
         Requests, CallerYields, CallerEnds, Over, vars, callVars
<1>a. /\ alt # "None" => alt' = alt
      /\ main # "created" => \A c : Justified(c) => Justified(c)'
  BY AltSetOnce, JustifiedStable
<1>b. main = "created" => arrivals = <<>> /\ out = <<>>
  BY DEF NotStarted
<1>1. CASE \/ Environment \/ AppPull \/ Requests \/ ServerPump \/ Over \/ UNCHANGED vars
           \/ (\E d \in Deadlines : Start(d)) \/ AppThrow
  <2>1. /\ UNCHANGED <<callVars, out, arrivals>>
        /\ \/ main' = main
           \/ main = "awaiting" /\ main' = "threw"
           \/ main = "created" /\ main' = "awaiting"
    BY <1>1 DEF Environment, Tick, RequestCancellation, AppPull, Requests, CallerYields,
           CallerEnds, ServerPump, PumpTestCancel, PumpTestDeadline, Over, vars, mainVars,
           Start, AppThrow
  <2>2. (\A i \in DOMAIN out : Justified(out[i].Control) => Justified(out[i].Control)')
    BY <1>a, <1>b, <2>1 DEF Justified
  <2>3. QED
    BY <1>a, <1>b, <2>1, <2>2 DEF SingleInv, Downloading, callVars
<1>2. CASE MoveNext \/ Drop \/ AppYield \/ AppEnd \/ TestAlt \/ TestCancel \/ TestDeadline
  BY <1>2 DEF MoveNext, Drop, AppYield, AppEnd, TestAlt, TestCancel, TestDeadline, SingleInv
<1>3. CASE AppReturn
  <2>1. /\ main = "awaiting" /\ main' = "returning"
        /\ arrivals' = Append(arrivals, Arrival)
        /\ UNCHANGED <<callVars, envVars, pumpVars, out>>
    BY <1>3 DEF AppReturn
  <2>2. Arrival \in Arrivals /\ Arrival.alt = alt
    BY DEF Arrival, Arrivals, Verdict, Verdicts, TypeOK
  <2>3. arrivals = <<>> /\ out = <<>>
    BY <2>1 DEF SingleInv
  <2>4. Len(arrivals') = 1 /\ DOMAIN arrivals' = 1 .. 1 /\ arrivals'[1] = Arrival
    BY <2>1, <2>2, <2>3
  <2>5. (\A i \in DOMAIN arrivals : arrivals[i].alt # "None" => alt = arrivals[i].alt)'
    BY <2>1, <2>2, <2>4 DEF pumpVars
  <2>6. QED
    BY <2>1, <2>3, <2>4, <2>5 DEF SingleInv
<1>4. CASE Return
  <2> DEFINE r == IF alt # "None" THEN ControlResponse(alt)
                                  ELSE [Control |-> control, Payload |-> 1]
  <2>1. main = "returning" /\ main' = "done" /\ out' = <<r>>
        /\ UNCHANGED <<callVars, envVars, pumpVars, app, arrivals>>
    BY <1>4 DEF Return
  <2>2. Len(arrivals) = 1 /\ Len(out') = 1 /\ DOMAIN out' = 1 .. 1 /\ out'[1] = r
        /\ DOMAIN arrivals = 1 .. 1
    BY <2>1 DEF SingleInv, TypeOK
  <2>3. (\A i \in DOMAIN arrivals : arrivals[i].alt # "None" => alt = arrivals[i].alt)'
    BY <2>1, <1>a DEF SingleInv
  <2>4. CASE alt # "None"
    <3>1. r.Control = alt /\ r.Payload = NoPayload
      BY <2>4 DEF ControlResponse
    <3>2. alt \in {"Timeout", "Cancelled"} /\ Justified(alt)
      BY <2>4 DEF TypeOK, Verdicts, PumpInv
    <3>3. Justified(out[1].Control)'
      BY <2>1, <2>2, <3>1, <3>2 DEF Justified, Expired, envVars
    <3>4. arrivals[1].alt # "None" => alt = arrivals[1].alt
      BY <2>2 DEF SingleInv
    <3>5. QED
      BY <2>1, <2>2, <2>3, <3>1, <3>2, <3>3, <3>4 DEF SingleInv
  <2>5. CASE alt = "None"
    <3>1. r.Control = control /\ r.Payload = 1
      BY <2>5
    <3>2. arrivals[1].alt = "None"
      BY <2>2, <2>5 DEF SingleInv
    <3>3. QED
      BY <2>1, <2>2, <2>3, <3>1, <3>2 DEF SingleInv, TypeOK
  <2>6. QED
    BY <2>4, <2>5
<1> QED
  BY <1>1, <1>2, <1>3, <1>4
     DEF Next, Application, Server, ServerMethod

-----------------------------------------------------------------------------
(* The theorems.                                                           *)

(* The invariant holds of a call that has not started.                     *)
LEMMA InvariantInit == Init => IInv
<1> SUFFICES ASSUME Init PROVE IInv
  OBVIOUS
<1>1. TypeOK
  BY TypeInit
<1>2. NotStarted /\ PumpInv
  BY DEF Init, NotStarted, PumpInv, Justified
<1>3. StreamInv /\ SingleInv
  BY DEF Init, StreamInv, SingleInv, Testing
<1>4. QED
  BY <1>1, <1>2, <1>3 DEF IInv

(* Every step of the specification preserves the invariant.                *)
LEMMA InvariantInductive == IInv /\ [Next]_vars => IInv'
BY TypeInductive, NotStartedInductive, PumpInductive, StreamInductive, SingleInductive
   DEF IInv

(* The inductive invariant holds throughout every call.                    *)
THEOREM InvariantHolds == Spec => []IInv
BY InvariantInit, InvariantInductive, PTL DEF Spec

-----------------------------------------------------------------------------
(* What the responses of the server are to its callers.                    *)

(* What HandleResponse makes of the responses the server can send.         *)
LEMMA ResultOfResponse ==
  /\ HandleResponse("None") = "ok" /\ HandleResponse("GetAppInfo") = "ok"
  /\ HandleResponse("Timeout") = "TimeoutException"
  /\ HandleResponse("Cancelled") = "OperationCanceledException"
BY DEF HandleResponse

(* The only response of the methods that answer once.                      *)
LEMMA SingleResponse ==
  ASSUME IInv, ~Downloading, main = "done"
  PROVE  /\ Len(out) = 1 /\ Len(arrivals) = 1
         /\ \/ /\ out[1].Control \in {"None", "GetAppInfo"}
               /\ out[1].Payload = 1
            \/ /\ out[1].Control \in {"Timeout", "Cancelled"}
               /\ Justified(out[1].Control)
<1>1. Len(out) = 1 /\ Len(arrivals) = 1 /\ 1 \in DOMAIN out
  BY DEF IInv, SingleInv, TypeOK
<1>2. QED
  BY <1>1 DEF IInv, SingleInv

-----------------------------------------------------------------------------

(* No application response that reached the server late is passed on as    *)
(* data by ServerStream or DuplexStream.                                   *)
THEOREM LateNeverDeliveredHolds == Spec => []LateNeverDelivered
<1>1. IInv => LateNeverDelivered
  BY DEF IInv, StreamInv, LateNeverDelivered
<1>2. QED
  BY <1>1, InvariantHolds, PTL

(* Timeout and Cancelled are only ever told when they are true.            *)
THEOREM VerdictJustifiedHolds == Spec => []VerdictJustified
<1>1. IInv => VerdictJustified
  BY DEF IInv, StreamInv, SingleInv, VerdictJustified, Justified, PayloadResponse
<1>2. QED
  BY <1>1, InvariantHolds, PTL

(* Responses arrive once each, in order, and nothing follows a verdict.    *)
THEOREM InOrderHolds == Spec => []InOrder
<1>1. IInv => InOrder
  <2> SUFFICES ASSUME IInv, NEW i \in DOMAIN out
               PROVE  IF out[i].Control \in {"Timeout", "Cancelled"}
                      THEN i = Len(out) /\ main \in {"last"} \cup Finished
                      ELSE out[i].Payload = i
    BY DEF InOrder
  <2>1. CASE Downloading
    BY <2>1 DEF IInv, StreamInv, PayloadResponse
  <2>2. CASE ~Downloading
    <3>1. out # <<>> /\ main = "done" /\ Len(out) = 1 /\ i = 1
      BY <2>2 DEF IInv, SingleInv, TypeOK
    <3>2. QED
      BY <2>2, <3>1 DEF IInv, SingleInv, Finished
  <2>3. QED
    BY <2>1, <2>2
<1>2. QED
  BY <1>1, InvariantHolds, PTL

(* After the first late answer or request the server waits for no other.   *)
THEOREM CutIsPromptHolds == Spec => []CutIsPrompt
<1>1. IInv => CutIsPrompt
  <2> SUFFICES ASSUME IInv PROVE CutIsPrompt
    OBVIOUS
  <2>1. ASSUME Downloading, NEW i \in DOMAIN arrivals, arrivals[i].verdict # "None"
        PROVE  i = Len(arrivals)
    <3>1. /\ Len(arrivals) \in Nat /\ Len(out) \in Nat
          /\ DOMAIN arrivals = 1 .. Len(arrivals) /\ DOMAIN out = 1 .. Len(out)
          /\ Len(arrivals) = Len(out) + IF main \in Testing THEN 1 ELSE 0
      BY <2>1 DEF IInv, TypeOK, StreamInv
    <3>2. CASE i \in DOMAIN out
      <4>1. i = Len(out) /\ main \notin Testing
        BY <2>1, <3>2 DEF IInv, StreamInv, Late, Testing, Finished
      <4>2. QED
        BY <3>1, <4>1
    <3>3. CASE i \notin DOMAIN out
      BY <3>1, <3>3, <2>1
    <3>4. QED
      BY <3>2, <3>3
  <2>2. ASSUME NEW i \in DOMAIN requests, requests[i] # "None" PROVE i = Len(requests)
    <3>1. /\ Len(requests) \in Nat /\ Len(fed) \in Nat
          /\ DOMAIN requests = 1 .. Len(requests) /\ DOMAIN fed = 1 .. Len(fed)
          /\ Len(requests) = Len(fed) \/ Len(requests) = Len(fed) + 1
      BY DEF IInv, TypeOK, PumpInv
    <3>2. i \notin DOMAIN fed
      BY <2>2 DEF IInv, PumpInv
    <3>3. i \in 1 .. Len(requests) /\ i \notin 1 .. Len(fed)
      BY <3>1, <3>2
    <3>4. Len(requests) \in Nat /\ Len(fed) \in Nat
          /\ (Len(requests) = Len(fed) \/ Len(requests) = Len(fed) + 1)
      BY <3>1
    <3>5. QED
      BY <3>3, <3>4
  <2>3. QED
    BY <2>1, <2>2 DEF CutIsPrompt
<1>2. QED
  BY <1>1, InvariantHolds, PTL

(* The application sees the requests once each, in order, none late.       *)
THEOREM RequestsInOrderHolds == Spec => []RequestsInOrder
<1>1. IInv => RequestsInOrder
  BY DEF IInv, TypeOK, PumpInv, RequestsInOrder
<1>2. QED
  BY <1>1, InvariantHolds, PTL

(* At most one request is missed, and altResponse records it.              *)
THEOREM LossIsRecordedHolds == Spec => []LossIsRecorded
<1>1. IInv => LossIsRecorded
  BY DEF IInv, TypeOK, PumpInv, LossIsRecorded, PumpStates
<1>2. QED
  BY <1>1, InvariantHolds, PTL

(* An answer given after the requests were cut is replaced by the verdict. *)
THEOREM CutAnswersReplacedHolds == Spec => []CutAnswersReplaced
<1>1. IInv => CutAnswersReplaced
  <2> SUFFICES ASSUME IInv, NEW i \in DOMAIN out, arrivals[i].alt # "None"
               PROVE  out[i] = ControlResponse(arrivals[i].alt)
    BY DEF CutAnswersReplaced
  <2>1. out[i].Control = arrivals[i].alt /\ out[i].Payload = NoPayload
    BY DEF IInv, StreamInv, SingleInv, Late
  <2>2. out[i] \in NetResponse
    BY DEF IInv, TypeOK
  <2>3. QED
    BY <2>1, <2>2 DEF NetResponse, ControlResponse
<1>2. QED
  BY <1>1, InvariantHolds, PTL

(* A stream that ends normally has delivered every answer, none of it late.*)
THEOREM CompleteMeansAllHolds == Spec => []CompleteMeansAll
<1>1. IInv => CompleteMeansAll
  <2> SUFFICES ASSUME IInv, Downloading, main = "done",
                      \A i \in DOMAIN out : out[i].Control = "None"
               PROVE  Len(out) = Len(arrivals) /\ \A i \in DOMAIN arrivals : ~Late(arrivals[i])
    BY DEF CompleteMeansAll
  <2>1. Len(arrivals) = Len(out)
    BY DEF IInv, StreamInv, Testing, TypeOK
  <2>2. DOMAIN arrivals = DOMAIN out
    BY <2>1 DEF IInv, TypeOK
  <2>3. QED
    BY <2>1, <2>2 DEF IInv, StreamInv
<1>2. QED
  BY <1>1, InvariantHolds, PTL

-----------------------------------------------------------------------------

(* How far the finding on ConduitServer.cs:148 goes: a cut of the requests *)
(* is hidden by a normal end only in DuplexStream, and only when the       *)
(* application ends its responses without giving one more after the cut.   *)
HiddenCutIsSilent ==
  [][main = "awaiting" /\ main' = "done" /\ alt # "None" =>
       /\ method = "DuplexStream"
       /\ \A i \in DOMAIN arrivals : arrivals[i].alt = "None"]_vars

(* Any answer after the cut, in any method, tells the caller of it.        *)
THEOREM HiddenCutIsSilentHolds == Spec => HiddenCutIsSilent
<1> DEFINE Silent == main = "awaiting" /\ main' = "done" /\ alt # "None" =>
                       /\ method = "DuplexStream"
                       /\ \A i \in DOMAIN arrivals : arrivals[i].alt = "None"
<1>1. ASSUME IInv, [Next]_vars PROVE [Silent]_vars
  <2> SUFFICES ASSUME main = "awaiting", main' = "done", alt # "None" PROVE Silent
    OBVIOUS
  <2>1. Downloading
    <3>1. CASE Environment \/ Requests \/ Over \/ UNCHANGED vars
      BY <3>1 DEF Environment, Tick, RequestCancellation, Requests, CallerYields, CallerEnds,
                  Over, vars, mainVars, Finished
    <3>2. CASE (\E d \in Deadlines : Start(d)) \/ MoveNext \/ Drop \/ Server
      BY <3>2 DEF Start, MoveNext, Drop, Server, ServerMethod, ServerPump, TestAlt, TestCancel,
                  TestDeadline, Return, PumpTestCancel, PumpTestDeadline, mainVars
    <3>3. CASE Application
      BY <3>3 DEF Application, AppYield, AppEnd, AppReturn, AppThrow, AppPull, mainVars
    <3> QED
      BY <1>1, <3>1, <3>2, <3>3 DEF Next
  <2>2. Uploading
    BY <1>1 DEF IInv, PumpInv
  <2>3. method = "DuplexStream"
    BY <2>1, <2>2 DEF Downloading, Uploading
  <2>4. /\ Len(arrivals) = Len(out)
        /\ DOMAIN arrivals = DOMAIN out
    BY <1>1, <2>1 DEF IInv, StreamInv, TypeOK, Testing
  <2>5. \A i \in DOMAIN arrivals : ~Late(arrivals[i])
    BY <1>1, <2>1, <2>4 DEF IInv, StreamInv, Finished
  <2> QED
    BY <2>3, <2>5 DEF Late
<1>2. QED
  BY <1>1, InvariantHolds, PTL DEF Spec, HiddenCutIsSilent

=============================================================================
