------------------------------ MODULE WebFront ------------------------------
(***************************************************************************)
(* The web front of XApp1: the navigation menu with its script, and the    *)
(* weather page, which makes one call through the HTTP transport.          *)
(*                                                                         *)
(* The browser and Blazor are external: a link either replaces the         *)
(* document or only its content (enhanced navigation), the latter leaving  *)
(* the check box of the menu and its listeners alone; the script is a      *)
(* module, which runs once in a document.                                  *)
(*                                                                         *)
(* One call is modelled.  It is the page's own, or that of another user of *)
(* the HTTP transport; then the page is left alone.                        *)
(***************************************************************************)
EXTENDS HttpTransport

VARIABLES
  width,       (* of the window: narrow, or wide (641 pixels or more)      *)
  listeners,   (* click listeners on nav-scrollable                        *)
  checked,     (* whether navbar-toggler, a check box, is checked          *)
  page,        (* the page shown                                           *)
  shown        (* what the weather page shows                              *)

menuVars == <<width, listeners, checked>>
webVars  == <<menuVars, page, shown>>
webSpecVars == <<httpVars, webVars>>

Pages == {"home", "counter", "weather"}

PagesCall == method = "UnaryRequest" /\ ~Asking

(* NavMenu.razor.css: the menu is shown when the box is checked, and on    *)
(* wide windows always; the box is shown on narrow ones only.              *)
MenuVisible == width = "wide" \/ checked

TogglerVisible == width = "narrow"

WebInit ==
  /\ HttpInit
  /\ width \in {"narrow", "wide"}
  /\ listeners = 0 /\ checked = FALSE
  /\ page = "home" /\ shown = "nothing"

-----------------------------------------------------------------------------
(* The menu.                                                               *)

(* NavMenu.razor.js: a click on the menu becomes a click on the box.       *)
RunScript ==
  /\ PagesCall /\ listeners = 0
  /\ listeners' = 1
  /\ UNCHANGED <<httpVars, width, checked, page, shown>>

Resize ==
  /\ PagesCall
  /\ width' \in {"narrow", "wide"} \ {width}
  /\ UNCHANGED <<httpVars, listeners, checked, page, shown>>

ClickToggler ==
  /\ PagesCall /\ TogglerVisible
  /\ checked' = ~checked
  /\ UNCHANGED <<httpVars, width, listeners, page, shown>>

(* What the listeners do when the menu is clicked, be it on a link or      *)
(* beside one, and whatever the width of the window.                       *)
ToggledBy(n) == IF n % 2 = 1 THEN ~checked ELSE checked

ClickBeside ==
  /\ PagesCall /\ MenuVisible
  /\ checked' = ToggledBy(listeners)
  /\ UNCHANGED <<httpVars, width, listeners, page, shown>>

(* Mutant: the script runs with every navigation.                          *)
KeepDocumentRunningScript ==
  /\ checked' = ToggledBy(listeners)
  /\ listeners' = IF listeners < 2 THEN listeners + 1 ELSE listeners

KeepDocument ==
  /\ checked' = ToggledBy(listeners)
  /\ UNCHANGED listeners

NewDocument == checked' = FALSE /\ listeners' = 0

(* A link of the menu to another page.                                     *)
Navigate(p) ==
  /\ PagesCall /\ MenuVisible
  /\ page' = p /\ p # page
  /\ KeepDocument \/ NewDocument
  /\ UNCHANGED width

(* OnInitializedAsync calls the weather service; no token is passed.       *)
OpenWeather ==
  /\ Navigate("weather")
  /\ Begin
  /\ shown' = "loading"

(* Leaving the weather page does not end its call.                         *)
OpenOther ==
  /\ \E p \in Pages \ {"weather"} : Navigate(p)
  /\ shown' = "nothing"
  /\ UNCHANGED httpVars

(* The name of the application, above the menu, is a link to home, too.    *)
ClickBrand ==
  /\ PagesCall /\ page # "home"
  /\ page' = "home" /\ shown' = "nothing"
  /\ UNCHANGED <<checked, listeners>> \/ NewDocument
  /\ UNCHANGED <<httpVars, width>>

-----------------------------------------------------------------------------
(* The weather page.                                                       *)

(* Mutant: an exception leaves the page as it is.                          *)
ShowForecastOnly ==
  /\ page = "weather" /\ shown = "loading" /\ call = "over"
  /\ outcome = "ok" /\ payload = Forecast
  /\ shown' = "forecast"
  /\ UNCHANGED <<httpVars, menuVars, page>>

(* The result, if the page still waits for it: WeatherClient throws on any *)
(* that is not a forecast, and no one catches any exception.               *)
Show ==
  /\ page = "weather" /\ shown = "loading" /\ call = "over"
  /\ shown' = IF outcome = "ok" /\ payload = Forecast THEN "forecast" ELSE "error"
  /\ UNCHANGED <<httpVars, menuVars, page>>

OtherCall == ~PagesCall /\ Begin /\ UNCHANGED webVars

Calling == Transport /\ UNCHANGED webVars

WebOver == ~PagesCall /\ HttpOver /\ UNCHANGED webVars

Browser ==
  \/ RunScript \/ Resize \/ ClickToggler \/ ClickBeside
  \/ OpenWeather \/ OpenOther \/ ClickBrand

WebNext == Browser \/ Show \/ OtherCall \/ Calling \/ WebOver

WebSpec == WebInit /\ [][WebNext]_webSpecVars

(* The HttpClient gives a call up in the end, and Blazor renders.          *)
WebFairness ==
  /\ WF_webSpecVars(GiveUp /\ UNCHANGED webVars)
  /\ WF_webSpecVars(Show)

FairWebSpec == WebSpec /\ WebFairness

-----------------------------------------------------------------------------
(* Properties.                                                             *)

HttpOutcomes == {"none", "ok", "InvalidOperationException", "ArgumentException",
                 "JsonException", "HttpRequestException",
                 "TimeoutRejectedException", "OperationCanceledException"}

(* Every variable keeps to its domain; in particular the script's listener *)
(* is never registered twice in a document, and the streams, which HTTP    *)
(* does not support, never cause a request.                                *)
WebTypeOK ==
  /\ call \in {"idle", "waiting", "over"}
  /\ attempt \in 0 .. MaxAttempts
  /\ execution \in [Attempts -> {"none", "running", "answered", "threw"}]
  /\ outcome \in HttpOutcomes
  /\ width \in {"narrow", "wide"} /\ checked \in BOOLEAN /\ listeners \in 0 .. 1
  /\ page \in Pages
  /\ shown \in {"nothing", "loading", "forecast", "error"}
  /\ method # "UnaryRequest" => attempt = 0

(* On a narrow window a link closes the menu it was chosen from, whether   *)
(* the document stays or not, once the script has run.  Home is left out:  *)
(* its other link leaves the menu as it is.                                *)
LinkClosesMenu ==
  [][page' \notin {page, "home"} /\ width = "narrow" /\ listeners # 0
       => ~MenuVisible']_webSpecVars

(* The page shows a forecast only when it asked for one and the service    *)
(* answered with one: an error status, an error result, a result of        *)
(* another type or an answer that arrives when the page was left, never.   *)
ForecastIsReal ==
  shown = "forecast" =>
    page = "weather" /\ execution[attempt] = "answered" /\ says = Forecast

(* The page does not say Loading for ever, whatever the service does.      *)
LoadingEnds == shown = "loading" ~> shown # "loading"

=============================================================================
