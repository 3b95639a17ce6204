-------------------------------- MODULE MCWeb --------------------------------
(***************************************************************************)
(* The web application: the language of a tab's pages, the theme of all    *)
(* tabs, and a tab's calls of the API.  The three share no state: a        *)
(* behaviour is about one of them, as part says, and the variables of the  *)
(* others rest.                                                            *)
(***************************************************************************)
EXTENDS LocaleProvider, ThemeProvider, ProbeBridge

VARIABLE part

Asked(method, kind, n) == [method |-> method, kind |-> kind, n |-> n]

\* Each route; each thing a handler may do; delays of nothing, one tick, more
\* than the unary deadline and more than Wait allows; too long a stream.
MCCalls ==
  {Asked(m, "", 0) : m \in {"OPTIONS", "live", "ready", "unknown", "Correlate", "CookieRoundTrip", "Stream"}}
  \cup {Asked("GetRuntime", k, 0) : k \in {"ok", "stall", "panic", "canceled", "unsafe"}}
  \cup {Asked("Fail", k, 0) : k \in {"", "unavailable", "internal_failure"}}
  \cup {Asked("Wait", "", n) : n \in {0, 1, 2, 5}}
  \cup {Asked("Stream", "", n) : n \in {3, 21}}

NoCalls ==
  /\ ready = FALSE /\ flow = [r \in Requests |-> Idle]
  /\ streamState = Fresh /\ reading = {} /\ received = [r \in Requests |-> 0] /\ overlapped = FALSE

NoLanguage ==
  /\ url = None /\ cookie = None /\ page = "opening"
  /\ cache = [l \in Locales |-> "none"] /\ request = [r \in Choices |-> Unmade]
  /\ latest = 0 /\ bundle = None /\ pending = None /\ loadError = FALSE
  /\ active = None /\ display = None /\ fellBack = FALSE /\ crossed = FALSE /\ reloads = 0

WebInit ==
  \/ part = "language" /\ Init /\ NoCalls /\ ThemeInit /\ scheme = "light"
  \/ part = "theme" /\ ThemeInit /\ NoLanguage /\ NoCalls
  \/ part = "calls" /\ ProbeInit /\ NoLanguage /\ ThemeInit /\ scheme = "light"

WebNext ==
  /\ UNCHANGED part
  /\ \/ part = "language" /\ Next /\ UNCHANGED <<themeVars, probeVars>>
     \/ part = "theme" /\ ThemeNext /\ UNCHANGED <<vars, probeVars>>
     \/ part = "calls" /\ ProbeNext /\ UNCHANGED <<vars, themeVars>>

webVars == <<part, vars, themeVars, probeVars>>
Alone(A) == part = "language" /\ A /\ UNCHANGED <<part, themeVars, probeVars>>
Served(A) == part = "calls" /\ A /\ UNCHANGED <<part, vars, themeVars, bridgeVars>>

WebSpec ==
  /\ WebInit /\ [][WebNext]_webVars
  /\ WF_webVars(Alone(Open)) /\ WF_webVars(Alone(Commit))
  /\ \A l \in Locales : WF_webVars(Alone(Settle(l)))
  /\ \A c \in Choices : WF_webVars(Alone(Resolved(c) \/ Rejected(c)))
  /\ \A r \in Requests :
       /\ WF_webVars(Served(Work(r))) /\ WF_webVars(Served(Tick(r)))
       /\ WF_webVars(Served((flow[r].gone \/ flow[r].age >= ReadTimeout) /\ (Body(r) \/ Message(r))))
=============================================================================
