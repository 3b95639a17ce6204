---------------------------- MODULE LocaleProvider ----------------------------
(***************************************************************************)
(* The interface language of the web application: negotiated when a page   *)
(* opens, changed through the language switcher, remembered in a cookie    *)
(* and, when the address names a language, in the address.                 *)
(*                                                                         *)
(* A catalogue is fetched asynchronously, one promise per locale is kept   *)
(* while it is fetched and after it has arrived, and loads finish in any   *)
(* order.  setBundle does not change the page at once: React renders it    *)
(* later, and only that commit updates activeLocale, so a choice may fall  *)
(* between the two.                                                        *)
(***************************************************************************)
EXTENDS Naturals

CONSTANTS
  Locales,    \* the selectable locales
  None,       \* no locale
  Default,    \* DEFAULT_LOCALE
  Browser,    \* what negotiation finds without address and cookie
  MaxChoices, \* bound: choices made on one page
  MaxReloads  \* bound: reloads

ASSUME LocalesAssumption == None \notin Locales /\ {Default, Browser} \subseteq Locales
ASSUME BoundAssumption == {MaxChoices, MaxReloads} \subseteq Nat

VARIABLES
  page,      \* "opening" while the first catalogue loads, then "open"
  url,       \* the address's lang parameter
  cookie,    \* the locale cookie
  cache,     \* bundleCache: the state of the promise it has for each locale
  request,   \* the choices on this page, by number
  latest,    \* latestRequest
  bundle,    \* the locale of the last setBundle
  active,    \* the locale on the page: activeLocale and the document's lang
  pending,   \* pendingLocale
  loadError, \* whether there is a loadError
  display,   \* what the switcher shows
  fellBack,  \* the first catalogue failed: the page opened in Default
  crossed,   \* the last choice to have an effect was overtaken by a render
  reloads

stored == <<url, cookie>>
state  == <<bundle, pending, loadError>>
shown  == <<active, display>>
notes  == <<fellBack, crossed>>
vars   == <<page, stored, cache, request, latest, state, shown, notes, reloads>>

Choices  == 1..MaxChoices
Unmade   == [locale |-> None, status |-> "unmade"]
\* A choice waits for its promise, which resolves or rejects; its callback then
\* applies it, reports the failure, or finds that it came too late.  A choice
\* of the active locale is kept without a load.
Statuses == {"unmade", "waiting", "resolved", "rejected", "applied", "failed", "late", "kept"}

\* negotiate: the address, then the cookie, then the browser.
Negotiated == IF url # None THEN url ELSE IF cookie # None THEN cookie ELSE Browser

Opening ==
  /\ page' = "opening"
  /\ cache' = [l \in Locales |-> IF l = Negotiated THEN "loading" ELSE "none"]
  /\ request' = [r \in Choices |-> Unmade] /\ latest' = 0
  /\ bundle' = None /\ pending' = None /\ loadError' = FALSE
  /\ active' = None /\ display' = None
  /\ fellBack' = FALSE /\ crossed' = FALSE

Init ==
  /\ url \in Locales \cup {None} /\ cookie \in Locales \cup {None}
  /\ page = "opening"
  /\ cache = [l \in Locales |-> IF l = Negotiated THEN "loading" ELSE "none"]
  /\ request = [r \in Choices |-> Unmade] /\ latest = 0
  /\ bundle = None /\ pending = None /\ loadError = FALSE
  /\ active = None /\ display = None
  /\ fellBack = FALSE /\ crossed = FALSE
  /\ reloads = 0

\* Seeded defect: the address is left as it is.
PersistCookie(l) == cookie' = l /\ url' = url

\* writeLocaleCookie and updateLocaleInUrl, which leaves an address without
\* the parameter alone.
Persist(l) == cookie' = l /\ url' = IF url = None THEN None ELSE l

Made(r, s) == request' = [request EXCEPT ![r].status = s]

\* The promise of l settles: the choices that wait for it hear of it.
Wake(l, s) ==
  request' = [r \in Choices |->
    IF request[r].locale = l /\ request[r].status = "waiting"
    THEN [request[r] EXCEPT !.status = s] ELSE request[r]]

-----------------------------------------------------------------------------
\* Seeded defects: forms of the definitions below that a bug would give them.

\* A failed promise stays in bundleCache.
SettleKeepsFailure(l) ==
  /\ page = "open" /\ cache[l] = "loading"
  /\ \/ cache' = [cache EXCEPT ![l] = "loaded"] /\ Wake(l, "resolved")
     \/ cache' = [cache EXCEPT ![l] = "failed"] /\ Wake(l, "rejected")
  /\ UNCHANGED <<page, stored, latest, state, shown, notes, reloads>>

\* The callback does not look whether a newer choice was made.
DeliverAny(r) ==
  /\ request[r].status = "resolved"
  /\ Persist(request[r].locale) /\ bundle' = request[r].locale /\ pending' = None
  /\ Made(r, "applied") /\ crossed' = FALSE
  /\ UNCHANGED <<page, cache, latest, loadError, shown, fellBack, reloads>>

\* The error of an overtaken load is reported.
RejectAny(r) ==
  /\ request[r].status = "rejected"
  /\ pending' = None /\ loadError' = TRUE /\ Made(r, "failed")
  /\ UNCHANGED <<page, stored, cache, latest, bundle, shown, notes, reloads>>

\* The failure is reported and the switcher stays busy.
RejectedKeepsBusy(r) ==
  /\ request[r].status = "rejected"
  /\ IF r = latest
     THEN loadError' = TRUE /\ Made(r, "failed")
     ELSE Made(r, "late") /\ UNCHANGED loadError
  /\ UNCHANGED <<page, stored, cache, latest, bundle, pending, shown, notes, reloads>>

-----------------------------------------------------------------------------
\* The page opens: loadInitialLocaleState and the first render.

Open ==
  /\ page = "opening"
  /\ page' = "open"
  /\ \/ /\ bundle' = Negotiated /\ loadError' = FALSE /\ fellBack' = FALSE
        /\ cache' = [cache EXCEPT ![Negotiated] = "loaded"]
     \/ /\ bundle' = Default /\ loadError' = TRUE /\ fellBack' = TRUE
        /\ cache' = [cache EXCEPT ![Negotiated] = "none"]
  /\ active' = bundle' /\ display' = bundle'
  /\ UNCHANGED <<stored, request, latest, pending, crossed, reloads>>

Reload ==
  /\ page = "open" /\ reloads < MaxReloads
  /\ Opening
  /\ reloads' = reloads + 1
  /\ UNCHANGED stored

-----------------------------------------------------------------------------
\* setLocale.

Keep(l) ==
  /\ l = active
  /\ pending' = None
  /\ latest' = latest + 1
  /\ request' = [request EXCEPT ![latest + 1] = [locale |-> l, status |-> "kept"]]
  /\ Persist(l) /\ crossed' = (bundle # active)
  /\ UNCHANGED <<cache, bundle>>

\* loadLocaleBundle returns the cached promise or starts a load.
Load(l) ==
  /\ l # active
  /\ pending' = l
  /\ latest' = latest + 1
  /\ request' = [request EXCEPT ![latest + 1] =
       [locale |-> l,
        status |-> CASE cache[l] = "loaded" -> "resolved"
                     [] cache[l] = "failed" -> "rejected"
                     [] OTHER -> "waiting"]]
  /\ cache' = [cache EXCEPT ![l] = IF @ = "none" THEN "loading" ELSE @]
  /\ UNCHANGED <<stored, bundle, crossed>>

\* The user changes what the switcher shows.
SetLocale(l) ==
  /\ page = "open" /\ latest < MaxChoices /\ l # display
  /\ Keep(l) \/ Load(l)
  /\ loadError' = FALSE /\ display' = l
  /\ UNCHANGED <<page, active, fellBack, reloads>>

\* A rejected promise is removed from bundleCache before anyone hears of it.
Settle(l) ==
  /\ page = "open" /\ cache[l] = "loading"
  /\ \/ cache' = [cache EXCEPT ![l] = "loaded"] /\ Wake(l, "resolved")
     \/ cache' = [cache EXCEPT ![l] = "none"] /\ Wake(l, "rejected")
  /\ UNCHANGED <<page, stored, latest, state, shown, notes, reloads>>

\* The then and the catch callback of choice r.
Resolved(r) ==
  /\ request[r].status = "resolved"
  /\ IF r = latest
     THEN /\ Persist(request[r].locale) /\ bundle' = request[r].locale /\ pending' = None
          /\ Made(r, "applied") /\ crossed' = FALSE
     ELSE Made(r, "late") /\ UNCHANGED <<stored, bundle, pending, crossed>>
  /\ UNCHANGED <<page, cache, latest, loadError, shown, fellBack, reloads>>

Rejected(r) ==
  /\ request[r].status = "rejected"
  /\ IF r = latest
     THEN pending' = None /\ loadError' = TRUE /\ Made(r, "failed")
     ELSE Made(r, "late") /\ UNCHANGED <<pending, loadError>>
  /\ UNCHANGED <<page, stored, cache, latest, bundle, shown, notes, reloads>>

\* React renders the state and runs the layout effect.
Rendered == IF pending # None THEN pending ELSE bundle
Commit ==
  /\ page = "open" /\ (active # bundle \/ display # Rendered)
  /\ active' = bundle /\ display' = Rendered
  /\ UNCHANGED <<page, stored, cache, request, latest, state, notes, reloads>>

Next ==
  \/ Open \/ Reload \/ Commit
  \/ \E l \in Locales : SetLocale(l) \/ Settle(l)
  \/ \E r \in Choices : Resolved(r) \/ Rejected(r)

Spec == Init /\ [][Next]_vars

\* Fetches end, callbacks run, React renders.
FairSpec ==
  /\ Spec
  /\ WF_vars(Open) /\ WF_vars(Commit)
  /\ \A l \in Locales : WF_vars(Settle(l))
  /\ \A r \in Choices : WF_vars(Resolved(r) \/ Rejected(r))

-----------------------------------------------------------------------------
\* What the user may rely on.

TypeOK ==
  /\ page \in {"opening", "open"}
  /\ {url, cookie, pending} \subseteq Locales \cup {None}
  /\ {bundle, active, display} \subseteq IF page = "open" THEN Locales ELSE {None}
  /\ cache \in [Locales -> {"none", "loading", "loaded", "failed"}]
  /\ request \in [Choices -> [locale : Locales \cup {None}, status : Statuses]]
  /\ latest \in 0..MaxChoices /\ reloads \in 0..MaxReloads
  /\ {loadError, fellBack, crossed} \subseteq BOOLEAN

\* Nothing is under way and nothing remains to be rendered.
Quiet == page = "open" /\ pending = None /\ active = bundle /\ display = active

\* When everything has settled the page shows the last choice, or says that it
\* failed, in whatever order the catalogues arrived.  The exception is a choice
\* of the locale still on the page after setBundle of another.
LastChoiceShown ==
  Quiet /\ latest > 0 /\ ~crossed =>
    IF request[latest].status = "failed" THEN loadError ELSE active = request[latest].locale

\* A reload opens the page in the language it shows: cookie, address and page
\* agree whatever loads failed or came late.  A page that fell back to the
\* default language has not yet forgotten the one it was asked for.
SurvivesReload ==
  Quiet /\ ~crossed =>
    \/ Negotiated = active
    \/ fellBack /\ \A r \in Choices : request[r].status \notin {"applied", "kept"}

\* An error on display is about the last choice, or about opening the page.
ErrorIsCurrent ==
  loadError => IF latest = 0 THEN fellBack ELSE request[latest].status = "failed"

\* A choice is refused only because of a load that failed while it waited: a
\* catalogue that could not be fetched once can be chosen again.
FailureIsNotRemembered ==
  [][\A r \in Choices :
       request[r].status # "rejected" /\ request'[r].status = "rejected" =>
         request[r].status = "waiting" /\ request[r].locale = request'[r].locale
         /\ cache[request[r].locale] = "loading"]_vars

\* The switcher does not stay busy: every choice is answered and rendered.
ChoiceIsAnswered == pending # None ~> Quiet
=============================================================================
