------------------------------- MODULE WebProofs -------------------------------
(***************************************************************************)
(* Proofs about the web application: the language of a tab, for any        *)
(* locales and any number of choices and reloads; the theme, for any       *)
(* number of tabs; and the streams of the probe's bridge, for any number   *)
(* of requests and any deadlines.  Each has an invariant of its own.       *)
(***************************************************************************)
EXTENDS LocaleProvider, ThemeProvider, ProbeBridge, RequestProofs, SequenceTheorems

-----------------------------------------------------------------------------
\* The language of a tab.

\* What is known of the last choice: until it is answered the switcher is
\* busy with it, and then the page is its own or there is an error.
Latest(c) ==
  /\ c.status \in {"waiting", "resolved", "rejected"} => pending = c.locale
  /\ c.status \in {"applied", "failed", "kept"} => pending = None
  /\ c.status = "failed" => loadError
  /\ c.status = "applied" => bundle = c.locale
  /\ c.status = "kept" /\ ~crossed => bundle = c.locale
  /\ c.status \notin {"unmade", "late"} /\ c.locale \in Locales

LocaleInv ==
  /\ TypeOK
  /\ page = "opening" => latest = 0 /\ fellBack = FALSE /\ crossed = FALSE
  /\ \A l \in Locales : cache[l] # "failed"
  /\ \A r \in Choices : r > latest <=> request[r].status = "unmade"
  /\ latest = 0 => pending = None
  /\ latest > 0 => Latest(request[latest])
  /\ ErrorIsCurrent
  /\ page = "open" /\ ~crossed =>
       \/ Negotiated = bundle
       \/ fellBack /\ \A r \in Choices : request[r].status \notin {"applied", "kept"}

LEMMA LocaleInit == Init => LocaleInv
<1> SUFFICES ASSUME Init PROVE LocaleInv
  OBVIOUS
<1>1. Negotiated \in Locales
  BY LocalesAssumption DEF Init, Negotiated
<1>2. cache \in [Locales -> {"none", "loading", "loaded", "failed"}]
      /\ \A l \in Locales : cache[l] # "failed"
  BY DEF Init
<1>3. /\ request \in [Choices -> [locale : Locales \cup {None}, status : Statuses]]
      /\ \A r \in Choices : r > latest /\ request[r].status = "unmade"
  BY DEF Init, Unmade, Statuses, Choices
<1>4. latest \in 0..MaxChoices /\ reloads \in 0..MaxReloads
  BY BoundAssumption DEF Init
<1>5. TypeOK
  BY <1>2, <1>3, <1>4 DEF Init, TypeOK
<1>6. QED
  BY <1>2, <1>3, <1>5 DEF Init, LocaleInv, ErrorIsCurrent

LEMMA NegotiatedIs == TypeOK => Negotiated \in Locales
  BY LocalesAssumption DEF TypeOK, Negotiated

LEMMA PersistIs ==
  ASSUME TypeOK, NEW l \in Locales, Persist(l)
  PROVE  Negotiated' = l /\ {url', cookie'} \subseteq Locales \cup {None}
  BY LocalesAssumption DEF TypeOK, Persist, Negotiated

LEMMA OpenKeeps ==
  ASSUME LocaleInv, Open \/ Reload
  PROVE  LocaleInv'
<1>n. Negotiated \in Locales
  BY NegotiatedIs DEF LocaleInv
<1>1. CASE Open
  <2>1. TypeOK'
    BY <1>1, <1>n, LocalesAssumption DEF Open, LocaleInv, TypeOK, stored
  <2>2. Negotiated' = Negotiated
    BY <1>1 DEF Open, stored, Negotiated
  <2>3. \A r \in Choices : request'[r].status = "unmade"
    BY <1>1 DEF Open, LocaleInv, Choices
  <2>4. \A l \in Locales : cache'[l] # "failed"
    BY <1>1 DEF Open, LocaleInv, TypeOK
  <2>5. QED
    BY <1>1, <2>1, <2>2, <2>3, <2>4 DEF Open, LocaleInv, ErrorIsCurrent
<1>2. CASE Reload
  <2>1. cache' \in [Locales -> {"none", "loading", "loaded", "failed"}]
        /\ \A l \in Locales : cache'[l] # "failed"
    BY <1>2 DEF Reload, Opening
  <2>2. /\ request' \in [Choices -> [locale : Locales \cup {None}, status : Statuses]]
        /\ latest' = 0 /\ \A r \in Choices : r > latest' /\ request'[r].status = "unmade"
    BY <1>2 DEF Reload, Opening, Unmade, Statuses, Choices
  <2>3. latest' \in 0..MaxChoices /\ reloads' \in 0..MaxReloads
    BY <1>2, BoundAssumption DEF Reload, Opening, LocaleInv, TypeOK
  <2>4. /\ page' = "opening" /\ {url', cookie', pending'} \subseteq Locales \cup {None}
        /\ {bundle', active', display'} \subseteq {None}
        /\ {loadError', fellBack', crossed'} \subseteq BOOLEAN
    BY <1>2 DEF Reload, Opening, LocaleInv, TypeOK, stored
  <2>5. TypeOK'
    BY <2>1, <2>2, <2>3, <2>4 DEF TypeOK
  <2>6. QED
    BY <1>2, <2>1, <2>2, <2>5 DEF Reload, Opening, LocaleInv, ErrorIsCurrent
<1>3. QED
  BY <1>1, <1>2

LEMMA ChoiceKeeps ==
  ASSUME LocaleInv, NEW l \in Locales, SetLocale(l)
  PROVE  LocaleInv'
<1>n. latest \in Nat /\ latest + 1 \in Choices /\ latest' = latest + 1
  BY BoundAssumption DEF SetLocale, Keep, Load, LocaleInv, TypeOK, Choices
<1>t. TypeOK
  BY DEF LocaleInv
<1>r. ASSUME NEW s \in Statuses \ {"unmade"},
             request' = [request EXCEPT ![latest + 1] = [locale |-> l, status |-> s]]
      PROVE  /\ request' \in [Choices -> [locale : Locales \cup {None}, status : Statuses]]
             /\ \A r \in Choices : r > latest' <=> request'[r].status = "unmade"
             /\ \A r \in Choices \ {latest + 1} : request'[r] = request[r]
             /\ request'[latest + 1] = [locale |-> l, status |-> s]
  <2>1. /\ request' \in [Choices -> [locale : Locales \cup {None}, status : Statuses]]
        /\ \A r \in Choices \ {latest + 1} : request'[r] = request[r]
        /\ request'[latest + 1] = [locale |-> l, status |-> s]
    BY <1>n, <1>t, <1>r DEF TypeOK
  <2>2. ASSUME NEW r \in Choices PROVE r > latest' <=> request'[r].status = "unmade"
    <3>1. CASE r = latest + 1
      BY <1>n, <1>r, <2>1, <3>1
    <3>2. CASE r # latest + 1
      <4>1. request'[r].status = "unmade" <=> r > latest
        BY <2>1, <3>2 DEF LocaleInv
      <4>2. QED
        BY <1>n, <3>2, <4>1 DEF Choices
    <3>3. QED
      BY <3>1, <3>2
  <2>3. QED
    BY <2>1, <2>2
<1>p. page' = "open" /\ page = "open"
  BY DEF SetLocale
<1>1. CASE Keep(l)
  <2>1. /\ request' = [request EXCEPT ![latest + 1] = [locale |-> l, status |-> "kept"]]
        /\ "kept" \in Statuses \ {"unmade"}
    BY <1>1 DEF Keep, Statuses
  <2>2. Negotiated' = l /\ {url', cookie'} \subseteq Locales \cup {None}
    BY <1>1, <1>t, PersistIs DEF Keep
  <2>3. /\ request' \in [Choices -> [locale : Locales \cup {None}, status : Statuses]]
        /\ \A r \in Choices : r > latest' <=> request'[r].status = "unmade"
        /\ request'[latest'] = [locale |-> l, status |-> "kept"]
    BY <1>n, <1>r, <2>1
  <2>4. /\ pending' = None /\ loadError' = FALSE /\ display' = l /\ l = active
        /\ UNCHANGED <<page, active, fellBack, reloads, cache, bundle>>
    BY <1>1 DEF SetLocale, Keep
  <2>c. crossed' \in BOOLEAN /\ (~crossed' => bundle = active)
    <3>1. crossed' = (bundle # active)
      BY <1>1 DEF Keep
    <3>2. CASE bundle = active
      BY <3>1, <3>2, Zenon
    <3>3. CASE bundle # active
      BY <3>1, <3>3, Zenon
    <3>4. QED
      BY <3>2, <3>3
  <2>5. TypeOK'
    <3>1. {bundle', active', display'} \subseteq Locales /\ page' = "open"
      BY <1>p, <1>t, <2>4 DEF TypeOK
    <3>2. latest' \in 0..MaxChoices /\ reloads' \in 0..MaxReloads
      BY <1>n, <1>t, <2>4 DEF TypeOK, Choices
    <3>3. {loadError', fellBack', crossed'} \subseteq BOOLEAN
      BY <1>t, <2>4, <2>c DEF TypeOK
    <3>4. QED
      BY <1>t, <2>2, <2>3, <2>4, <3>1, <3>2, <3>3 DEF TypeOK
  <2>6. Latest(request[latest])'
    BY <2>3, <2>4, <2>c DEF Latest
  <2>7. QED
    BY <1>n, <1>p, <2>2, <2>3, <2>4, <2>5, <2>6, <2>c DEF LocaleInv, ErrorIsCurrent
<1>2. CASE Load(l)
  <2>1. PICK s \in {"waiting", "resolved"} :
          request' = [request EXCEPT ![latest + 1] = [locale |-> l, status |-> s]]
    BY <1>2 DEF Load, LocaleInv
  <2>2. s \in Statuses \ {"unmade"}
    BY <2>1 DEF Statuses
  <2>3. /\ request' \in [Choices -> [locale : Locales \cup {None}, status : Statuses]]
        /\ \A r \in Choices : r > latest' <=> request'[r].status = "unmade"
        /\ \A r \in Choices \ {latest + 1} : request'[r] = request[r]
        /\ request'[latest'] = [locale |-> l, status |-> s]
    BY <1>n, <1>r, <2>1, <2>2
  <2>4. /\ pending' = l /\ loadError' = FALSE /\ display' = l
        /\ UNCHANGED <<page, active, fellBack, reloads, url, cookie, bundle, crossed>>
        /\ cache' = [cache EXCEPT ![l] = IF @ = "none" THEN "loading" ELSE @]
    BY <1>2 DEF SetLocale, Load, stored
  <2>5. cache' \in [Locales -> {"none", "loading", "loaded", "failed"}]
        /\ \A k \in Locales : cache'[k] # "failed"
    BY <1>t, <2>4 DEF TypeOK, LocaleInv
  <2>6. TypeOK'
    <3>1. {bundle', active', display'} \subseteq Locales /\ page' = "open"
      BY <1>p, <1>t, <2>4 DEF TypeOK
    <3>2. latest' \in 0..MaxChoices /\ reloads' \in 0..MaxReloads
      BY <1>n, <1>t, <2>4 DEF TypeOK, Choices
    <3>3. {url', cookie', pending'} \subseteq Locales \cup {None}
      BY <1>t, <2>4 DEF TypeOK
    <3>4. QED
      BY <1>t, <2>3, <2>4, <2>5, <3>1, <3>2, <3>3 DEF TypeOK
  <2>7. Latest(request[latest])'
    BY <2>1, <2>3, <2>4 DEF Latest
  <2>8. /\ Negotiated' = Negotiated
        /\ \A r \in Choices : request'[r].status \in {"applied", "kept"} =>
             request[r].status \in {"applied", "kept"}
    BY <1>n, <2>1, <2>3, <2>4 DEF Negotiated
  <2>9. QED
    BY <1>n, <1>p, <2>3, <2>4, <2>5, <2>6, <2>7, <2>8 DEF LocaleInv, ErrorIsCurrent
<1>3. QED
  BY <1>1, <1>2 DEF SetLocale

LEMMA SettleKeeps ==
  ASSUME LocaleInv, NEW l \in Locales, Settle(l)
  PROVE  LocaleInv'
<1>t. TypeOK
  BY DEF LocaleInv
<1>1. cache' \in [Locales -> {"none", "loading", "loaded", "failed"}]
      /\ \A k \in Locales : cache'[k] # "failed"
  BY <1>t DEF Settle, TypeOK, LocaleInv
<1>2. PICK s \in {"resolved", "rejected"} : Wake(l, s)
  BY DEF Settle
<1>3. \A r \in Choices :
        /\ request'[r] \in [locale : Locales \cup {None}, status : Statuses]
        /\ request'[r].locale = request[r].locale
        /\ \/ request'[r].status = request[r].status
           \/ request[r].status = "waiting" /\ request'[r].status = s
  BY <1>t, <1>2 DEF Wake, TypeOK, Statuses
<1>4. request' \in [Choices -> [locale : Locales \cup {None}, status : Statuses]]
  BY <1>2, <1>3 DEF Wake
<1>5. UNCHANGED <<page, url, cookie, latest, bundle, pending, loadError, active, display,
                  fellBack, crossed, reloads>>
  BY DEF Settle, stored, state, shown, notes
<1>6. TypeOK'
  BY <1>t, <1>1, <1>4, <1>5 DEF TypeOK
<1>7. latest > 0 => Latest(request[latest])'
  <2>1. latest > 0 => latest \in Choices
    BY <1>t DEF TypeOK, Choices
  <2>2. QED
    BY <1>2, <1>3, <1>5, <2>1 DEF LocaleInv, Latest
<1>8. ErrorIsCurrent'
  <2>1. latest # 0 => latest \in Choices
    BY <1>t DEF TypeOK, Choices
  <2>2. QED
    BY <1>3, <1>5, <2>1 DEF LocaleInv, ErrorIsCurrent
<1>9. /\ \A r \in Choices : r > latest' <=> request'[r].status = "unmade"
      /\ \A r \in Choices : request'[r].status \in {"applied", "kept"} =>
           request[r].status \in {"applied", "kept"}
      /\ Negotiated' = Negotiated
  BY <1>2, <1>3, <1>5 DEF LocaleInv, Negotiated
<1>10. QED
  BY <1>1, <1>5, <1>6, <1>7, <1>8, <1>9 DEF LocaleInv

LEMMA AnswerKeeps ==
  ASSUME LocaleInv, NEW r \in Choices, Resolved(r) \/ Rejected(r)
  PROVE  LocaleInv'
<1>t. TypeOK
  BY DEF LocaleInv
<1>n. latest \in Nat /\ r \in Nat \ {0} /\ r <= latest /\ latest \in Choices
  <2>1. request[r].status # "unmade"
    BY DEF Resolved, Rejected
  <2>2. r \in Nat \ {0} /\ latest \in 0..MaxChoices /\ MaxChoices \in Nat
    BY <1>t, BoundAssumption DEF Choices, TypeOK
  <2>3. r <= latest
    BY <2>1, <2>2 DEF LocaleInv
  <2>4. QED
    BY <2>2, <2>3 DEF Choices
<1>m. ASSUME NEW s \in Statuses \ {"unmade"}, Made(r, s)
      PROVE  /\ request' \in [Choices -> [locale : Locales \cup {None}, status : Statuses]]
             /\ \A q \in Choices \ {r} : request'[q] = request[q]
             /\ request'[r].status = s /\ request'[r].locale = request[r].locale
             /\ \A q \in Choices : q > latest <=> request'[q].status = "unmade"
  <2>1. /\ request' \in [Choices -> [locale : Locales \cup {None}, status : Statuses]]
        /\ \A q \in Choices \ {r} : request'[q] = request[q]
        /\ request'[r].status = s /\ request'[r].locale = request[r].locale
    BY <1>t, <1>m DEF Made, TypeOK
  <2>2. ~(r > latest)
    BY <1>n
  <2>3. QED
    BY <1>m, <2>1, <2>2 DEF LocaleInv
<1>s. {"applied", "failed", "late"} \subseteq Statuses \ {"unmade"}
  BY DEF Statuses
<1>p. page = "open"
  BY <1>n, <1>t DEF LocaleInv, TypeOK
<1>1. CASE r # latest
  <2>1. Made(r, "late") /\ UNCHANGED <<page, url, cookie, cache, latest, bundle, pending, loadError,
                                      active, display, fellBack, crossed, reloads>>
    BY <1>1 DEF Resolved, Rejected, stored, shown, notes
  <2>2. /\ request' \in [Choices -> [locale : Locales \cup {None}, status : Statuses]]
        /\ \A q \in Choices \ {r} : request'[q] = request[q]
        /\ request'[r].status = "late"
        /\ \A q \in Choices : q > latest <=> request'[q].status = "unmade"
    BY <1>m, <1>s, <2>1
  <2>3. TypeOK'
    BY <1>t, <2>1, <2>2 DEF TypeOK
  <2>4. request'[latest'] = request[latest]
    BY <1>1, <1>n, <2>1, <2>2
  <2>5. Latest(request[latest])' /\ ErrorIsCurrent'
    BY <1>n, <2>1, <2>4 DEF LocaleInv, Latest, ErrorIsCurrent
  <2>6. /\ Negotiated' = Negotiated
        /\ \A q \in Choices : request'[q].status \in {"applied", "kept"} =>
             request[q].status \in {"applied", "kept"}
    BY <2>1, <2>2 DEF Negotiated
  <2>7. QED
    BY <1>n, <2>1, <2>2, <2>3, <2>5, <2>6 DEF LocaleInv
<1>2. CASE r = latest /\ Resolved(r)
  <2>1. request[r].locale \in Locales /\ request[r].status = "resolved"
    BY <1>2, <1>n DEF Resolved, LocaleInv, Latest
  <2>2. /\ Persist(request[r].locale) /\ bundle' = request[r].locale /\ pending' = None
        /\ Made(r, "applied") /\ crossed' = FALSE
        /\ UNCHANGED <<page, cache, latest, loadError, active, display, fellBack, reloads>>
    BY <1>2 DEF Resolved, shown
  <2>3. Negotiated' = bundle' /\ {url', cookie'} \subseteq Locales \cup {None}
    BY <1>t, <2>1, <2>2, PersistIs
  <2>4. /\ request' \in [Choices -> [locale : Locales \cup {None}, status : Statuses]]
        /\ request'[r].status = "applied" /\ request'[r].locale = request[r].locale
        /\ \A q \in Choices : q > latest <=> request'[q].status = "unmade"
    BY <1>m, <1>s, <2>2
  <2>5. TypeOK'
    BY <1>t, <1>p, <2>1, <2>2, <2>3, <2>4 DEF TypeOK
  <2>6. ~loadError
    BY <1>2, <1>n, <2>1 DEF LocaleInv, ErrorIsCurrent
  <2>7. Latest(request[latest])' /\ ErrorIsCurrent'
    BY <1>2, <1>n, <2>1, <2>2, <2>4, <2>6 DEF Latest, ErrorIsCurrent
  <2>8. QED
    BY <1>n, <1>p, <2>2, <2>3, <2>4, <2>5, <2>7 DEF LocaleInv
<1>3. CASE r = latest /\ Rejected(r)
  <2>1. request[r].locale \in Locales /\ request[r].status = "rejected"
    BY <1>3, <1>n DEF Rejected, LocaleInv, Latest
  <2>2. /\ pending' = None /\ loadError' = TRUE /\ Made(r, "failed")
        /\ UNCHANGED <<page, url, cookie, cache, latest, bundle, active, display, fellBack,
                       crossed, reloads>>
    BY <1>3 DEF Rejected, shown, stored, notes
  <2>3. /\ request' \in [Choices -> [locale : Locales \cup {None}, status : Statuses]]
        /\ \A q \in Choices \ {r} : request'[q] = request[q]
        /\ request'[r].status = "failed" /\ request'[r].locale = request[r].locale
        /\ \A q \in Choices : q > latest <=> request'[q].status = "unmade"
    BY <1>m, <1>s, <2>2
  <2>4. TypeOK'
    BY <1>t, <2>2, <2>3 DEF TypeOK
  <2>5. Latest(request[latest])' /\ ErrorIsCurrent'
    BY <1>3, <1>n, <2>1, <2>2, <2>3 DEF Latest, ErrorIsCurrent
  <2>6. /\ Negotiated' = Negotiated
        /\ \A q \in Choices : request'[q].status \in {"applied", "kept"} =>
             request[q].status \in {"applied", "kept"}
    BY <2>2, <2>3 DEF Negotiated
  <2>7. QED
    BY <1>n, <2>2, <2>3, <2>4, <2>5, <2>6 DEF LocaleInv
<1>4. QED
  BY <1>1, <1>2, <1>3

LEMMA RenderKeeps ==
  ASSUME LocaleInv, Commit \/ UNCHANGED vars
  PROVE  LocaleInv'
<1>1. UNCHANGED <<page, url, cookie, cache, request, latest, bundle, pending, loadError, fellBack,
                  crossed, reloads>>
  BY DEF Commit, vars, stored, state, shown, notes
<1>2. TypeOK'
  BY <1>1 DEF Commit, Rendered, vars, shown, LocaleInv, TypeOK
<1>3. Negotiated' = Negotiated
  BY <1>1 DEF Negotiated
<1>4. QED
  BY <1>1, <1>2, <1>3 DEF LocaleInv, Latest, ErrorIsCurrent

LEMMA LocaleStep == LocaleInv /\ [Next]_vars => LocaleInv'
  BY OpenKeeps, ChoiceKeeps, SettleKeeps, AnswerKeeps, RenderKeeps DEF Next

\* The language of a tab keeps its types.
THEOREM LanguageTypes == Spec => []TypeOK
<1>1. LocaleInv => TypeOK
  BY DEF LocaleInv
<1>2. QED
  BY <1>1, LocaleInit, LocaleStep, PTL DEF Spec

\* Whatever is chosen, and in whatever order catalogues arrive or fail, the
\* page settles on the last choice or on its error.
THEOREM LastChoiceIsShown == Spec => []LastChoiceShown
<1>1. LocaleInv => LastChoiceShown
  <2> SUFFICES ASSUME LocaleInv, Quiet, latest > 0, ~crossed
               PROVE  IF request[latest].status = "failed" THEN loadError
                      ELSE active = request[latest].locale
    BY DEF LastChoiceShown
  <2>1. latest \in Choices
    BY DEF LocaleInv, TypeOK, Choices
  <2>2. request[latest].status \in Statuses
    BY <2>1 DEF LocaleInv, TypeOK
  <2>3. Latest(request[latest]) /\ pending = None
    BY DEF LocaleInv, Quiet
  <2>4. request[latest].status \in {"applied", "failed", "kept"}
    BY <2>2, <2>3, LocalesAssumption DEF Latest, Statuses
  <2>5. QED
    BY <2>3, <2>4 DEF Latest, Quiet
<1>2. QED
  BY <1>1, LocaleInit, LocaleStep, PTL DEF Spec

\* A reload finds the language that the page had settled on.
THEOREM LanguageSurvivesReload == Spec => []SurvivesReload
<1>1. LocaleInv => SurvivesReload
  BY DEF LocaleInv, SurvivesReload, Quiet
<1>2. QED
  BY <1>1, LocaleInit, LocaleStep, PTL DEF Spec

\* An error is never shown for a choice that a newer one has overtaken.
THEOREM ErrorsAreCurrent == Spec => []ErrorIsCurrent
<1>1. LocaleInv => ErrorIsCurrent
  BY DEF LocaleInv
<1>2. QED
  BY <1>1, LocaleInit, LocaleStep, PTL DEF Spec

\* No failure is kept in the cache: a catalogue can be asked for again.
THEOREM FailuresAreForgotten == Spec => FailureIsNotRemembered
<1>1. LocaleInv /\ [Next]_vars =>
        [\A r \in Choices :
           request[r].status # "rejected" /\ request'[r].status = "rejected" =>
             request[r].status = "waiting" /\ request[r].locale = request'[r].locale
             /\ cache[request[r].locale] = "loading"]_vars
  <2> SUFFICES ASSUME LocaleInv, Next, NEW r \in Choices,
                      request[r].status # "rejected", request'[r].status = "rejected"
               PROVE  request[r].status = "waiting" /\ request[r].locale = request'[r].locale
                      /\ cache[request[r].locale] = "loading"
    OBVIOUS
  <2>t. request \in [Choices -> [locale : Locales \cup {None}, status : Statuses]]
    BY DEF LocaleInv, TypeOK
  <2>1. ASSUME NEW l \in Locales, SetLocale(l) PROVE FALSE
    <3>1. PICK s \in {"kept", "waiting", "resolved"} :
            request' = [request EXCEPT ![latest + 1] = [locale |-> l, status |-> s]]
      BY <2>1 DEF SetLocale, Keep, Load, LocaleInv
    <3>2. QED
      BY <2>t, <3>1
  <2>2. ASSUME NEW q \in Choices, Resolved(q) \/ Rejected(q) PROVE FALSE
    <3>1. PICK s \in {"applied", "failed", "late"} : Made(q, s)
      BY <2>2 DEF Resolved, Rejected
    <3>2. QED
      BY <2>t, <3>1 DEF Made
  <2>3. ASSUME Open \/ Reload \/ Commit PROVE FALSE
    BY <2>3 DEF Open, Reload, Opening, Unmade, Commit
  <2>4. ASSUME NEW l \in Locales, Settle(l)
        PROVE  request[r].status = "waiting" /\ request[r].locale = request'[r].locale
               /\ cache[request[r].locale] = "loading"
    BY <2>t, <2>4 DEF Settle, Wake
  <2>5. QED
    BY <2>1, <2>2, <2>3, <2>4 DEF Next
<1>2. QED
  BY <1>1, LocaleInit, LocaleStep, PTL DEF Spec, FailureIsNotRemembered

-----------------------------------------------------------------------------
\* The theme of the tabs.

Themes == {"light", "dark", "system"}

\* The theme a tab will have when it has heard and rendered everything.
Final(t) ==
  IF inbox[t] # <<>> THEN OrDefault(inbox[t][Len(inbox[t])])
  ELSE IF update[t] # Unset THEN update[t] ELSE theme[t]

ThemeType ==
  /\ saved \in Themes \cup {Unset} /\ scheme \in {"light", "dark"}
  /\ theme \in [Tabs -> Themes] /\ update \in [Tabs -> Themes \cup {Unset}]
  /\ applied \in [Tabs -> Themes \cup {Unset}]
  /\ class \in [Tabs -> {"light", "dark", Unset}]
  /\ inbox \in [Tabs -> Seq(Themes \cup {Unset})]
  /\ notice \in [Tabs -> BOOLEAN] /\ loose \in [Tabs -> BOOLEAN]

\* After its first effect a page shows the theme of the last one, unless the
\* colour scheme has changed since and it has not been told.
PageFollows(t) ==
  applied[t] # Unset =>
    class[t] = OnPage(applied[t]) \/ (applied[t] = "system" /\ notice[t])

ThemeInv ==
  /\ ThemeType
  /\ \A t \in Tabs : PageFollows(t)
  /\ \A t \in Tabs : loose[t] \/ Final(t) = OrDefault(saved)

LEMMA ThemeInitOK == ThemeInit => ThemeInv
<1> SUFFICES ASSUME ThemeInit PROVE ThemeInv
  OBVIOUS
<1>1. ThemeType
  BY DEF ThemeInit, ThemeType, Themes
<1>2. \A t \in Tabs : Final(t) = "system"
  BY DEF ThemeInit, Final
<1>3. QED
  BY <1>1, <1>2 DEF ThemeInit, ThemeInv, PageFollows, OrDefault

\* The last of what is on its way, when one more is sent or one is heard.
LEMMA AppendLast ==
  ASSUME NEW S, NEW s \in Seq(S), NEW e \in S
  PROVE  /\ Append(s, e) \in Seq(S) /\ Append(s, e) # <<>>
         /\ Append(s, e)[Len(Append(s, e))] = e
  BY AppendProperties

LEMMA TailLast ==
  ASSUME NEW S, NEW s \in Seq(S), s # <<>>
  PROVE  /\ Tail(s) \in Seq(S) /\ Head(s) \in S /\ Len(s) \in Nat \ {0}
         /\ Len(s) = 1 => Tail(s) = <<>> /\ Head(s) = s[Len(s)]
         /\ Len(s) # 1 => Tail(s) # <<>> /\ Tail(s)[Len(Tail(s))] = s[Len(s)]
<1>1. /\ Tail(s) \in Seq(S) /\ Head(s) \in S /\ Len(Tail(s)) = Len(s) - 1
      /\ \A i \in 1..Len(Tail(s)) : Tail(s)[i] = s[i + 1]
  BY HeadTailProperties
<1>2. Len(s) \in Nat \ {0}
  BY EmptySeq
<1>3. ASSUME Len(s) = 1 PROVE Tail(s) = <<>> /\ Head(s) = s[Len(s)]
  <2>1. Len(Tail(s)) = 0
    BY <1>1, <1>3
  <2>2. Tail(s) = <<>>
    BY <1>1, <2>1, EmptySeq
  <2>3. QED
    BY <1>3, <2>2
<1>4. ASSUME Len(s) # 1 PROVE Tail(s) # <<>> /\ Tail(s)[Len(Tail(s))] = s[Len(s)]
  <2>1. Len(Tail(s)) \in Nat \ {0} /\ Len(Tail(s)) + 1 = Len(s)
    BY <1>1, <1>2, <1>4
  <2>2. Tail(s) # <<>>
    BY <2>1, EmptySeq
  <2>3. Len(Tail(s)) \in 1..Len(Tail(s))
    BY <2>1
  <2>4. QED
    BY <1>1, <2>1, <2>2, <2>3
<1>5. QED
  BY <1>1, <1>2, <1>3, <1>4

LEMMA Defaulted ==
  ASSUME NEW item \in Themes \cup {Unset}
  PROVE  OrDefault(item) \in Themes /\ OrDefault(item) # Unset
  BY UnsetAssumption DEF OrDefault, Themes

LEMMA KeyKeeps ==
  ASSUME ThemeInv, NEW t \in Tabs, NEW allowed \in BOOLEAN, KeyDown(t, allowed)
  PROVE  ThemeInv'
<1> DEFINE next == Following(IF update[t] = Unset THEN theme[t] ELSE update[t])
<1>t. ThemeType
  BY DEF ThemeInv
<1>n. next \in Themes /\ next # Unset /\ next \in Themes \cup {Unset}
  BY <1>t, UnsetAssumption DEF Following, ThemeType, Themes
<1>1. /\ theme' = [theme EXCEPT ![t] = next] /\ update' = [update EXCEPT ![t] = Unset]
      /\ applied' = [applied EXCEPT ![t] = next] /\ class' = [class EXCEPT ![t] = OnPage(next)]
      /\ UNCHANGED <<scheme, notice>>
  BY DEF KeyDown
<1>2. allowed => Write(t, next)
  BY DEF KeyDown
<1>3. ~allowed => loose' = [loose EXCEPT ![t] = TRUE] /\ UNCHANGED <<saved, inbox>>
  BY DEF KeyDown
<1> HIDE DEF next
<1>4. OnPage(next) \in {"light", "dark"}
  BY <1>n, <1>t DEF OnPage, ThemeType, Themes
<1>5. /\ theme' \in [Tabs -> Themes] /\ update' \in [Tabs -> Themes \cup {Unset}]
      /\ applied' \in [Tabs -> Themes \cup {Unset}] /\ scheme' \in {"light", "dark"}
      /\ class' \in [Tabs -> {"light", "dark", Unset}] /\ notice' \in [Tabs -> BOOLEAN]
  BY <1>1, <1>4, <1>n, <1>t DEF ThemeType
<1>6. \A u \in Tabs : PageFollows(u)'
  BY <1>1, <1>t DEF ThemeInv, ThemeType, PageFollows, OnPage
<1>7. CASE allowed /\ next # saved
  <2>1. /\ saved' = next
        /\ inbox' = [u \in Tabs |-> IF u \in Tabs \ {t} THEN Append(inbox[u], next) ELSE inbox[u]]
        /\ loose' = [u \in Tabs |-> IF u = t THEN inbox[u] # <<>> ELSE loose[u] /\ u \notin Tabs \ {t}]
    BY <1>2, <1>7 DEF Write
  <2>2. \A u \in Tabs \ {t} : /\ inbox'[u] = Append(inbox[u], next) /\ inbox'[u] # <<>>
                              /\ inbox'[u] \in Seq(Themes \cup {Unset})
                              /\ inbox'[u][Len(inbox'[u])] = next
    <3> SUFFICES ASSUME NEW u \in Tabs \ {t}
                 PROVE  /\ inbox'[u] = Append(inbox[u], next) /\ inbox'[u] # <<>>
                        /\ inbox'[u] \in Seq(Themes \cup {Unset})
                        /\ inbox'[u][Len(inbox'[u])] = next
      OBVIOUS
    <3>1. inbox[u] \in Seq(Themes \cup {Unset}) /\ inbox'[u] = Append(inbox[u], next)
      BY <1>t, <2>1 DEF ThemeType
    <3>2. QED
      BY <1>n, <3>1, AppendLast
  <2>3. inbox'[t] = inbox[t] /\ inbox' \in [Tabs -> Seq(Themes \cup {Unset})]
    BY <1>t, <2>1, <2>2 DEF ThemeType
  <2>4. loose' \in [Tabs -> BOOLEAN] /\ (loose'[t] <=> inbox[t] # <<>>)
    BY <1>t, <2>1, Zenon DEF ThemeType
  <2>5. ThemeType'
    BY <1>5, <1>n, <2>1, <2>3, <2>4 DEF ThemeType
  <2>6. \A u \in Tabs \ {t} : Final(u)' = OrDefault(saved)'
    BY <2>1, <2>2 DEF Final
  <2>7. loose'[t] \/ Final(t)' = OrDefault(saved)'
    BY <1>1, <1>n, <1>t, <2>1, <2>3, <2>4 DEF Final, OrDefault, ThemeType
  <2>8. QED
    BY <1>6, <2>5, <2>6, <2>7 DEF ThemeInv
<1>8. CASE allowed /\ next = saved
  <2>1. /\ saved' = saved
        /\ inbox' = [u \in Tabs |-> IF u \in {} THEN Append(inbox[u], next) ELSE inbox[u]]
        /\ loose' = [u \in Tabs |-> IF u = t THEN inbox[u] # <<>> ELSE loose[u] /\ u \notin {}]
    BY <1>2, <1>8 DEF Write
  <2>2. inbox' = inbox
    BY <1>t, <2>1 DEF ThemeType
  <2>3. loose' \in [Tabs -> BOOLEAN] /\ (loose'[t] <=> inbox[t] # <<>>)
    BY <1>t, <2>1, Zenon DEF ThemeType
  <2>4. \A u \in Tabs \ {t} : loose'[u] <=> loose[u]
    BY <1>t, <2>1, Zenon DEF ThemeType
  <2>5. ThemeType'
    BY <1>5, <1>t, <2>1, <2>2, <2>3 DEF ThemeType
  <2>6. \A u \in Tabs \ {t} : Final(u)' = Final(u) /\ OrDefault(saved)' = OrDefault(saved)
    BY <1>1, <1>t, <2>1, <2>2 DEF Final, ThemeType, OrDefault
  <2>7. loose'[t] \/ Final(t)' = OrDefault(saved)'
    BY <1>1, <1>8, <1>n, <1>t, <2>1, <2>2, <2>3 DEF Final, OrDefault, ThemeType
  <2>8. QED
    BY <1>6, <2>4, <2>5, <2>6, <2>7 DEF ThemeInv
<1>9. CASE ~allowed
  <2>1. ThemeType'
    BY <1>3, <1>5, <1>9, <1>t DEF ThemeType
  <2>2. \A u \in Tabs \ {t} : /\ Final(u)' = Final(u) /\ OrDefault(saved)' = OrDefault(saved)
                              /\ loose'[u] = loose[u]
    BY <1>1, <1>3, <1>9, <1>t DEF Final, ThemeType, OrDefault
  <2>3. loose'[t]
    BY <1>3, <1>9, <1>t DEF ThemeType
  <2>4. QED
    BY <1>6, <2>1, <2>2, <2>3 DEF ThemeInv
<1>10. QED
  BY <1>7, <1>8, <1>9

LEMMA HeardKeeps ==
  ASSUME ThemeInv, NEW t \in Tabs, StorageEvent(t)
  PROVE  ThemeInv'
<1>t. ThemeType
  BY DEF ThemeInv
<1>1. /\ inbox[t] # <<>> /\ inbox[t] \in Seq(Themes \cup {Unset})
      /\ inbox' = [inbox EXCEPT ![t] = Tail(@)]
      /\ UNCHANGED <<saved, scheme, theme, applied, class, notice>>
  BY <1>t DEF StorageEvent, ThemeType
<1>2. /\ Tail(inbox[t]) \in Seq(Themes \cup {Unset}) /\ Head(inbox[t]) \in Themes \cup {Unset}
      /\ Len(inbox[t]) = 1 => Tail(inbox[t]) = <<>> /\ Head(inbox[t]) = inbox[t][Len(inbox[t])]
      /\ Len(inbox[t]) # 1 => /\ Tail(inbox[t]) # <<>>
                              /\ Tail(inbox[t])[Len(Tail(inbox[t]))] = inbox[t][Len(inbox[t])]
  BY <1>1, TailLast
<1>3. /\ inbox' \in [Tabs -> Seq(Themes \cup {Unset})] /\ inbox'[t] = Tail(inbox[t])
      /\ \A u \in Tabs \ {t} : inbox'[u] = inbox[u]
  BY <1>1, <1>2, <1>t DEF ThemeType
<1>4. \A u \in Tabs : PageFollows(u)'
  BY <1>1 DEF ThemeInv, PageFollows, OnPage
<1>5. CASE applied[t] = Unset
  <2>1. /\ update' = update
        /\ loose' = [loose EXCEPT ![t] = @ \/ Len(inbox[t]) = 1]
    BY <1>5 DEF StorageEvent
  <2>2. /\ loose' \in [Tabs -> BOOLEAN] /\ loose'[t] <=> (loose[t] \/ Len(inbox[t]) = 1)
        /\ \A u \in Tabs \ {t} : loose'[u] = loose[u]
    BY <1>t, <2>1 DEF ThemeType
  <2>3. ThemeType'
    BY <1>1, <1>3, <1>t, <2>1, <2>2 DEF ThemeType
  <2>4. Len(inbox[t]) # 1 => Final(t)' = Final(t)
    BY <1>1, <1>2, <1>3 DEF Final, OrDefault
  <2>5. \A u \in Tabs \ {t} : Final(u)' = Final(u)
    BY <1>1, <1>3, <2>1 DEF Final, OrDefault
  <2>6. OrDefault(saved)' = OrDefault(saved)
    BY <1>1 DEF OrDefault
  <2>7. QED
    BY <1>4, <2>2, <2>3, <2>4, <2>5, <2>6 DEF ThemeInv
<1>6. CASE applied[t] # Unset
  <2>1. /\ update' = [update EXCEPT ![t] = OrDefault(Head(inbox[t]))] /\ loose' = loose
    BY <1>6 DEF StorageEvent
  <2>2. OrDefault(Head(inbox[t])) \in Themes /\ OrDefault(Head(inbox[t])) # Unset
    BY <1>2, Defaulted
  <2>3. ThemeType'
    BY <1>1, <1>3, <1>t, <2>1, <2>2 DEF ThemeType
  <2>4. Final(t)' = Final(t)
    <3>1. update'[t] = OrDefault(Head(inbox[t])) /\ update'[t] # Unset
      BY <1>t, <2>1, <2>2 DEF ThemeType
    <3>2. Len(inbox[t]) # 1 => Final(t)' = Final(t)
      BY <1>1, <1>2, <1>3 DEF Final, OrDefault
    <3>3. Len(inbox[t]) = 1 => Final(t)' = Final(t)
      BY <1>1, <1>2, <1>3, <3>1 DEF Final
    <3>4. QED
      BY <3>2, <3>3
  <2>5. \A u \in Tabs \ {t} : Final(u)' = Final(u)
    BY <1>1, <1>3, <1>t, <2>1 DEF Final, OrDefault, ThemeType
  <2>6. OrDefault(saved)' = OrDefault(saved)
    BY <1>1 DEF OrDefault
  <2>7. QED
    BY <1>4, <2>1, <2>3, <2>4, <2>5, <2>6 DEF ThemeInv
<1>7. QED
  BY <1>5, <1>6

LEMMA PageKeeps ==
  ASSUME ThemeInv, NEW t \in Tabs, RenderTheme(t) \/ Effect(t) \/ HandleChange(t)
  PROVE  ThemeInv'
<1>t. ThemeType
  BY DEF ThemeInv
<1>1. UNCHANGED <<saved, scheme, inbox, loose>>
  BY DEF RenderTheme, Effect, HandleChange
<1>2. CASE RenderTheme(t)
  <2>1. ThemeType'
    BY <1>1, <1>2, <1>t DEF RenderTheme, ThemeType
  <2>2. \A u \in Tabs : Final(u)' = Final(u) /\ OrDefault(saved)' = OrDefault(saved)
    BY <1>1, <1>2, <1>t DEF RenderTheme, Final, OrDefault, ThemeType
  <2>3. QED
    BY <1>1, <1>2, <2>1, <2>2 DEF RenderTheme, ThemeInv, PageFollows, OnPage
<1>3. CASE Effect(t) \/ HandleChange(t)
  <2>1. OnPage(theme[t]) \in {"light", "dark"}
    BY <1>t DEF OnPage, ThemeType, Themes
  <2>2. ThemeType'
    BY <1>1, <1>3, <1>t, <2>1 DEF Effect, HandleChange, ThemeType
  <2>3. \A u \in Tabs : Final(u)' = Final(u) /\ OrDefault(saved)' = OrDefault(saved)
    BY <1>1, <1>3 DEF Effect, HandleChange, Final, OrDefault
  <2>4. \A u \in Tabs : PageFollows(u)'
    <3>1. \A u \in Tabs : PageFollows(u)
      BY DEF ThemeInv
    <3>2. CASE Effect(t)
      BY <1>1, <1>t, <3>1, <3>2 DEF Effect, ThemeType, PageFollows, OnPage
    <3>3. CASE HandleChange(t)
      BY <1>1, <1>t, <3>1, <3>3 DEF HandleChange, ThemeType, PageFollows, OnPage
    <3>4. QED
      BY <1>3, <3>2, <3>3
  <2>5. QED
    BY <1>1, <2>2, <2>3, <2>4 DEF ThemeInv
<1>4. QED
  BY <1>2, <1>3

LEMMA UpsetKeeps ==
  ASSUME ThemeInv, SchemeChanges \/ \E t \in Tabs : OpenTab(t) \/ RemoveItem(t)
  PROVE  ThemeInv'
<1>t. ThemeType
  BY DEF ThemeInv
<1>1. CASE SchemeChanges
  <2>1. ThemeType'
    BY <1>1, <1>t DEF SchemeChanges, ThemeType
  <2>2. \A u \in Tabs : Final(u)' = Final(u) /\ OrDefault(saved)' = OrDefault(saved)
    BY <1>1 DEF SchemeChanges, Final, OrDefault
  <2>3. \A u \in Tabs : PageFollows(u)'
    BY <1>1, <1>t DEF SchemeChanges, ThemeInv, ThemeType, PageFollows, OnPage
  <2>4. loose' = loose
    BY <1>1 DEF SchemeChanges
  <2>5. QED
    BY <2>1, <2>2, <2>3, <2>4 DEF ThemeInv
<1>2. ASSUME NEW t \in Tabs, OpenTab(t) PROVE ThemeInv'
  <2>1. OrDefault(saved) \in Themes /\ UNCHANGED <<saved, scheme>>
    BY <1>2, <1>t, Defaulted DEF OpenTab, ThemeType
  <2>2. ThemeType'
    BY <1>2, <1>t, <2>1 DEF OpenTab, ThemeType
  <2>3. Final(t)' = OrDefault(saved)'
    BY <1>2, <1>t, <2>1 DEF OpenTab, Final, ThemeType, OrDefault
  <2>4. \A u \in Tabs \ {t} : /\ Final(u)' = Final(u) /\ loose'[u] = loose[u]
                              /\ OrDefault(saved)' = OrDefault(saved)
    BY <1>2, <1>t, <2>1 DEF OpenTab, Final, ThemeType, OrDefault
  <2>5. \A u \in Tabs : PageFollows(u)'
    BY <1>2, <1>t, <2>1 DEF OpenTab, ThemeInv, ThemeType, PageFollows, OnPage
  <2>6. QED
    BY <2>2, <2>3, <2>4, <2>5 DEF ThemeInv
<1>3. ASSUME NEW t \in Tabs, RemoveItem(t) PROVE ThemeInv'
  <2>1. /\ saved' = Unset /\ UNCHANGED <<scheme, theme, update, applied, class, notice>>
        /\ inbox' = [u \in Tabs |-> IF u = t THEN inbox[u] ELSE Append(inbox[u], Unset)]
        /\ loose' = [u \in Tabs |-> u = t]
    BY <1>3 DEF RemoveItem
  <2>2. \A u \in Tabs \ {t} : /\ inbox'[u] \in Seq(Themes \cup {Unset}) /\ inbox'[u] # <<>>
                              /\ inbox'[u][Len(inbox'[u])] = Unset
    <3> SUFFICES ASSUME NEW u \in Tabs \ {t}
                 PROVE  /\ inbox'[u] \in Seq(Themes \cup {Unset}) /\ inbox'[u] # <<>>
                        /\ inbox'[u][Len(inbox'[u])] = Unset
      OBVIOUS
    <3>1. /\ inbox[u] \in Seq(Themes \cup {Unset}) /\ Unset \in Themes \cup {Unset}
          /\ inbox'[u] = Append(inbox[u], Unset)
      BY <1>t, <2>1 DEF ThemeType
    <3>2. QED
      BY <3>1, AppendLast
  <2>3. inbox' \in [Tabs -> Seq(Themes \cup {Unset})]
    BY <1>t, <2>1, <2>2 DEF ThemeType
  <2>4. loose' \in [Tabs -> BOOLEAN] /\ loose'[t]
    BY <2>1, Zenon
  <2>5. ThemeType'
    BY <1>t, <2>1, <2>3, <2>4 DEF ThemeType
  <2>6. \A u \in Tabs \ {t} : Final(u)' = OrDefault(saved)'
    BY <2>1, <2>2 DEF Final
  <2>7. QED
    BY <2>1, <2>4, <2>5, <2>6 DEF ThemeInv, PageFollows, OnPage
<1>4. QED
  BY <1>1, <1>2, <1>3

LEMMA ThemeStep == ThemeInv /\ [ThemeNext]_themeVars => ThemeInv'
<1>1. ThemeInv /\ UNCHANGED themeVars => ThemeInv'
  BY DEF themeVars, ThemeInv, ThemeType, Final, OrDefault, PageFollows, OnPage
<1>2. QED
  BY <1>1, KeyKeeps, HeardKeeps, PageKeeps, UpsetKeeps DEF ThemeNext

\* The tabs of a browser, however many, come to agree with what is saved and
\* with the system's colour scheme.
THEOREM TabsComeToAgree == ThemeSpec => []TabsAgree
<1>1. ThemeInv => TabsAgree
  <2> SUFFICES ASSUME ThemeInv, NEW t \in Tabs,
                      inbox[t] = <<>>, update[t] = Unset, applied[t] = theme[t], ~notice[t]
               PROVE  class[t] = OnPage(theme[t]) /\ (loose[t] \/ theme[t] = OrDefault(saved))
    BY DEF TabsAgree
  <2>1. theme[t] # Unset
    BY UnsetAssumption DEF ThemeInv, ThemeType, Themes
  <2>2. QED
    BY <2>1 DEF ThemeInv, PageFollows, Final
<1>2. QED
  BY <1>1, ThemeInitOK, ThemeStep, PTL DEF ThemeSpec

-----------------------------------------------------------------------------
\* The streams of the bridge.

\* A stream of three, in the state f: what it has sent and what is left.
ThreeInAll(f) ==
  /\ f.call = ThreeMessages
  /\ f.at \in {"message", "handler", "sending", "over"}
  /\ f.at \in {"message", "handler"} => f.sent = 0
  /\ f.at = "sending" => f.sent + f.left = 3
  /\ f.at = "over" /\ f.answer = Success => f.sent = 3

\* A loop that is alone has shown what it has received.
BridgeInv ==
  /\ streamState \in [done : BOOLEAN, failed : BOOLEAN, sequences : Seq(Nat)]
  /\ overlapped \in BOOLEAN /\ reading \subseteq Requests /\ received \in [Requests -> Nat]
  /\ \A r \in Requests : flow[r].at = "idle" =>
       flow[r] = Idle /\ r \notin reading /\ received[r] = 0
  /\ \A r \in reading : ThreeInAll(flow[r])
  /\ \A r \in reading : ~overlapped =>
       /\ reading = {r} /\ ~streamState.done /\ ~streamState.failed
       /\ streamState.sequences = [i \in 1..received[r] |-> i]
  /\ StreamIsWhole

\* The boundary makes a success of nothing else, and keeps what was sent.
LEMMA OnlySuccess ==
  ASSUME NEW f \in Flows, NEW x, x = Success \/ x.detail # {} \/ x \in {Plain("canceled"), Plain("unavailable"),
           Plain("malformed"), Plain("context deadline exceeded")}
  PROVE  /\ Return(f, x).call = f.call /\ Return(f, x).at = "over" /\ Return(f, x).sent = f.sent
         /\ Return(f, x).answer = Success => x = Success
<1>1. f.call \in Calls /\ f.sent \in Nat
  BY DEF Flows
<1>2. /\ Return(f, x).call = f.call /\ Return(f, x).at = "over" /\ Return(f, x).sent = f.sent
      /\ Return(f, x).answer = EnsureSafe(f.identity, x)
  BY <1>1, IdleIsFlow DEF Return, Reply, Flows
<1>3. Success.detail = {} /\ \A c : New(f.identity, c) # Success
  BY DEF Success, Plain, New
<1>4. x # Success => EnsureSafe(f.identity, x) # Success
  BY <1>3 DEF EnsureSafe
<1>5. QED
  BY <1>2, <1>4

\* The step of one request changes no other, and no request comes to rest.
LEMMA OthersRest ==
  ASSUME IInv, NEW r \in Requests, Proceed(r) \/ \E c \in Calls : Arrive(r, c)
  PROVE  flow'[r].at # "idle" /\ \A o \in Requests \ {r} : flow'[o] = flow[o]
<1>1. /\ flow \in [Requests -> Flows] /\ flow[r] \in Flows
      /\ flow[r].call \in [method : Methods, kind : Kinds, n : Nat]
  BY Known, CallsAssumption DEF IInv, FlowOK
<1> DEFINE Moved(g) == flow' = [flow EXCEPT ![r] = g] /\ g.at # "idle"
<1>2. \A g : Moved(g) => flow'[r].at # "idle" /\ \A o \in Requests \ {r} : flow'[o] = flow[o]
  BY <1>1
<1>3. \A f, a : Reply(f, a).at = "over"
  BY IdleIsFlow DEF Reply, Flows
<1>4. \A f, x : Return(f, x).at = "over"
  BY <1>3 DEF Return
<1>5. \A f \in Flows : Admit(r, f).at # "idle"
  BY <1>4 DEF Admit, Boundary, Flows
<1>6. ASSUME NEW c \in Calls, Arrive(r, c) PROVE \E g : Moved(g)
  <2> DEFINE f == [flow[r] EXCEPT !.call = c]
  <2>1. f \in Flows /\ [f EXCEPT !.at = "body"].at = "body"
    BY <1>1 DEF Flows
  <2>2. \/ flow' = [flow EXCEPT ![r] = Reply(f, Plain("204"))]
        \/ flow' = [flow EXCEPT ![r] = Reply(f, Health(TRUE))]
        \/ flow' = [flow EXCEPT ![r] = Reply(f, Health(ready))]
        \/ flow' = [flow EXCEPT ![r] = Reply(f, Plain("404"))]
        \/ flow' = [flow EXCEPT ![r] = Admit(r, f)]
        \/ flow' = [flow EXCEPT ![r] = [f EXCEPT !.at = "body"]]
    <3>1. f.call = c
      BY <1>1 DEF Flows
    <3>2. Routed(f) => c.method \in RPCs
      BY <3>1 DEF Routed, RPCs
    <3>3. CASE c.method \in {"OPTIONS", "live", "ready"}
      BY <1>6, <3>2, <3>3 DEF Arrive, RPCs, Unary, Probe
    <3>4. CASE c.method \notin {"OPTIONS", "live", "ready"} /\ Routed(f)
      BY <1>6, <3>4 DEF Arrive
    <3>5. CASE c.method \notin {"OPTIONS", "live", "ready"} /\ ~Routed(f)
      BY <1>6, <3>5 DEF Arrive
    <3>6. QED
      BY <3>3, <3>4, <3>5
  <2> DEFINE b == [f EXCEPT !.at = "body"]
  <2>3. \/ Moved(Reply(f, Plain("204"))) \/ Moved(Reply(f, Health(TRUE))) \/ Moved(Reply(f, Health(ready)))
        \/ Moved(Reply(f, Plain("404"))) \/ Moved(Admit(r, f)) \/ Moved(b)
    <3> HIDE DEF f
    <3>1. QED
      BY <2>1, <2>2, <1>3, <1>5
  <2> HIDE DEF Moved, f, b
  <2>4. QED
    BY <2>3
<1>7. CASE Body(r) \/ Message(r)
  <2>1. [flow[r] EXCEPT !.at = "handler"].at = "handler"
    BY <1>1 DEF Flows
  <2>2. \/ flow' = [flow EXCEPT ![r] = Reply(flow[r], Plain("malformed"))]
        \/ flow' = [flow EXCEPT ![r] = Return(flow[r], Plain("malformed"))]
        \/ flow' = [flow EXCEPT ![r] = Admit(r, flow[r])]
        \/ flow' = [flow EXCEPT ![r] = [flow[r] EXCEPT !.at = "handler"]]
    BY <1>7 DEF Body, Message
  <2> DEFINE h == [flow[r] EXCEPT !.at = "handler"]
  <2>3. \/ Moved(Reply(flow[r], Plain("malformed"))) \/ Moved(Return(flow[r], Plain("malformed")))
        \/ Moved(Admit(r, flow[r])) \/ Moved(h)
    BY <2>1, <2>2, <1>1, <1>3, <1>4, <1>5
  <2> HIDE DEF Moved, h
  <2>4. QED
    BY <2>3, <1>2
<1>8. CASE Handle(r) \/ TimerFires(r) \/ ContextEnds(r)
  <2>1. \/ flow' = [flow EXCEPT ![r] = Return(flow[r], Result(flow[r]))]
        \/ flow' = [flow EXCEPT ![r] = Return(flow[r], Success)]
        \/ flow' = [flow EXCEPT ![r] = Return(flow[r], ContextErr(flow[r]))]
    BY <1>8 DEF Handle, TimerFires, ContextEnds
  <2>2. \/ Moved(Return(flow[r], Result(flow[r]))) \/ Moved(Return(flow[r], Success))
        \/ Moved(Return(flow[r], ContextErr(flow[r])))
    BY <2>1, <1>4
  <2> HIDE DEF Moved
  <2>3. QED
    BY <2>2, <1>2
<1>9. CASE CheckWait(r)
  BY <1>1, <1>9, <1>4 DEF CheckWait, Flows
<1>10. CASE CheckStream(r)
  BY <1>1, <1>10, <1>4 DEF CheckStream, Flows
<1>11. CASE Stream(r)
  BY <1>1, <1>11, <1>4 DEF Stream, Flows
<1>12. CASE Cancel(r) \/ Tick(r)
  <2>1. flow[r].at # "idle"
    BY <1>12 DEF Cancel, Tick
  <2>2. QED
    BY <1>1, <1>12, <2>1 DEF Cancel, Tick, Flows
<1> HIDE DEF Moved
<1>13. QED
  BY <1>2, <1>6, <1>7, <1>8, <1>9, <1>10, <1>11, <1>12 DEF Proceed, Work

LEMMA SentAndLeft ==
  ASSUME NEW sent \in Nat, NEW left \in Nat, sent + left = 3
  PROVE  (left = 0 => sent = 3) /\ (sent + 1) + (left - 1) = 3
OBVIOUS

\* A stream of three stays one, wherever its request goes.
LEMMA StreamStays ==
  ASSUME IInv, NEW r \in Requests, ThreeInAll(flow[r]), Proceed(r)
  PROVE  ThreeInAll(flow'[r])
<1> DEFINE f == flow[r]
<1>1. /\ flow \in [Requests -> Flows] /\ f \in Flows /\ f.call = ThreeMessages
      /\ f.call.method = "Stream" /\ f.call.kind = "" /\ f.call.n = 3
      /\ f.sent \in Nat /\ f.left \in Nat /\ f.age \in Nat /\ f.gone \in BOOLEAN
  <2>1. flow \in [Requests -> Flows] /\ f \in Flows
    BY DEF IInv, FlowOK
  <2>2. f.call = ThreeMessages
    BY DEF ThreeInAll
  <2>3. ThreeMessages.method = "Stream" /\ ThreeMessages.kind = "" /\ ThreeMessages.n = 3
    BY DEF ThreeMessages
  <2>4. f.sent \in Nat /\ f.left \in Nat /\ f.age \in Nat /\ f.gone \in BOOLEAN
    BY <2>1 DEF Flows
  <2>5. QED
    BY <2>1, <2>2, <2>3, <2>4
<1>2. \A g : flow' = [flow EXCEPT ![r] = g] => flow'[r] = g
  BY <1>1
<1> DEFINE Over(x) == flow'[r] = Return(f, x)
<1>3. ASSUME Over(Success), f.at = "sending", f.left = 0 PROVE ThreeInAll(flow'[r])
  <2>0. f.sent + f.left = 3
    BY <1>3 DEF ThreeInAll
  <2>1. f.sent = 3
    BY <1>1, <1>3, <2>0, SentAndLeft
  <2>2. /\ Return(f, Success).call = f.call /\ Return(f, Success).at = "over"
        /\ Return(f, Success).sent = f.sent
    BY <1>1, OnlySuccess
  <2>3. QED
    BY <1>1, <1>3, <2>1, <2>2 DEF ThreeInAll
<1>4. ASSUME NEW x, Over(x), x # Success,
             x.detail # {} \/ x \in {Plain("canceled"), Plain("unavailable"), Plain("malformed"),
                                     Plain("context deadline exceeded")}
      PROVE  ThreeInAll(flow'[r])
  <2>1. /\ Return(f, x).call = f.call /\ Return(f, x).at = "over"
        /\ Return(f, x).answer # Success
    BY <1>1, <1>4, OnlySuccess
  <2>2. QED
    BY <1>1, <1>4, <2>1 DEF ThreeInAll
<1>5. /\ \A c \in {"canceled", "unavailable", "malformed", "context deadline exceeded"} : Plain(c) # Success
      /\ \A i, c : New(i, c) # Success /\ New(i, c).detail # {}
  BY DEF Plain, Success, New
<1>6. CASE Message(r)
  <2>1. CASE flow' = [flow EXCEPT ![r] = Return(f, Plain("malformed"))]
    <3>1. Over(Plain("malformed"))
      BY <1>2, <2>1
    <3> HIDE DEF Over
    <3>2. QED
      BY <1>4, <1>5, <3>1
  <2>2. CASE flow' = [flow EXCEPT ![r] = [f EXCEPT !.at = "handler"]] /\ f.at = "message"
    BY <1>1, <2>2 DEF ThreeInAll, Flows
  <2>3. QED
    BY <1>6, <2>1, <2>2 DEF Message
<1>7. CASE CheckStream(r)
  <2>1. CASE flow' = [flow EXCEPT ![r] = Return(f, New(f.identity, "invalid_input"))]
    <3>1. Over(New(f.identity, "invalid_input"))
      BY <1>2, <2>1
    <3> HIDE DEF Over
    <3>2. QED
      BY <1>4, <1>5, <3>1
  <2>2. CASE flow' = [flow EXCEPT ![r] = [f EXCEPT !.at = "sending", !.left = f.call.n]] /\ f.at = "handler"
    <3>1. f.sent = 0
      BY <2>2 DEF ThreeInAll
    <3>2. /\ flow'[r].call = f.call /\ flow'[r].at = "sending" /\ flow'[r].sent = f.sent
          /\ flow'[r].left = 3
      BY <1>1, <2>2 DEF Flows
    <3>3. 0 + 3 = 3
      OBVIOUS
    <3>4. flow'[r].sent + flow'[r].left = 3
      BY <3>1, <3>2, <3>3
    <3>5. QED
      BY <1>1, <3>2, <3>4 DEF ThreeInAll
  <2>3. QED
    BY <1>7, <2>1, <2>2 DEF CheckStream
<1>8. CASE Stream(r)
  <2>1. CASE f.left = 0
    BY <1>2, <1>3, <1>8, <2>1 DEF Stream
  <2>2. CASE f.left # 0 /\ f.gone
    <3>1. Over(Plain("unavailable"))
      BY <1>2, <1>8, <2>2 DEF Stream
    <3> HIDE DEF Over
    <3>2. QED
      BY <1>4, <1>5, <3>1
  <2>3. CASE f.left # 0 /\ ~f.gone
    <3>1. flow' = [flow EXCEPT ![r] = [f EXCEPT !.sent = @ + 1, !.left = @ - 1]] /\ f.at = "sending"
      BY <1>8, <2>3 DEF Stream
    <3>2. /\ flow'[r].call = f.call /\ flow'[r].at = "sending"
          /\ flow'[r].sent = f.sent + 1 /\ flow'[r].left = f.left - 1
      BY <1>1, <3>1 DEF Flows
    <3>3. f.sent + f.left = 3
      BY <3>1 DEF ThreeInAll
    <3>4. (f.sent + 1) + (f.left - 1) = 3
      BY <1>1, <3>3, SentAndLeft
    <3>5. QED
      BY <1>1, <3>2, <3>4 DEF ThreeInAll
  <2>4. QED
    BY <2>1, <2>2, <2>3
<1>9. CASE ContextEnds(r)
  <2>1. Over(ContextErr(f))
    BY <1>2, <1>9 DEF ContextEnds
  <2>2. ContextErr(f) = Plain("canceled") \/ ContextErr(f) = Plain("context deadline exceeded")
    BY DEF ContextErr
  <2> HIDE DEF Over
  <2>3. QED
    BY <1>4, <1>5, <2>1, <2>2
<1>10. CASE Cancel(r) \/ Tick(r)
  <2>1. f.at # "over"
    BY <1>1, <1>10 DEF Cancel, Tick
  <2>2. /\ flow'[r].call = f.call /\ flow'[r].at = f.at /\ flow'[r].sent = f.sent
        /\ flow'[r].left = f.left
    <3>1. CASE Cancel(r)
      BY <1>1, <3>1 DEF Cancel, Flows
    <3>2. CASE Tick(r)
      BY <1>1, <3>2 DEF Tick, Flows
    <3>3. QED
      BY <1>10, <3>1, <3>2
  <2>3. QED
    BY <1>1, <2>1, <2>2 DEF ThreeInAll
<1>11. ~Body(r) /\ ~Handle(r) /\ ~CheckWait(r) /\ ~TimerFires(r)
  BY <1>1 DEF ThreeInAll, Body, Handle, CheckWait, TimerFires
<1>12. QED
  BY <1>6, <1>7, <1>8, <1>9, <1>10, <1>11 DEF Proceed, Work

\* It is one from its start.
LEMMA StreamStarts ==
  ASSUME IInv, NEW r \in Requests, flow[r] = Idle, Arrive(r, ThreeMessages)
  PROVE  ThreeInAll(flow'[r])
<1> DEFINE f == [flow[r] EXCEPT !.call = ThreeMessages]
           g == Boundary(r, f)
<1>1. /\ flow \in [Requests -> Flows] /\ ThreeMessages \in Calls /\ ThreeMessages.method = "Stream"
      /\ flow[r] \in Flows /\ flow[r].sent = 0
  <2>1. flow \in [Requests -> Flows] /\ flow[r] \in Flows
    BY DEF IInv, FlowOK
  <2>2. ThreeMessages \in Calls /\ ThreeMessages.method = "Stream"
    BY StreamAssumption DEF ThreeMessages
  <2>3. Idle.sent = 0
    BY DEF Idle
  <2>4. QED
    BY <2>1, <2>2, <2>3
<1>2. /\ f \in Flows /\ f.call = ThreeMessages /\ f.sent = 0 /\ Routed(f) = ArchitectureProbe
      /\ ArchitectureProbe \in BOOLEAN
  BY <1>1, TimeoutAssumption DEF Flows, Routed, Probe
<1>3. g \in Flows /\ g.call = ThreeMessages /\ g.sent = 0
  BY <1>2 DEF Boundary, Flows
<1>4. CASE ArchitectureProbe /\ ~ready
  <2>1. flow' = [flow EXCEPT ![r] = Return(g, New(r, "unavailable"))]
    BY <1>1, <1>2, <1>4 DEF Arrive, Admit
  <2>2. New(r, "unavailable").detail # {} /\ New(r, "unavailable") # Success
    BY DEF New, Success, Plain
  <2>3. /\ Return(g, New(r, "unavailable")).call = g.call /\ Return(g, New(r, "unavailable")).at = "over"
        /\ Return(g, New(r, "unavailable")).answer # Success
    BY <1>3, <2>2, OnlySuccess
  <2>4. QED
    BY <1>1, <1>3, <2>1, <2>3 DEF ThreeInAll
<1>5. CASE ArchitectureProbe /\ ready
  <2>1. flow' = [flow EXCEPT ![r] = [g EXCEPT !.at = "message", !.due = Deadline(g)]]
    BY <1>1, <1>2, <1>5 DEF Arrive, Admit
  <2> HIDE DEF g
  <2>2. QED
    BY <1>1, <1>3, <2>1 DEF ThreeInAll, Flows
<1>6. CASE ~ArchitectureProbe
  <2>1. flow' = [flow EXCEPT ![r] = Reply(f, Plain("404"))]
    BY <1>1, <1>2, <1>6 DEF Arrive
  <2>2. /\ Reply(f, Plain("404")).call = f.call /\ Reply(f, Plain("404")).at = "over"
        /\ Reply(f, Plain("404")).answer = Plain("404")
    BY <1>2, IdleIsFlow DEF Reply, Flows
  <2>3. Plain("404") # Success
    BY DEF Plain, Success
  <2>4. QED
    BY <1>1, <1>2, <2>1, <2>2, <2>3 DEF ThreeInAll
<1>7. QED
  BY <1>2, <1>4, <1>5, <1>6

\* A step of the bridge is a step of the API or none.
LEMMA BridgeStepsAsClient == [ProbeNext]_probeVars => [PipelineNext]_pipelineVars
<1> SUFFICES ASSUME [ProbeNext]_probeVars PROVE [PipelineNext]_pipelineVars
  OBVIOUS
<1>1. CASE UNCHANGED probeVars
  BY <1>1 DEF probeVars
<1>2. CASE Toggle
  BY <1>2 DEF PipelineNext
<1>3. ASSUME NEW r \in Requests, NEW c \in Calls, Call(r, c) PROVE PipelineNext
  BY <1>3 DEF Call, PipelineNext
<1>4. ASSUME NEW r \in Requests, Proceed(r) PROVE PipelineNext
  BY <1>4 DEF PipelineNext
<1>5. ASSUME NEW r \in Requests, StartStream(r) PROVE PipelineNext
  BY <1>5, StreamAssumption DEF StartStream, PipelineNext
<1>6. ASSUME NEW r \in Requests, Deliver(r) \/ LoopEnds(r) PROVE UNCHANGED pipelineVars
  BY <1>6 DEF Deliver, LoopEnds
<1>7. QED
  BY <1>1, <1>2, <1>3, <1>4, <1>5, <1>6 DEF ProbeNext

\* Under the page the API behaves as it does under any clients: what is proved
\* of its requests holds of those of the page.
THEOREM PageIsAClient == ProbeSpec => PipelineSpec
<1>1. ProbeInit => PipelineInit
  BY DEF ProbeInit
<1>2. QED
  BY <1>1, BridgeStepsAsClient, PTL DEF ProbeSpec, PipelineSpec

-----------------------------------------------------------------------------
LEMMA BridgeInitOK == ProbeInit => BridgeInv
<1> SUFFICES ASSUME ProbeInit PROVE BridgeInv
  OBVIOUS
<1>1. /\ flow = [r \in Requests |-> Idle] /\ streamState = Fresh /\ reading = {}
      /\ received = [r \in Requests |-> 0] /\ overlapped = FALSE
  BY DEF ProbeInit, PipelineInit
<1>2. Fresh \in [done : BOOLEAN, failed : BOOLEAN, sequences : Seq(Nat)] /\ ~Fresh.done
  BY EmptySeq DEF Fresh
<1>3. QED
  BY <1>1, <1>2 DEF BridgeInv, StreamIsWhole

\* Counting on.
LEMMA OneMore ==
  ASSUME NEW n \in Nat, NEW s \in Seq(Nat), s = [i \in 1..n |-> i]
  PROVE  Append(s, n + 1) \in Seq(Nat) /\ Append(s, n + 1) = [i \in 1..(n + 1) |-> i]
<1>1. Len(s) = n
  BY LenProperties
<1>2. n + 1 \in Nat
  OBVIOUS
<1>3. Append(s, n + 1) \in Seq(Nat) /\ Len(Append(s, n + 1)) = n + 1
  BY <1>1, <1>2, AppendProperties
<1>4. \A i \in 1..(n + 1) : Append(s, n + 1)[i] = i
  BY <1>1, <1>2, AppendProperties
<1>5. DOMAIN Append(s, n + 1) = 1..(n + 1)
  BY <1>3, LenProperties
<1>6. QED
  BY <1>3, <1>4, <1>5

\* A call or a step of a request leaves what the page shows alone.
LEMMA RequestKeeps ==
  ASSUME IInv, BridgeInv, UNCHANGED bridgeVars, NEW r \in Requests,
         Proceed(r) \/ \E c \in Calls : Arrive(r, c)
  PROVE  BridgeInv'
<1>1. /\ UNCHANGED <<streamState, reading, received, overlapped>>
      /\ flow'[r].at # "idle" /\ \A o \in Requests \ {r} : flow'[o] = flow[o]
  BY OthersRest DEF bridgeVars
<1>2. r \in reading => ThreeInAll(flow'[r])
  <2> SUFFICES ASSUME r \in reading PROVE ThreeInAll(flow'[r])
    OBVIOUS
  <2>1. ThreeInAll(flow[r]) /\ flow[r].at # "idle"
    BY DEF BridgeInv
  <2>2. Proceed(r)
    BY <2>1 DEF Arrive
  <2>3. QED
    BY <2>1, <2>2, StreamStays
<1>3. \A o \in reading : ThreeInAll(flow'[o])
  BY <1>1, <1>2 DEF BridgeInv
<1>4. \A o \in Requests : flow'[o].at = "idle" =>
         flow'[o] = Idle /\ o \notin reading /\ received[o] = 0
  BY <1>1 DEF BridgeInv
<1>5. \A o \in reading : ThreeInAll(flow[o])'
  BY <1>1, <1>3 DEF ThreeInAll
<1>6. QED
  BY <1>1, <1>4, <1>5 DEF BridgeInv, StreamIsWhole

LEMMA StartKeeps ==
  ASSUME IInv, BridgeInv, NEW r \in Requests, StartStream(r)
  PROVE  BridgeInv'
<1>1. /\ Arrive(r, ThreeMessages) /\ streamState' = Fresh /\ reading' = reading \cup {r}
      /\ received' = received /\ flow[r].at = "idle"
      /\ (overlapped' <=> reading # {}) /\ overlapped' \in BOOLEAN
  BY Zenon DEF StartStream, Arrive
<1>2. flow[r] = Idle /\ received[r] = 0 /\ r \notin reading
  BY <1>1 DEF BridgeInv
<1>3. ThreeInAll(flow'[r])
  BY <1>1, <1>2, StreamStarts
<1>4. flow'[r].at # "idle" /\ \A o \in Requests \ {r} : flow'[o] = flow[o]
  BY <1>1, StreamAssumption, OthersRest
<1>5. \A o \in reading' : ThreeInAll(flow[o])'
  BY <1>1, <1>2, <1>3, <1>4 DEF BridgeInv, ThreeInAll
<1>6. \A o \in Requests : flow'[o].at = "idle" =>
         flow'[o] = Idle /\ o \notin reading' /\ received'[o] = 0
  BY <1>1, <1>4 DEF BridgeInv
<1>7. /\ Fresh \in [done : BOOLEAN, failed : BOOLEAN, sequences : Seq(Nat)]
      /\ ~Fresh.done /\ ~Fresh.failed /\ Fresh.sequences = [i \in 1..0 |-> i]
  BY EmptySeq DEF Fresh
<1>8. ~overlapped' => reading' = {r}
  BY <1>1
<1>9. \A o \in reading' : ~overlapped' =>
        /\ reading' = {o} /\ ~streamState'.done /\ ~streamState'.failed
        /\ streamState'.sequences = [i \in 1..received'[o] |-> i]
  BY <1>1, <1>2, <1>7, <1>8
<1>10. streamState' \in [done : BOOLEAN, failed : BOOLEAN, sequences : Seq(Nat)] /\ ~streamState'.done
  BY <1>1, <1>7
<1>11. reading' \subseteq Requests /\ received' \in [Requests -> Nat]
  BY <1>1 DEF BridgeInv
<1>12. StreamIsWhole'
  BY <1>10 DEF StreamIsWhole
<1>13. QED
  BY <1>1, <1>5, <1>6, <1>9, <1>10, <1>11, <1>12 DEF BridgeInv

LEMMA DeliverKeeps ==
  ASSUME IInv, BridgeInv, NEW r \in Requests, Deliver(r)
  PROVE  BridgeInv'
<1>1. /\ r \in reading /\ received' = [received EXCEPT ![r] = @ + 1]
      /\ streamState' = [streamState EXCEPT !.sequences = Append(@, received'[r])]
      /\ UNCHANGED <<flow, reading, overlapped>>
  BY DEF Deliver, pipelineVars
<1>2. /\ streamState \in [done : BOOLEAN, failed : BOOLEAN, sequences : Seq(Nat)]
      /\ reading \subseteq Requests /\ received \in [Requests -> Nat]
  BY DEF BridgeInv
<1>3. /\ received' \in [Requests -> Nat] /\ received'[r] = received[r] + 1 /\ received[r] \in Nat
      /\ \A o \in Requests \ {r} : received'[o] = received[o]
  BY <1>1, <1>2
<1>4. streamState.sequences \in Seq(Nat) /\ received'[r] \in Nat
  BY <1>2, <1>3
<1>5. Append(streamState.sequences, received'[r]) \in Seq(Nat)
  BY <1>4, AppendProperties
<1>6. /\ streamState' \in [done : BOOLEAN, failed : BOOLEAN, sequences : Seq(Nat)]
      /\ streamState'.done = streamState.done /\ streamState'.failed = streamState.failed
      /\ streamState'.sequences = Append(streamState.sequences, received'[r])
  BY <1>1, <1>2, <1>5
<1>7. ~overlapped => reading = {r} /\ ~streamState.done /\ ~streamState.failed
                     /\ streamState.sequences = [i \in 1..received[r] |-> i]
  BY <1>1 DEF BridgeInv
<1>8. ~overlapped => streamState'.sequences = [i \in 1..received'[r] |-> i]
  BY <1>3, <1>4, <1>6, <1>7, OneMore
<1>9. \A o \in reading' : ~overlapped' =>
        /\ reading' = {o} /\ ~streamState'.done /\ ~streamState'.failed
        /\ streamState'.sequences = [i \in 1..received'[o] |-> i]
  BY <1>1, <1>6, <1>7, <1>8
<1>10. \A o \in Requests : flow'[o].at = "idle" =>
         flow'[o] = Idle /\ o \notin reading' /\ received'[o] = 0
  BY <1>1, <1>3 DEF BridgeInv
<1>11. \A o \in reading' : ThreeInAll(flow[o])'
  BY <1>1 DEF BridgeInv, ThreeInAll
<1>12. StreamIsWhole'
  BY <1>1, <1>6, <1>7 DEF StreamIsWhole
<1>13. overlapped' \in BOOLEAN /\ reading' \subseteq Requests
  BY <1>1 DEF BridgeInv
<1>14. QED
  BY <1>3, <1>6, <1>9, <1>10, <1>11, <1>12, <1>13 DEF BridgeInv

LEMMA LoopEndsKeeps ==
  ASSUME IInv, BridgeInv, NEW r \in Requests, LoopEnds(r)
  PROVE  BridgeInv'
<1>1. /\ r \in reading /\ reading' = reading \ {r} /\ UNCHANGED <<flow, received, overlapped>>
  BY DEF LoopEnds, pipelineVars
<1>2. /\ streamState \in [done : BOOLEAN, failed : BOOLEAN, sequences : Seq(Nat)]
      /\ reading \subseteq Requests /\ received \in [Requests -> Nat]
  BY DEF BridgeInv
<1>3. ~overlapped => reading' = {} /\ streamState.sequences = [i \in 1..received[r] |-> i]
  BY <1>1 DEF BridgeInv
<1>4. \/ /\ flow[r].at = "over" /\ received[r] = flow[r].sent
         /\ streamState' = [streamState EXCEPT !.done = TRUE, !.failed = @ \/ flow[r].answer # Success]
      \/ streamState' = [streamState EXCEPT !.done = TRUE, !.failed = TRUE]
  BY DEF LoopEnds
<1>5. (streamState.failed \/ flow[r].answer # Success) \in BOOLEAN
  OBVIOUS
<1>6. /\ streamState' \in [done : BOOLEAN, failed : BOOLEAN, sequences : Seq(Nat)]
      /\ streamState'.sequences = streamState.sequences
      /\ ~streamState'.failed => flow[r].at = "over" /\ received[r] = flow[r].sent /\ flow[r].answer = Success
  BY <1>2, <1>4, <1>5
<1>7. ~streamState'.failed => received[r] = 3
  BY <1>1, <1>6 DEF BridgeInv, ThreeInAll
<1>8. [i \in 1..3 |-> i] = <<1, 2, 3>>
  OBVIOUS
<1>9. StreamIsWhole'
  <2> SUFFICES ASSUME ~streamState'.failed, ~overlapped' PROVE streamState'.sequences = <<1, 2, 3>>
    BY DEF StreamIsWhole
  <2>1. streamState.sequences = [i \in 1..received[r] |-> i]
    BY <1>1, <1>3
  <2>2. QED
    BY <2>1, <1>6, <1>7, <1>8
<1>10. \A o \in Requests : flow'[o].at = "idle" =>
         flow'[o] = Idle /\ o \notin reading' /\ received'[o] = 0
  BY <1>1 DEF BridgeInv
<1>11. \A o \in reading' : ThreeInAll(flow[o])'
  BY <1>1 DEF BridgeInv, ThreeInAll
<1>12. \A o \in reading' : overlapped'
  BY <1>1, <1>3
<1>13. overlapped' \in BOOLEAN /\ reading' \subseteq Requests /\ received' \in [Requests -> Nat]
  BY <1>1, <1>2 DEF BridgeInv
<1>14. QED
  BY <1>6, <1>9, <1>10, <1>11, <1>12, <1>13 DEF BridgeInv

LEMMA BridgeStep == IInv /\ BridgeInv /\ [ProbeNext]_probeVars => BridgeInv'
<1> SUFFICES ASSUME IInv, BridgeInv, [ProbeNext]_probeVars PROVE BridgeInv'
  OBVIOUS
<1>1. CASE UNCHANGED <<flow, bridgeVars>>
  BY <1>1 DEF bridgeVars, BridgeInv, ThreeInAll, StreamIsWhole
<1>2. UNCHANGED probeVars \/ (Toggle /\ UNCHANGED bridgeVars) => UNCHANGED <<flow, bridgeVars>>
  BY DEF probeVars, pipelineVars, Toggle
<1>3. ASSUME NEW r \in Requests, NEW c \in Calls, Call(r, c) PROVE BridgeInv'
  BY <1>3, RequestKeeps DEF Call
<1>4. ASSUME NEW r \in Requests, Proceed(r), UNCHANGED bridgeVars PROVE BridgeInv'
  BY <1>4, RequestKeeps
<1>5. QED
  BY <1>1, <1>2, <1>3, <1>4, StartKeeps, DeliverKeeps, LoopEndsKeeps DEF ProbeNext

\* A stream that the page shows as done without an error is whole, whatever
\* happens to its request and whatever other requests there are.
THEOREM StreamsAreWhole == ProbeSpec => []StreamIsWhole
<1>1. BridgeInv => StreamIsWhole
  BY DEF BridgeInv
<1>2. QED
  BY <1>1, PageIsAClient, Invariance, BridgeInitOK, BridgeStep, PTL DEF ProbeSpec
=============================================================================
