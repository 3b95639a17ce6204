SPECIFICATION WebSpec
CONSTANTS
  Locales = {enUS, enGB, ar}
  None = None
  Default = enUS
  Browser = enGB
  MaxChoices = 3
  MaxReloads = 1
  Tabs = {t1, t2}
  Unset = Unset
  MaxPresses = 2
  MaxUpsets = 2
  Requests = {r1, r2}
  Nobody = Nobody
  Callers = {r1}
  Calls <- MCCalls
  ArchitectureProbe = TRUE
  UnaryDeadline = 1
  StreamDeadline = 3
  ReadTimeout = 2
  WriteTimeout = 4
  MaxDelay = 4
  MaxCount = 20
INVARIANTS
  LastChoiceShown
  SurvivesReload
  ErrorIsCurrent
  ErrorsAreSafe
  AnswerWritten
  StreamIsWhole
  TabsAgree
PROPERTIES
  FailureIsNotRemembered
  ChoiceIsAnswered
  RequestsEnd
CHECK_DEADLOCK FALSE
