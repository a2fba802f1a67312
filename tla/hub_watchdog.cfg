SPECIFICATION FairSpec
CONSTANTS
  Sessions = {1}
  Devices = {d1}
  Users = {u1}
  Teams = {t1}
  Agents = {}
  Triggers = {}
  None = None
  u1 = u1 u2 = u2 t1 = t1 t2 = t2 d1 = d1 d2 = d2 ag = ag as = as cron = cron cron2 = cron2 hook = hook
  Profile <- NoAgents
  Rules <- PromptRules
  MaxClock = 2
  MaxSeq = 9
  MaxTalk = 2
  IdsInOrder = TRUE
  SendInputs <- TreeSends
  ReportInputs <- DeviceReports
  ReplyInputs <- Asks
  ActivityAges = {0}
  Events = {"send.start", "send.message", "session.end", "device.claim", "device.report", "device.reply", "device.heartbeat", "watchdog.tick"}
INVARIANTS BlockedOnPerson InterruptedIsIdle EndedIsQuiet
PROPERTIES InterruptedSettles QueuedSettles
CHECK_DEADLOCK FALSE
