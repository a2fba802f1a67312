SPECIFICATION Spec
CONSTANTS
  Sessions = {1, 2, 3}
  Devices = {d1}
  Users = {u1, u2}
  Teams = {t1}
  Agents = {ag}
  Triggers = {}
  None = None
  u1 = u1 u2 = u2 t1 = t1 t2 = t2 d1 = d1 d2 = d2 ag = ag as = as cron = cron cron2 = cron2 hook = hook
  Profile <- OneAgent
  Rules <- StaleRules
  MaxClock = 0
  MaxSeq = 3
  MaxTalk = 3
  IdsInOrder = TRUE
  SendInputs <- BusSends
  ReportInputs = {}
  ReplyInputs <- BusReplies
  ActivityAges = {0}
  Events = {"send.start", "send.message", "send.watch", "session.end", "session.pr_opened", "device.reply"}
INVARIANTS TypeOK AgentNeverEnds WakeOnLive WatchersMaySee NoPrivateLeak SealedTurnStaysSealed KeyedTakesSealed
PROPERTIES EndWakesListeners
CHECK_DEADLOCK FALSE
