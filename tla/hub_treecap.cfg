SPECIFICATION Spec
CONSTANTS
  Sessions = {1, 2, 3, 4}
  Devices = {d1}
  Users = {u1}
  Teams = {t1}
  Agents = {}
  Triggers = {}
  None = None
  u1 = u1 u2 = u2 t1 = t1 t2 = t2 d1 = d1 d2 = d2 ag = ag as = as cron = cron cron2 = cron2 hook = hook
  Profile <- NoAgents
  Rules <- ScaledRules
  MaxClock = 0
  MaxSeq = 6
  MaxTalk = 6
  IdsInOrder = TRUE
  SendInputs <- TreeSends
  ReportInputs <- TreeReports
  ReplyInputs = {}
  ActivityAges = {0}
  Events = {"send.start", "send.message", "session.end"}
INVARIANT TreeCap
CHECK_DEADLOCK FALSE
