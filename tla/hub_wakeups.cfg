SPECIFICATION Spec
CONSTANTS
  Sessions = {1, 2, 3}
  Devices = {d1}
  Users = {u1}
  Teams = {t1, t2}
  Agents = {ag, as}
  Triggers = {cron, cron2, hook}
  None = None
  u1 = u1 u2 = u2 t1 = t1 t2 = t2 d1 = d1 d2 = d2 ag = ag as = as cron = cron cron2 = cron2 hook = hook
  Profile <- TwoAgents
  Rules <- ScaledRules
  MaxClock = 1
  MaxSeq = 3
  MaxTalk = 3
  IdsInOrder = TRUE
  SendInputs <- WakeSends
  ReportInputs = {}
  ReplyInputs <- Turns
  ActivityAges = {0}
  Events = {"send.start", "send.message", "device.reply", "device.consume", "trigger.schedule", "trigger.event"}
INVARIANT TicksNeverStack
CHECK_DEADLOCK FALSE
