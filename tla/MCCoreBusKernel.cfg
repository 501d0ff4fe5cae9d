SPECIFICATION Spec
CHECK_DEADLOCK FALSE
CONSTANTS
  None = None
  Unnamed = Unnamed
  alarm = alarm
  order = order
  chore = chore
  reply = reply
  vAlarm = vAlarm
  vOrder = vOrder
  vChore = vChore
  vReply = vReply
  ghostmind = ghostmind
  plugin = plugin
  enforcer = enforcer
  handler = handler
  auditor = auditor
  Event <- MCEvent
  Item <- MCItem
  Lowest = 2
  PrioOf <- MCPrioOf
  MaxQueueSize = 1
  Proc = {p1, p2}
  Stopper = {s1}
  Module <- MCModule
  Enforcer = enforcer
  Reserved = {enforcer}
  AllowUnknown = TRUE
  ViolationOf <- MCViolationOf
  Source <- MCSource
  Emitter <- MCEmitter
  Validator <- MCValidator
  Heavy <- MCHeavy
  Recurring = {}
  Subscriber = {handler, auditor}
  Subscribers <- MCSubscribers
  Reaction <- MCReaction
  Registered <- KernelRegistered
  Registration <- MCRegistration
INVARIANTS
  RejectionsReported
