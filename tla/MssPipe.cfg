SPECIFICATION PipeSpec
CONSTANTS
  api = api
  worker = worker
  device = device
  calibration = calibration
  result = result
  NoEvent = NoEvent
  Senders = {api, worker}
  Events = {device, calibration, result}
  Plan <- MCPlan
  MaxAttempts = 3
  MaxDrops = 1
INVARIANTS
  ProcessedAtMostOnce
  OutcomeIsOwn
  AcceptedInOrder
  ConnectedListens
PROPERTIES
  ServedWhileConnected
CHECK_DEADLOCK FALSE
