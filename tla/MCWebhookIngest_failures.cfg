CONSTANTS
  d1 = d1
  d2 = d2
  d3 = d3
  h1 = h1
  h2 = h2
  NoHash = NoHash
  Deliveries = {d1, d2, d3}
  Hashes = {h1, h2}
  HashOf <- MCOtherHash
  Supported = TRUE
  RedisFails = TRUE
  DbFails = TRUE
  MaxCrashes = 2
SPECIFICATION WebhookSpec
INVARIANTS WebhookTypeOK DedupNeverAhead TaskIsGrounded FaultFreeIsEnqueued

CHECK_DEADLOCK FALSE
