SPECIFICATION Spec
CONSTANTS
  c1 = c1  c2 = c2  h1 = h1  a1 = a1  Nothing = Nothing
  Unset = Unset  DnsTimeout = DnsTimeout
  Callers <- TwoCallers
  Hosts <- OneHost
  Answers <- SomeAnswers
  Second = 2  TTL = 1  MaxPerSecond = 1  MaxTime = 6
SYMMETRY Interchangeable
INVARIANTS RecordsCapped GrantsRecorded LookupsSpaced TimeoutRestored
PROPERTIES DropsAreLate
