\* Two changes of one reservation that race, one of a later booking that wants the same
\* night, and a host's own reservation that wants the next; deliveries handled two at a time.
SPECIFICATION Spec
CONSTANTS
  r1 = r1
  r2 = r2
  r3 = r3
  m1 = m1
  m2 = m2
  m3 = m3
  h1 = h1
  h2 = h2
  Reservations = {r1, r2, r3}
  Changes = {m1, m2, m3}
  Of <- OfThree
  Proposed <- ProposedThree
  FirstStay <- StayThree
  Booked = {r1, r3}
  Manual = {r3}
  MoveTo <- MoveFifth
  Handlers = {h1, h2}
  WindowMs = 2
  MinWindowMs = 1
  MaxClock = 3
  MaxFaults = 1
INVARIANTS
  TypeOK
  OneActive
  QuoteStands
  OneHandlerPerEvent
PROPERTIES
  ImplementsPaidChange
SYMMETRY HandlerSymmetry
CHECK_DEADLOCK FALSE
