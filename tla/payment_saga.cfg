\* Two requests of one demo, a payment on the order of each (the second one
\* mismatches), chat messages and faults included.
SPECIFICATION FairSpec
CONSTANTS
  d1 = d1
  r1 = r1
  r2 = r2
  p1 = p1
  p2 = p2
  c1 = c1
  Demos = {d1}
  Requests = {r1, r2}
  DemoOf <- MCDemoOf
  Payments = {p1, p2}
  OrderOf <- MCOrderOfEach
  BadPayments = {p2}
  NoPayment = NoPayment
  Reconcilers = {c1}
  MaxAttempts = 1
  Reportable <- MCReportable
  Statuses = {"SUCCESS", "PENDING"}
INVARIANTS PaidStatusBacked SecondOrderExplained SuccessNeverDropped
PROPERTIES SaleRefined LifecycleFollowed SuccessIsPaid
\* The saga may stop: a paid, refused or exhausted order waits for people.
CHECK_DEADLOCK FALSE
