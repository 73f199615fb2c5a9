\* A refund of a successful payment.
SPECIFICATION FairCalmSpec
CONSTANTS
  d1 = d1
  r1 = r1
  r2 = r2
  p1 = p1
  p2 = p2
  c1 = c1
  Demos = {d1}
  Requests = {r1}
  DemoOf <- MCDemoOf
  Payments = {p1}
  OrderOf <- MCOrderOf
  BadPayments = {}
  NoPayment = NoPayment
  Reconcilers = {}
  MaxAttempts = 2
  Reportable <- MCReportable
  Statuses = {"SUCCESS", "REVIEW"}
PROPERTY RefundReviewed
\* The saga may stop: a paid, refused or exhausted order waits for people.
CHECK_DEADLOCK FALSE
