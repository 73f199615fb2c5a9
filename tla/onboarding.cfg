\* The whole onboarding saga, chat, faults and redeployments included.
SPECIFICATION FairSpec
CONSTANTS
  a1 = a1
  a2 = a2
  c1 = c1
  c2 = c2
  Accepts = {a1, a2}
  Completes = {c1, c2}
  MaxAttempts = 2
INVARIANTS ConvertedIsEarned WelcomeOnce
PROPERTIES LifecycleFollowed HandoffHappens
\* The saga may stop: it is converted, exhausted or waits for the agent.
CHECK_DEADLOCK FALSE
