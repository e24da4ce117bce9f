\* A message, a Welcome and a restart.
CONSTANTS
    Msgs = {m1}
    Welcomes = {w1}
    LastStep = 0
    MaxRestarts = 1
SPECIFICATION ReachablePeerSpec
INVARIANTS InFlightIsOwned ArmedMeansNothingInFlight 
PROPERTIES CallerIsAnswered DueRowIsSent WelcomesAreNotEvicted
CHECK_DEADLOCK TRUE
