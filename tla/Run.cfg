\* One run, one worker, two steps, a budget of two micro units, a lease that may fit.
CONSTANTS
    w1 = w1
    None = None
    Workers = {w1}
    LeaseSeconds = {30, 300}
    StepNumbers = {1, 2}
    Costs = {2}
    TokenTotals = {99, 100}
    MaxSteps = 2
    MaxCost = 2
    MaxEvents = 6
SPECIFICATION Spec
INVARIANT EventsTellTheRun
INVARIANT EndingsMatchTheState
INVARIANT StepsAreAccountable
PROPERTY EndsAreFinal
