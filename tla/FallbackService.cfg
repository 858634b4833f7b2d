\* Two executions, two providers, a careless list of five attempts and the default two.
CONSTANTS
    openai = openai  anthropic = anthropic  c1 = c1  c2 = c2
    None = None
    Providers = {openai, anthropic}
    Calls = {c1, c2}
    Configs <- TwoConfigs
SPECIFICATION Spec
SYMMETRY CallSymmetry
INVARIANT MetricsAgree
