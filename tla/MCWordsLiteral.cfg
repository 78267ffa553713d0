SPECIFICATION Spec
CONSTANTS
    Letters = {"x", "y"}
    DigitOf <- MCDigitOf
    Others <- MCOthers
    StartCap = 2
    MaxFail = 1
    Texts = {}
    Envs <- MCEnvs
    Statuses = {127}
    Commands <- MCCommands
    Builtins <- MCBuiltins
    Lines <- MCLines
    MaxQuotes = 5
    MaxOthers = 3
INVARIANT
    LiteralsSkipped
CHECK_DEADLOCK FALSE
