SPECIFICATION Spec
CONSTANTS
    Names <- TwoNames
    Overlong = "too long"
    Safe = {"pw"}
    Upper <- UpperOf
    Entries <- EntriesOf
    Environments <- EnvironmentsOf
    Dotenvs <- DotenvsOf
    MaxEdits = 3
INVARIANTS
    OneEnvFile
PROPERTIES
    AnswersInOrder
