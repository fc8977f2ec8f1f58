SPECIFICATION TextsSpec
CONSTANTS
    Names = {"a", "b", "c", "d"}
    Values = {"1"}
    Keywords = {"at"}
    Sentence <- Texts
    StatementNames = {"a", "b", "e", "f", "n", "s"}
    StatementValues = {"1", "2"}
    Strings = {"str"}
    StatementTexts <- Sentences
    MaxErrors = 8
    Uninitialised = {"none"}
INVARIANTS
    RanksDescend
    NodesBelong
    ReadBack
    ReadForWhatItSays
    InItsPlace
PROPERTIES
    ReadingEnds
