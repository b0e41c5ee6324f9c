CONSTANTS
    Words <- DottedWords
    MaxWords = 4
    Written <- FourValues
    MaxNames = 2
    MaxGiven = 2
    MaxLength = 3
    MaxKeys = 2
SPECIFICATION ConfigSpec
INVARIANTS
    WordsAreKept
    ValuesAreKept
    LastWins
    ReadsBack
