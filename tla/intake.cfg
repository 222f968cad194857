SPECIFICATION IntakeSpec
CONSTANTS
    Keys <- MCKeys
    Fields <- MCFields
    FoldedKey <- MCFoldedKey
    MaxTokens = 9
    Spelling <- MCSpelling
    Space <- MCSpace
    Decomposed <- MCDecomposed
    Folded <- MCFolded
    MaxCodeBytes = 3
    MaxNormalizationRounds = 3
    MaxCodes = 2
INVARIANTS DuplicatesRefused OneValue KeysAreIdentities KeysFitColumns
