\* A url with the second-to-last / at its first character.
CONSTANTS
    Letters <- MCLetters
    Words <- MCWords
    MaxLen = 4
SPECIFICATION Spec
INVARIANT SplitAgreesWithSpec
