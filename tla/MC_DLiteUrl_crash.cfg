\* A url whose only / is its first character.
CONSTANTS
    Letters <- MCLetters
    Words <- MCWords
    MaxLen = 4
SPECIFICATION Spec
INVARIANT SplitNeverCrashes
