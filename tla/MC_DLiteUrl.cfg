\* Joins and splits of every url of up to 4 characters over a, b and /.
CONSTANTS
    Letters <- MCLetters
    Words <- MCWords
    MaxLen = 4
SPECIFICATION Spec
INVARIANTS
    RoundTrip
    SplitSound
