\* Three words of two bits: gaps that are a multiple of the word, that carry
\* between words, that equal the window (6 positions) and that leave it.
CONSTANTS
    WordBits = 2
    WindowWords = 3
    MaxCounter = 9
SPECIFICATION Spec
INVARIANTS
    WindowIsExact
PROPERTIES
    ImplementsReplayWindow
    ImplementsIdealFilter
