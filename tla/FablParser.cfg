SPECIFICATION Spec
CONSTANTS
    Words <- SomeWords
    Numerals <- Quantities
    Declarations <- AnyThenShort
INVARIANTS TypeOK ReadsWhatWasMeant
PROPERTY AddsWhatItConsumes
CHECK_DEADLOCK FALSE
