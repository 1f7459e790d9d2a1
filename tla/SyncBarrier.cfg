CONSTANTS
    Children = {a, b, c}
    Owner = owner
SPECIFICATION Spec
INVARIANTS
    CountIsOfThisRound
    RoundsAligned
