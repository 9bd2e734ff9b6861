SPECIFICATION Spec
CONSTANTS
    Chars = {a, b}
    Nul = Nul
    Junk = Junk
    BufSize = 3
    MaxBytes = 5
    SizeModulus = 32
INVARIANT StaysInBlock
INVARIANT ResultExact
PROPERTY OnlyGrows
CHECK_DEADLOCK FALSE
