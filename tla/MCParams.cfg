SPECIFICATION Spec
CONSTANTS
    Setters = {s1, s2}
    Vins = {v1, v2}
    Days = 2
    MaxSerial = 2
    MaxRestarts = 3
    Blank = Blank
CONSTRAINT OnePart
INVARIANTS
    TypeOK
    

    
