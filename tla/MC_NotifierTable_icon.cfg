CONSTANTS
    r0 = r0
    r1 = r1
    r2 = r2
    r3 = r3
    r4 = r4
    r5 = r5
    r6 = r6
    address_added = address_added
    address_deleted = address_deleted
SPECIFICATION Spec
PROPERTY ToggleFlips
