SPECIFICATION Spec
CONSTANTS
    Caller = {c1}
    Inode = {i1, i2}
    Chunks = 2
    Byte = {"elf", "text"}
    Magic = {"elf"}
    Time = {m1, m2, m3}
    None = None
SYMMETRY Symmetry
INVARIANTS StampInv StampExact NativeRespected
