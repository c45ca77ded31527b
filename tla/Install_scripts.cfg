SPECIFICATION Spec
CONSTANTS
    Script = {s1, s2}
    Earlier = earlier
    Platforms = {"linux", "macos", "windows"}
    MaxVersion = 2
    MaxEdits = 1
    MaxReboots = 1
INVARIANTS
    CodeWorks
    
PROPERTIES
    PolicyPreserved
