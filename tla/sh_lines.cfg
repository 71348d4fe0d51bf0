CONSTANTS
    Char <- Characters
    Typed <- Arguments
    PathMax = 4
SPECIFICATION Spec
CONSTRAINT Small
INVARIANTS TypeOK RelativeLeadsThere TableNormal WritesOneFile
PROPERTIES PwdLostOnlyByRmdir SecondEntryHasCause
