SPECIFICATION Spec
CONSTANTS
    Versions = {v1, v2}
    Invalid = {v2}
    Absent = Absent
    NoRecord = NoRecord
    Unset = Unset
    Slots = {a, b}
    MaxMishaps = 1
    MaxUploads = 1
INVARIANT FilesTypeOK
INVARIANT AgreementUnlessCause
INVARIANT InvalidConfigHasCause
INVARIANT StaleListErrsForCause
PROPERTY SuccessIsTrue
SYMMETRY AlikeSlots
