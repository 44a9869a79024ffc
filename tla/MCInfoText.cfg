\* Two saves, each of one of two identities, cut anywhere.
SPECIFICATION Spec
CONSTANTS
    Procs <- TwoProcs
    Names <- TwoNames
    Chars <- Letters
    NameText <- TwoTexts
    Uuid <- TwoUuids
    KeyText <- TwoKeys
    NoFile = NoFile
    MAX_SAVES = 2
INVARIANT WholeLoads
PROPERTY IsConfigManager
