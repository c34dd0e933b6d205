SPECIFICATION Spec
CONSTANTS
    text = text
    voice = voice
    k1 = k1
    general = general
    c1 = c1
    m1 = m1
    m2 = m2
    q1 = q1
    q2 = q2
    Categories = {text, voice, k1}
    Channels = {general, c1}
    Messages = {m1, m2}
    TextCategory = text
    VoiceCategory = voice
    DefaultChannels <- OneDefault
    Slots = {q1, q2}
    MaxOps = 5
    Nothing = Nothing
SYMMETRY Symmetry
CHECK_DEADLOCK FALSE
INVARIANTS
    ErasedUnlessRaced
    CategoryGoes
PROPERTY
    DeletedStays
