SPECIFICATION Spec
CONSTANTS
    NaN = NaN
    Missing = Missing
    Points <- MCPoints
    Updates <- MCUpdates
    Edits <- MCAllEdits
    MaxInFlight = 2
    MaxUpdates = 3
    MaxEdits = 1
INVARIANTS
    TypeOK
    RangeAgrees
    AlarmRecorded
PROPERTIES
    NoChatter
    HistorianTracks
    AlarmHeld
