CONSTANTS
    Undefined = Undefined
SPECIFICATION Spec
CONSTRAINT HistoryBound
INVARIANT TrackerTypeOK
INVARIANT SeriesTypeOK
INVARIANT KeepsMostRecent
PROPERTY RefinesSlidingWindow
