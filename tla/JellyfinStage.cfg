SPECIFICATION FairSpec
CONSTANTS
    Tracks <- MCTracks
    Lists <- MCLists
    Label <- MCLabel
    Info <- MCInfo
    Hits <- MCHits
    Fingerprint <- MCFingerprint
    Recording <- MCRecording
    Release <- MCRelease
    PageSize = 2
    SearchLimit = 5
    None = None
    Scenes <- MCScenes
    MaxChanges = 1
    MaxFaults = 1
INVARIANTS CollectionRight FilesRight
PROPERTY CollectionEnds
