SPECIFICATION FairSpec
CONSTANTS
    Tracks <- MCTracks
    Order <- MCOrder
    Playlists <- MCPlaylists
    Member <- MCMember
    Others = {"t1"}
    Paths <- MCPaths
    Scenes <- MCScenes
    Key <- MCKey
    RawKey <- MCRawKey
    Mentions <- MCMentions
    ErrorLike = {"01_Error"}
    Hanging = {"01_Slow"}
    Devices = {"zune1", "zune2"}
    ObjectIds <- MCIds
    FreshIds <- MCFreshIds
    NoId = NoId
    Absent = Absent
    BatchSize = 2
    SwapMidRun = FALSE
    MaxFaults = 3
    Handles = 4
INVARIANT RecordsTrue
PROPERTIES IdsKept Converges PlaylistsRebuilt
