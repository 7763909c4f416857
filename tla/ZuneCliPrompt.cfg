SPECIFICATION MCSpec
CONSTANTS
    Files <- MCFiles
    Meta <- MCMeta
    NoMeta = NoMeta
    Names <- MCNames
    Playlists = {"mix"}
    ObjectIds <- MCIds
    FreshIds <- MCFreshIds
    Root = Root
    NoId = NoId
    TrackModulus = 65536
    ArtistSupported = FALSE
    PlaylistsSupported = TRUE
    AlbumCoverSupported = TRUE
    UserDeletable = {"Track"}
    Interactive = TRUE
    CommandLines <- MCCommandLines
    Capacity <- MCCapacity
    Users = {"untagged", "again"}
INVARIANT CachesInv
PROPERTY Terminates
