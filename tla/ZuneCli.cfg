SPECIFICATION MCSpec
CONSTANTS
    Files <- MCFiles
    Meta <- MCMeta
    NoMeta = NoMeta
    Names <- MCNames
    Playlists = {"mix"}
    ObjectIds <- MCIds
    FreshIds <- MCFreshIds
    Root = Root
    NoId = NoId
    TrackModulus = 65536
    ArtistSupported = TRUE
    PlaylistsSupported = TRUE
    AlbumCoverSupported = TRUE
    UserDeletable = {"Association", "Artist", "Album", "Track", "Playlist"}
    Interactive = FALSE
    CommandLines <- MCCommandLines
    Capacity <- MCCapacity
    Users = {"album", "playlist"}
INVARIANTS RefsComplete NamesUnique PrintedIsOnDevice
PROPERTIES ProcessOnlyAdds AddKeepsEntries ImplementsStore
