SPECIFICATION Spec
CONSTANTS
    NoTarget <- MCNoTarget
    Absolute <- MCAbsolute
    NoFrom <- MCNoFrom
    KeyOrder <- MCKeyOrder
    Projects <- MCProjects
    Source <- MCSource
    Id <- MCId
    Releases <- MCReleases
    Packs <- MCPacks
    Archives <- MCArchives
    Loaders <- MCLoaders
    LoaderPerGame = TRUE
    HasKey = TRUE
    AllowSource <- Allow
    Menu <- MCMenu
    GameMenu <- MCGameMenu
    LockMenu <- MCLockMenu
    FirstManifests <- MCFirstManifests
    FirstPublished <- MCFirstPublished
    MaxOps = 1
INVARIANT UntouchedKept
