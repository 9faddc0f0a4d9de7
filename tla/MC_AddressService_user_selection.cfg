CONSTANTS
    a1 = a1
    a2 = a2
    bad = bad
    u1 = u1
    u2 = u2
    cat1 = cat1
    cat2 = cat2
    CatalogEntries <- MCCatalogEntries
    c1 = c1
    Addresses = {}
    NewNames = {bad}
    Connections = {}
    UserNames = {u1, u2}
    Catalogs = {cat1}
    NoCatalog = NoCatalog
    Undefined = Undefined
    NoEntry = NoEntry
    AddrType <- MCAddrType
    NameChars <- MCNameChars
    Chars <- MCChars
    UserId <- MCUserId
    SpaceTypes <- MCSpaceTypes
    MaxCount <- MCMaxCount
    Window <- MCWindow
    SeriesMax <- MCSeriesMax
    MaxInFlight <- MCMaxInFlight
    MaxReconnects = 0
    PropsMayBeAbsent = FALSE
SPECIFICATION Spec
PROPERTY SelectionKept
