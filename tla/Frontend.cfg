SPECIFICATION FrontendSpec
CONSTANTS
    SessionID <- MCSessionID
    Engines <- MCEngines
    Base <- MCBase
    Effort <- MCEffort
    NoEffort = NoEffort
    Published <- MCPublished
    Client = {c, d}
    MaxChanges = 1
    Blank = Blank
    NoContent = NoContent
    NoID = NoID
    ToolName = {"f", "g"}
    NoName = NoName
    Canonical = Canonical
    Symbol <- MCSymbols
    Lists <- MCLists
    Catalogs <- MCCatalogs
    Conversations <- MCConversations
    Toolsets <- MCToolsets
INVARIANTS KeyFixesModel BackendsAsConfigured CatalogReachable PromptComplete ToolHashOfSet
PROPERTIES KnownCatalogKept RoutesCatchUp
CHECK_DEADLOCK FALSE
