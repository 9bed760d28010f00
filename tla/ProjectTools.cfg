\* Projects of up to two plugins whose names and tools may collide.
SPECIFICATION Spec
CONSTANTS
    Symbol <- MCSymbol
    PluginNames <- MCPluginNames
    RemoteNames <- MCRemoteNames
    Capabilities = {"x.read", "clock.read"}
    ClockRead = "clock.read"
    Clock <- MCClock
    Projects <- MCProjects
INVARIANT TypeOK NameIsOneTool GrantsFollowManifests NothingSkipped
