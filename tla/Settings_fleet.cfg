CONSTANTS
    Default <- MCDefault
    Optional <- MCOptional
    Scaled = {}
    Fallback <- MCFallback
    Places <- MCPlaces
    Home = "home"
    Dirs <- MCDirs
    DefaultDir = "default"
    Generated = {"scaleout"}
    Project <- MCProject
    FleetXml = "fleet.xml"
    DotEnv = ".env"
    FileNames <- MCNames
    XmlNames = {"fleet.xml", "over.xml"}
    Layer <- MCLayer
    Files <- MCFiles
    Renders <- MCRenders
    Commands <- MCCommands
    Denied <- MCDenied
    None = None
    MaxEdits = 1
    MaxRenders = 2
    MaxCommands = 2
    EnvKey <- MCEnvKey
    First <- MCFirst
    Flags <- MCFlagsOf
    Clis <- MCClis
    EnvFiles <- MCEnvFiles
    FleetFiles <- MCFleetFiles
    MaxTold = 2
SPECIFICATION SettingsSpec
INVARIANT FleetReachesGenVm
CHECK_DEADLOCK FALSE
