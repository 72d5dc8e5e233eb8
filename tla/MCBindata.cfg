SPECIFICATION Spec
CONSTANTS
    FileSystems <- MCFileSystems
    Configs <- MCConfigs
    Wd <- MCWd
    MaxLinks = 3
INVARIANTS
    TocExact
    RestoresAll
CHECK_DEADLOCK FALSE
