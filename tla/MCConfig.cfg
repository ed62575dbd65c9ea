CONSTANTS
    Text <- Strings
    Backings <- OneBacking
    Flyway <- FlywayName
    Apps <- OneApp
    Default <- Defaults
    Sibling <- Siblings
    Places = {"package", "root", "other"}
    Relative <- Beside
    Layouts = {{}, {"root"}, {"root", "other"}, {"package"}}
    Shells <- ShellChoices
    EnvFiles <- EnvFileContents
    ConfigFiles <- ConfigFileContents
    Installed = {"/custom/podman", "/usr/bin/podman"}
    InPath = "/usr/bin/podman"
    Checkouts <- OneCheckout
    MaxBuilds = 2
    MaxEdits = 1
SPECIFICATION Spec
INVARIANTS
    TypeOK
    ShellWins
    PulledImagesSuffice
    AppImageHonoured
    BuildsAgree
PROPERTIES
    SettingsStick
CHECK_DEADLOCK FALSE
