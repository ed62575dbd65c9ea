------------------------------- MODULE Config -------------------------------
(***************************************************************************)
(* Where the settings of a test process come from: its shell, .env files   *)
(* and config.yaml (pkg/config), the Podman machine (pkg/env/podman.go),   *)
(* and who asks for them: Build, the migrations, StartService and the      *)
(* image puller, each of which loads the files anew while the developer    *)
(* may be editing them.                                                    *)
(*                                                                         *)
(* External: the shell, the files, the Podman machine and the registry.    *)
(***************************************************************************)
EXTENDS Naturals, Sequences, FiniteSets

CONSTANTS
    Text,               \* values of variables and images, "" included
    Backings,           \* names of mysql, redis, kafka, wiremock
    Flyway,             \* name of the migration image
    Apps,               \* names of the catalog services
    Default,            \* image of each name when nobody says otherwise
    Sibling,            \* directory "../<service>" of each service
    Places,             \* directories, "package" and "root" among them
    Relative,           \* relative path |-> what it means, by working directory
    Layouts,            \* where files may be at first: sets of places
    Shells,             \* environments the processes may be started in
    EnvFiles,           \* what a .env may contain: sequences of [key, val]
    ConfigFiles,        \* what a config.yaml may contain
    Installed,          \* podman binaries that exist
    InPath,             \* what LookPath finds, "" if nothing
    Checkouts,          \* <<working directory, DIR>> with migrations in it
    MaxBuilds, MaxEdits \* bounds

(* A name is a list of words, in kebab-case or in snake_case. *)

Kebab(name) == [name EXCEPT !.style = "kebab"]
ServiceNameToEnvKey(name) == [name EXCEPT !.style = "snake"]

Names == Backings \cup {Flyway} \cup Apps

DefaultPodmanBin == "/opt/podman/bin/podman"
MachineSocket == "unix:///machine.sock"

ASSUME TextAssumption == {"", "true", DefaultPodmanBin, MachineSocket} \subseteq Text

NoName == [words |-> <<>>, style |-> "snake"]
Setting(kind) == [kind |-> kind, name |-> NoName]
EnvPath == Setting("ENV_PATH")
ConfigPath == Setting("CONFIG_PATH")
PodmanBin == Setting("PODMAN_BIN")
DockerHost == Setting("DOCKER_HOST")
RyukDisabled == Setting("TESTCONTAINERS_RYUK_DISABLED")
ImageOf(name) == [kind |-> "IMAGE", name |-> ServiceNameToEnvKey(name)]
DirOf(service) == [kind |-> "DIR", name |-> ServiceNameToEnvKey(service)]

Settings == {EnvPath, ConfigPath, PodmanBin, DockerHost, RyukDisabled}
            \cup {ImageOf(name) : name \in Names} \cup {DirOf(name) : name \in Apps}

ASSUME NamesAssumption ==
    /\ \A name \in Names : name = [words |-> name.words, style |-> "kebab"]
    /\ Flyway \notin Backings /\ Apps \cap (Backings \cup {Flyway}) = {}

ASSUME RelativeAssumption ==
    /\ DOMAIN Relative \subseteq Text \ {""}
    /\ \A path \in DOMAIN Relative : Relative[path] \in [{"package", "root"} -> Places]

ASSUME LayoutsAssumption == \A layout \in Layouts : layout \subseteq Places

ASSUME ShellsAssumption == Shells \subseteq [Settings -> Text]

Assignments == [key : Settings, val : Text]

ASSUME EnvFilesAssumption == EnvFiles \subseteq Seq(Assignments)

ASSUME ConfigFilesAssumption ==
    \A file \in ConfigFiles :
        /\ file.valid \in BOOLEAN /\ file.bin \in Text /\ file.noImages \in BOOLEAN
        /\ DOMAIN file.images \subseteq Names
        /\ \A name \in DOMAIN file.images : file.images[name] \in Text

ASSUME DefaultAssumption == Default \in [Names -> Text \ {""}]

ASSUME SiblingAssumption == Sibling \in [Apps -> Text]

ASSUME BinariesAssumption == Installed \subseteq Text /\ InPath \in Text

ASSUME BoundsAssumption == MaxBuilds \in Nat /\ MaxEdits \in Nat

VARIABLES
    envFile,    \* the .env files there are: place |-> lines
    configFile, \* the config.yaml files there are
    edits,
    shell,      \* the environment both processes were started in
    environ,    \* the environment of the test process
    phase,      \* of its current Build
    builds,
    bin,        \* the podman binary SetupPodmanEnvironment found
    cfg,        \* the configuration Build loaded
    images,     \* name |-> image of what runs now, "" if it does not
    migrated,   \* directories whose migrations were applied
    earlier,    \* <<images, migrated>> of the environments that were ready
    puller,     \* "idle", "pulled", "nothing" or "failed"
    pulled      \* images the puller fetched

files == <<envFile, configFile, edits, shell>>
provisioned == <<cfg, images, migrated>>
vars == <<files, environ, phase, builds, bin, provisioned, earlier, puller, pulled>>

-----------------------------------------------------------------------------
(* pkg/config *)

NoImages == [name \in {} |-> ""]
DefaultConfig == [bin |-> DefaultPodmanBin,
                  images |-> [name \in Backings \cup {Flyway} |-> Default[name]]]
Failed == [bin |-> "", images |-> NoImages]    \* Load returned an error

First(candidates) == CHOOSE i \in candidates : \A j \in candidates : i <= j

\* A path as os.ReadFile takes it.
Opened(path, directory) ==
    IF path \in DOMAIN Relative THEN Relative[path][directory] ELSE path

\* The file a variable names, else the first one on the walk upwards, which
\* starts in the working directory.
Find(explicit, present, walk) ==
    LET candidates == {i \in DOMAIN walk : walk[i] \in present}
    IN  IF explicit # "" THEN Opened(explicit, walk[1])
        ELSE IF candidates = {} THEN "nowhere" ELSE walk[First(candidates)]

Lines(env, walk) ==
    LET place == Find(env[EnvPath], DOMAIN envFile, walk)
    IN  IF place \in DOMAIN envFile THEN envFile[place] ELSE <<>>

Values(lines, key) == {i \in DOMAIN lines : lines[i].key = key /\ lines[i].val # ""}

\* Seeded fault: the file overwrites what is there.
Overwritten(env, walk) ==
    [key \in Settings |->
        LET values == Values(Lines(env, walk), key)
        IN  IF values = {} THEN env[key] ELSE Lines(env, walk)[First(values)].val]

\* LoadEnv: the first value counts, and only for a variable without one.
\* Unreadable files have no lines.
LoadEnv(env, walk) ==
    [key \in Settings |->
        LET values == Values(Lines(env, walk), key)
        IN  IF env[key] # "" \/ values = {} THEN env[key]
            ELSE Lines(env, walk)[First(values)].val]

\* What config.yaml says is merged into the defaults; "images: null" clears them.
Merged(file) ==
    [bin |-> IF file.bin = "" THEN DefaultPodmanBin ELSE file.bin,
     images |-> IF file.noImages THEN NoImages
                ELSE [name \in DOMAIN DefaultConfig.images \cup DOMAIN file.images |->
                         IF name \in DOMAIN file.images THEN file.images[name]
                         ELSE Default[name]]]

\* Load after LoadEnv has turned the environment into env.
ReadConfig(env, walk) ==
    LET place == Find(env[ConfigPath], DOMAIN configFile, walk)
    IN  IF place \notin DOMAIN configFile THEN DefaultConfig
        ELSE IF configFile[place].valid THEN Merged(configFile[place])
        ELSE Failed

GetPodmanBin(config, env) ==
    IF env[PodmanBin] # "" THEN env[PodmanBin]
    ELSE IF config # Failed THEN config.bin
    ELSE DefaultPodmanBin

GetLocalImage(env, name) ==
    IF env[ImageOf(name)] # "" THEN env[ImageOf(name)] ELSE Default[name]

\* Seeded fault: the variable counts before config.yaml.
ImageFromVariable(config, env, name) ==
    IF env[ImageOf(name)] # "" THEN env[ImageOf(name)]
    ELSE IF name \in DOMAIN config.images THEN config.images[name]
    ELSE Default[name]

GetImage(config, env, name) ==
    IF name \in DOMAIN config.images /\ config.images[name] # ""
    THEN config.images[name]
    ELSE GetLocalImage(env, name)

GetLocalRepoDir(env, name) ==
    IF env[DirOf(name)] # "" THEN env[DirOf(name)] ELSE Sibling[name]

\* A binary that does not exist is looked up in PATH.
Resolved(binary) == IF binary \in Installed \/ InPath = "" THEN binary ELSE InPath

-----------------------------------------------------------------------------

\* go test starts a package in its own directory, make everything else in the root.
TestWalk == <<"package", "root">>
RootWalk == <<"root">>

NothingRuns == [name \in Names |-> ""]

TypeOK ==
    /\ DOMAIN envFile \subseteq Places /\ \A p \in DOMAIN envFile : envFile[p] \in EnvFiles
    /\ DOMAIN configFile \subseteq Places
    /\ \A p \in DOMAIN configFile : configFile[p] \in ConfigFiles
    /\ edits \in 0..MaxEdits
    /\ shell \in Shells /\ environ \in [Settings -> Text]
    /\ phase \in {"idle", "inspect", "load", "provision", "apps", "ready", "failed"}
    /\ builds \in 0..MaxBuilds
    /\ bin \in Text
    /\ cfg.bin \in Text /\ DOMAIN cfg.images \subseteq Names
    /\ \A name \in DOMAIN cfg.images : cfg.images[name] \in Text
    /\ images \in [Names -> Text]
    /\ puller \in {"idle", "pulled", "nothing", "failed"}
    /\ pulled \subseteq Text

Init ==
    /\ \E present \in Layouts : envFile \in [present -> EnvFiles]
    /\ \E present \in Layouts : configFile \in [present -> ConfigFiles]
    /\ edits = 0
    /\ shell \in Shells /\ environ = shell
    /\ phase = "idle" /\ builds = 0 /\ bin = ""
    /\ cfg = Failed /\ images = NothingRuns /\ migrated = {}
    /\ earlier = {} /\ puller = "idle" /\ pulled = {}

-----------------------------------------------------------------------------
(* Build and StartService in the test process *)

\* Build starts with SetupPodmanEnvironment, which loads the files only when
\* nobody has said where the engine is.
Begin ==
    /\ phase \in {"idle", "ready", "failed"} /\ builds < MaxBuilds
    /\ builds' = builds + 1
    /\ LET quiet == [environ EXCEPT ![RyukDisabled] = "true"]
           loaded == LoadEnv(quiet, TestWalk)
       IN  IF environ[DockerHost] # ""
           THEN environ' = quiet /\ phase' = "load" /\ UNCHANGED bin
           ELSE /\ environ' = loaded /\ phase' = "inspect"
                /\ bin' = Resolved(GetPodmanBin(ReadConfig(loaded, TestWalk), loaded))
    /\ cfg' = Failed /\ images' = NothingRuns /\ migrated' = {}
    /\ UNCHANGED <<files, earlier, puller, pulled>>

\* Seeded fault: the socket of the machine replaces any host there is.
InspectAlways ==
    /\ phase \in {"inspect", "load"} /\ phase' = "load"
    /\ environ' = [environ EXCEPT ![DockerHost] = MachineSocket]
    /\ UNCHANGED <<files, builds, bin, provisioned, earlier, puller, pulled>>

\* podman machine inspect may fail or print nothing; what it prints replaces
\* even the DOCKER_HOST that .env has just set.
Inspect ==
    /\ phase = "inspect" /\ phase' = "load"
    /\ environ' \in {environ} \cup
          {[environ EXCEPT ![DockerHost] = MachineSocket] : b \in Installed \cap {bin}}
    /\ UNCHANGED <<files, builds, bin, provisioned, earlier, puller, pulled>>

\* Seeded fault: Build looks for config.yaml before .env is loaded.
LoadConfigFirst ==
    /\ phase = "load"
    /\ environ' = LoadEnv(environ, TestWalk)
    /\ cfg' = ReadConfig(environ, TestWalk)
    /\ phase' = IF cfg' = Failed THEN "failed" ELSE "provision"
    /\ UNCHANGED <<files, builds, bin, images, migrated, earlier, puller, pulled>>

LoadConfig ==
    /\ phase = "load"
    /\ environ' = LoadEnv(environ, TestWalk)
    /\ cfg' = ReadConfig(environ', TestWalk)
    /\ phase' = IF cfg' = Failed THEN "failed" ELSE "provision"
    /\ UNCHANGED <<files, builds, bin, images, migrated, earlier, puller, pulled>>

Database(name) == [name EXCEPT !.style = "snake"]

\* The database names are those of the services in snake case; Build turns
\* them back and takes the directories that hold migrations.
Migrations(env) ==
    {dir \in {GetLocalRepoDir(env, Kebab(Database(app))) : app \in Apps} :
        <<"package", dir>> \in Checkouts}

\* The backing services have the images of cfg; runFlywayMigration asks b.cfg,
\* which Setup never sets. Nor does a suite name migrations of its own.
Provision ==
    /\ phase = "provision" /\ phase' = "apps"
    /\ migrated' = Migrations(environ)
    /\ images' = [name \in Names |->
                     IF name \in Backings THEN GetImage(cfg, environ, name)
                     ELSE IF name = Flyway /\ migrated' # {}
                          THEN GetImage(Failed, environ, name)
                     ELSE ""]
    /\ UNCHANGED <<files, environ, builds, bin, cfg, earlier, puller, pulled>>

\* Seeded fault: a service is remembered by its name in snake case.
StartInSnakeCase(app) ==
    /\ phase = "apps" /\ images[app] = ""
    /\ environ' = LoadEnv(environ, TestWalk)
    /\ images' = [name \in Names \cup {ServiceNameToEnvKey(app)} |->
                     IF name = ServiceNameToEnvKey(app) THEN GetLocalImage(environ', app)
                     ELSE images[name]]
    /\ UNCHANGED <<files, phase, builds, bin, cfg, migrated, earlier, puller, pulled>>

\* StartService loads once more; when that fails it takes the default image.
\* No suite passes an image of its own.
StartService(app) ==
    /\ phase = "apps" /\ images[app] = ""
    /\ environ' = LoadEnv(environ, TestWalk)
    /\ images' = [images EXCEPT ![app] =
                     IF ReadConfig(environ', TestWalk) = Failed THEN Default[app]
                     ELSE GetLocalImage(environ', app)]
    /\ UNCHANGED <<files, phase, builds, bin, cfg, migrated, earlier, puller, pulled>>

Ready ==
    /\ phase = "apps" /\ phase' = "ready"
    /\ \A app \in Apps : images[app] # ""
    /\ earlier' = earlier \cup {<<images, migrated>>}
    /\ UNCHANGED <<files, environ, builds, bin, provisioned, puller, pulled>>

\* A container does not start.
StartFails ==
    /\ phase \in {"provision", "apps"} /\ phase' = "failed"
    /\ UNCHANGED <<files, environ, builds, bin, provisioned, earlier, puller, pulled>>

-----------------------------------------------------------------------------
(* The others. Bound: files are not edited in runs in which images are      *)
(* pulled, the properties of the puller being about files as they are.     *)

\* make pull-images: every image of config.yaml or of the defaults, an error
\* at the end if one could not be had; nothing at all if there is none.
PullImages ==
    /\ puller = "idle" /\ edits = 0
    /\ LET env == LoadEnv(shell, RootWalk)
           config == ReadConfig(env, RootWalk)
           wanted == {config.images[name] : name \in DOMAIN config.images}
       IN  IF config = Failed THEN puller' = "failed" /\ UNCHANGED pulled
           ELSE IF wanted = {} THEN puller' = "nothing" /\ UNCHANGED pulled
           ELSE /\ pulled' \in SUBSET (wanted \ {""})
                /\ puller' = IF pulled' = wanted THEN "pulled" ELSE "failed"
    /\ UNCHANGED <<files, environ, phase, builds, bin, provisioned, earlier>>

EditEnvFile(place) ==
    /\ edits < MaxEdits /\ edits' = edits + 1
    /\ puller = "idle"
    /\ \E lines \in EnvFiles :
          envFile' = [p \in DOMAIN envFile \cup {place} |->
                         IF p = place THEN lines ELSE envFile[p]]
    /\ UNCHANGED <<configFile, shell, environ, phase, builds, bin, provisioned,
                   earlier, puller, pulled>>

EditConfigFile(place) ==
    /\ edits < MaxEdits /\ edits' = edits + 1
    /\ puller = "idle"
    /\ \E file \in ConfigFiles :
          configFile' = [p \in DOMAIN configFile \cup {place} |->
                            IF p = place THEN file ELSE configFile[p]]
    /\ UNCHANGED <<envFile, shell, environ, phase, builds, bin, provisioned,
                   earlier, puller, pulled>>

Next ==
    \/ Begin \/ Inspect \/ LoadConfig \/ Provision \/ Ready \/ StartFails
    \/ \E app \in Apps : StartService(app)
    \/ PullImages
    \/ \E place \in Places : EditEnvFile(place) \/ EditConfigFile(place)

Spec == Init /\ [][Next]_vars

-----------------------------------------------------------------------------

\* LoadEnv never overwrites what the process was started with (config.go:99),
\* however often and from whichever files Build, the services and later
\* Builds load. TESTCONTAINERS_RYUK_DISABLED is set by SetupPodmanEnvironment.
ShellWins ==
    \A key \in Settings \ {RyukDisabled} : shell[key] # "" => environ[key] = shell[key]

\* Once the first Build of a process has found its engine, no later load and
\* no edit of a file makes the process talk to another one, and no variable
\* that has a value gets a new one (podman.go:15, config.go:127).
SettingsStick ==
    [][\A key \in Settings :
          environ[key] # "" =>
              \/ environ'[key] = environ[key]
              \/ key = RyukDisabled
              \/ key = DockerHost /\ phase = "inspect" /\ shell[key] = ""]_vars

\* A .env names another .env.
Redirected ==
    \E place \in DOMAIN envFile : Values(envFile[place], EnvPath) # {}

\* The variables that name files name the same ones in every directory.
Absolute == \A key \in {EnvPath, ConfigPath} : environ[key] \notin DOMAIN Relative

\* The files of the tests are those of the root.
OnePlace == "package" \notin DOMAIN envFile \cup DOMAIN configFile

\* With the files as they are, `make pull-images' that ended well has pulled
\* every image the backing services run, though it is another process in
\* another directory with an environment of its own (pull-images/main.go:26,
\* builder.go:120-266). A relative CONFIG_PATH or ENV_PATH means another file
\* there (config.go:46, 73), and then nothing is claimed.
PulledImagesSuffice ==
    edits = 0 /\ ~Redirected /\ OnePlace /\ Absolute /\ puller = "pulled" =>
        \A name \in Backings : images[name] \in pulled \cup {""}

\* With the files as they are, a service runs the image its variable names,
\* never the default of a failed load (runner.go:24): StartService's load
\* succeeds whenever Build's did.
AppImageHonoured ==
    edits = 0 /\ ~Redirected =>
        \A app \in Apps : images[app] \in {"", GetLocalImage(environ, app)}

\* With the files as they are, all environments of a process run the same
\* images and the same migrations, though each loads the files several times
\* into one environment (podman.go:20, builder.go:94, runner.go:24).
BuildsAgree ==
    edits = 0 /\ ~Redirected => Cardinality(earlier) <= 1

\* The migrations run with the image config.yaml gives for flyway (README:102,
\* config.go:215).
FlywayImageOfConfig ==
    images[Flyway] # "" => images[Flyway] = GetImage(cfg, environ, Flyway)
=============================================================================
