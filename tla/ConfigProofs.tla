---------------------------- MODULE ConfigProofs ----------------------------
(***************************************************************************)
(* Theorems about Config, for any names, files, shells and edits.          *)
(***************************************************************************)
EXTENDS Config, FiniteSetTheorems, WellFoundedInduction, TLAPS

\* First finds the least of a set of numbers: the intervals below them are
\* ordered by inclusion, which is well-founded.
LEMMA FirstIsAmong == ASSUME NEW c \in SUBSET Nat, c # {} PROVE First(c) \in c
<1> DEFINE Less == StrictSubsetOrdering(Nat)
           UpTo == {0..i : i \in c}
<1>1. UpTo \subseteq FiniteSubsetsOf(Nat) /\ UpTo # {}
    <2>1. ASSUME NEW i \in c PROVE 0..i \in SUBSET Nat /\ IsFiniteSet(0..i)
        BY FS_Interval
    <2>2. QED
        BY <2>1 DEF FiniteSubsetsOf
<1>2. PICK least \in UpTo : \A other \in UpTo : <<other, least>> \notin Less
    <2>1. IsWellFoundedOn(Less, FiniteSubsetsOf(Nat))
        BY FS_StrictSubsetOrderingWellFounded
    <2> HIDE DEF UpTo, Less
    <2>2. QED
        BY <1>1, <2>1, WFMin
<1>3. PICK i \in c : least = 0..i
    OBVIOUS
<1>4. ASSUME NEW j \in c, j < i PROVE FALSE
    <2>1. 0..j \in UpTo /\ 0..j \in SUBSET Nat /\ 0..i \in SUBSET Nat
        OBVIOUS
    <2>2. 0..j \subseteq 0..i /\ i \in 0..i /\ i \notin 0..j
        BY <1>4
    <2>3. <<0..j, 0..i>> \in Less
        BY <2>1, <2>2 DEF StrictSubsetOrdering
    <2>4. QED
        BY <1>2, <1>3, <2>1, <2>3
<1>5. \A j \in c : i <= j
    BY <1>4
<1>6. QED
    BY <1>5 DEF First

Environments == [Settings -> Text]

FilesOK ==
    /\ \A p \in DOMAIN envFile : envFile[p] \in EnvFiles
    /\ \A p \in DOMAIN configFile : configFile[p] \in ConfigFiles

\* LoadEnv, key by key: a variable keeps its value or, if it has none, gets the
\* first value the file gives it.
LEMMA LoadEnvSets ==
    ASSUME FilesOK, NEW env \in Environments, NEW walk
    PROVE  /\ LoadEnv(env, walk) \in Environments
           /\ \A key \in Settings :
                 /\ env[key] # "" => LoadEnv(env, walk)[key] = env[key]
                 /\ Values(Lines(env, walk), key) = {} =>
                       LoadEnv(env, walk)[key] = env[key]
                 /\ Values(Lines(env, walk), key) # {} => LoadEnv(env, walk)[key] # ""
<1> DEFINE lines == Lines(env, walk)
<1>1. lines \in Seq(Assignments)
    <2>1. <<>> \in Seq(Assignments)
        OBVIOUS
    <2>2. QED
        BY <2>1, EnvFilesAssumption DEF Lines, FilesOK
<1>2. ASSUME NEW key \in Settings, Values(lines, key) # {}
      PROVE  lines[First(Values(lines, key))].val \in Text \ {""}
    <2> HIDE DEF lines
    <2>1. Values(lines, key) \subseteq DOMAIN lines /\ DOMAIN lines \subseteq Nat
        <3>1. DOMAIN lines \subseteq Nat
            BY <1>1
        <3>2. QED
            BY <3>1 DEF Values
    <2>2. First(Values(lines, key)) \in Values(lines, key)
        BY <1>2, <2>1, FirstIsAmong
    <2>3. lines[First(Values(lines, key))] \in Assignments
        BY <1>1, <2>1, <2>2
    <2>4. lines[First(Values(lines, key))].val # ""
        BY <2>2 DEF Values
    <2>5. QED
        BY <2>3, <2>4 DEF Assignments
<1>3. QED
    BY <1>2 DEF LoadEnv, Environments

\* What Load may return.
ConfigOK(config) ==
    /\ config.bin \in Text /\ DOMAIN config.images \subseteq Names
    /\ \A name \in DOMAIN config.images : config.images[name] \in Text

LEMMA ReadConfigIsTyped ==
    ASSUME FilesOK, NEW env, NEW walk PROVE ConfigOK(ReadConfig(env, walk))
<1>1. ConfigOK(Failed) /\ ConfigOK(DefaultConfig)
    BY TextAssumption, DefaultAssumption DEF ConfigOK, Failed, DefaultConfig, NoImages, Names
<1>2. ASSUME NEW file \in ConfigFiles PROVE ConfigOK(Merged(file))
    BY TextAssumption, DefaultAssumption, ConfigFilesAssumption
       DEF ConfigOK, Merged, DefaultConfig, NoImages, Names
<1>3. QED
    BY <1>1, <1>2 DEF ReadConfig, FilesOK

LEMMA SettingsOfNames ==
    /\ \A name \in Names : ImageOf(name) \in Settings \ {DockerHost, RyukDisabled}
    /\ \A app \in Apps : /\ DirOf(app) \in Settings \ {DockerHost, RyukDisabled}
                         /\ Kebab(Database(app)) = app
    /\ {EnvPath, ConfigPath, PodmanBin} \subseteq Settings \ {DockerHost, RyukDisabled}
    /\ {DockerHost, RyukDisabled} \subseteq Settings
<1>1. \A name \in Names : ImageOf(name) \in Settings \ {DockerHost, RyukDisabled}
    BY DEF Settings, ImageOf, DockerHost, RyukDisabled, Setting
<1>2. \A app \in Apps : DirOf(app) \in Settings \ {DockerHost, RyukDisabled}
    BY DEF Settings, DirOf, DockerHost, RyukDisabled, Setting
<1>3. \A app \in Apps : Kebab(Database(app)) = app
    <2>1. ASSUME NEW app \in Apps PROVE Kebab(Database(app)) = app
        <3>1. PICK words : app = [words |-> words, style |-> "kebab"]
            BY NamesAssumption DEF Names
        <3>2. Database(app) = [words |-> words, style |-> "snake"]
            BY <3>1 DEF Database
        <3>3. QED
            BY <3>1, <3>2 DEF Kebab
    <2>2. QED
        BY <2>1
<1>4. QED
    BY <1>1, <1>2, <1>3 DEF Settings, EnvPath, ConfigPath, PodmanBin, DockerHost,
       RyukDisabled, Setting

LEMMA ImagesAreTyped ==
    ASSUME NEW env \in Environments, NEW name \in Names, NEW config, ConfigOK(config)
    PROVE  /\ GetLocalImage(env, name) \in Text \ {""}
           /\ GetImage(config, env, name) \in Text \ {""}
BY SettingsOfNames, DefaultAssumption DEF GetLocalImage, GetImage, ConfigOK, Environments

-----------------------------------------------------------------------------

\* Type correctness of Config: whatever the files say, what the process holds
\* are settings, images of known names and a configuration.
THEOREM ConfigTypes == Spec => []TypeOK
<1>1. Init => TypeOK
    <2> SUFFICES ASSUME Init PROVE TypeOK
        OBVIOUS
    <2>1. PICK p \in Layouts : envFile \in [p -> EnvFiles]
        BY DEF Init
    <2>2. PICK q \in Layouts : configFile \in [q -> ConfigFiles]
        BY DEF Init
    <2>3. /\ DOMAIN envFile \subseteq Places /\ \A place \in DOMAIN envFile : envFile[place] \in EnvFiles
          /\ DOMAIN configFile \subseteq Places
          /\ \A place \in DOMAIN configFile : configFile[place] \in ConfigFiles
        BY <2>1, <2>2, LayoutsAssumption
    <2>4. shell \in Shells /\ environ \in [Settings -> Text]
        BY ShellsAssumption DEF Init
    <2>5. ConfigOK(cfg) /\ images \in [Names -> Text]
        BY TextAssumption DEF Init, ConfigOK, Failed, NoImages, NothingRuns
    <2>6. phase = "idle" /\ puller = "idle" /\ pulled = {} /\ edits = 0 /\ builds = 0 /\ bin = ""
        BY DEF Init
    <2>7. edits \in 0..MaxEdits /\ builds \in 0..MaxBuilds /\ bin \in Text
        <3>1. 0 \in 0..MaxEdits /\ 0 \in 0..MaxBuilds
            BY BoundsAssumption
        <3>2. "" \in Text
            BY TextAssumption
        <3>3. QED
            BY <2>6, <3>1, <3>2
    <2>8. QED
        BY <2>3, <2>4, <2>5, <2>6, <2>7 DEF TypeOK, ConfigOK
<1>2. ASSUME TypeOK, [Next]_vars PROVE TypeOK'
    <2>0. FilesOK /\ environ \in Environments /\ shell \in Environments
        BY <1>2, ShellsAssumption DEF TypeOK, FilesOK, Environments
    <2>1. CASE Begin
        <3>1. [environ EXCEPT ![RyukDisabled] = "true"] \in Environments
            BY <2>0, TextAssumption DEF Environments
        <3>2. environ' \in Environments /\ bin' \in Text
            <4> DEFINE loaded == LoadEnv([environ EXCEPT ![RyukDisabled] = "true"], TestWalk)
            <4>1. loaded \in Environments
                BY <2>0, <3>1, LoadEnvSets
            <4>2. ConfigOK(ReadConfig(loaded, TestWalk))
                BY <2>0, ReadConfigIsTyped
            <4> HIDE DEF loaded
            <4>3. GetPodmanBin(ReadConfig(loaded, TestWalk), loaded) \in Text
                BY <4>1, <4>2, SettingsOfNames, TextAssumption
                   DEF GetPodmanBin, ConfigOK, Environments
            <4>4. Resolved(GetPodmanBin(ReadConfig(loaded, TestWalk), loaded)) \in Text
                BY <4>3, BinariesAssumption DEF Resolved
            <4>5. bin \in Text
                BY <1>2 DEF TypeOK
            <4>6. QED
                BY <2>1, <3>1, <4>1, <4>4, <4>5 DEF Begin, loaded
        <3>3. builds' \in 0..MaxBuilds
            <4>1. builds' = builds + 1 /\ builds < MaxBuilds /\ builds \in 0..MaxBuilds
                BY <1>2, <2>1 DEF Begin, TypeOK
            <4>2. QED
                BY <4>1, BoundsAssumption
        <3>4. QED
            BY <1>2, <2>1, <3>2, <3>3, TextAssumption
               DEF Begin, TypeOK, files, Failed, NoImages, NothingRuns, Environments
    <2>2. CASE Inspect
        <3>1. environ' \in Environments
            BY <2>0, <2>2, TextAssumption DEF Inspect, Environments
        <3>2. QED
            BY <1>2, <2>2, <3>1 DEF Inspect, TypeOK, files, provisioned, Environments
    <2>3. CASE LoadConfig
        <3>1. environ' \in Environments /\ ConfigOK(cfg')
            BY <2>0, <2>3, LoadEnvSets, ReadConfigIsTyped DEF LoadConfig
        <3>2. QED
            BY <1>2, <2>3, <3>1 DEF LoadConfig, TypeOK, files, Environments, ConfigOK
    <2>4. CASE Provision
        <3>1. ConfigOK(cfg) /\ ConfigOK(Failed)
            BY <1>2, TextAssumption DEF TypeOK, ConfigOK, Failed, NoImages
        <3>2. images' \in [Names -> Text]
            BY <2>0, <2>4, <3>1, ImagesAreTyped, TextAssumption DEF Provision
        <3>3. QED
            BY <1>2, <2>4, <3>2 DEF Provision, TypeOK, files
    <2>5. ASSUME NEW app \in Apps, StartService(app) PROVE TypeOK'
        <3>1. environ' \in Environments /\ app \in Names
            BY <2>0, <2>5, LoadEnvSets DEF StartService, Names
        <3>2. Default[app] \in Text /\ GetLocalImage(environ', app) \in Text
            BY <3>1, SettingsOfNames, DefaultAssumption DEF GetLocalImage, Environments
        <3>3. images' \in [Names -> Text]
            BY <1>2, <2>5, <3>1, <3>2 DEF StartService, TypeOK
        <3>4. QED
            BY <1>2, <2>5, <3>1, <3>3 DEF StartService, TypeOK, files, Environments
    <2>6. CASE Ready \/ StartFails
        BY <1>2, <2>6 DEF Ready, StartFails, TypeOK, files, provisioned
    <2>7. CASE PullImages
        <3>1. ConfigOK(ReadConfig(LoadEnv(shell, RootWalk), RootWalk))
            BY <2>0, ReadConfigIsTyped
        <3>2. pulled' \subseteq Text /\ puller' \in {"idle", "pulled", "nothing", "failed"}
            BY <1>2, <2>7, <3>1 DEF PullImages, ConfigOK, TypeOK
        <3>3. QED
            BY <1>2, <2>7, <3>2 DEF PullImages, TypeOK, files, provisioned
    <2>8. ASSUME NEW place \in Places, EditEnvFile(place) PROVE TypeOK'
        <3>1. PICK lines \in EnvFiles :
                 envFile' = [p \in DOMAIN envFile \cup {place} |->
                                IF p = place THEN lines ELSE envFile[p]]
            BY <2>8 DEF EditEnvFile
        <3>2. edits' \in 0..MaxEdits
            BY <1>2, <2>8, BoundsAssumption DEF EditEnvFile, TypeOK
        <3>3. QED
            BY <1>2, <2>8, <3>1, <3>2 DEF EditEnvFile, TypeOK, provisioned
    <2>9. ASSUME NEW place \in Places, EditConfigFile(place) PROVE TypeOK'
        <3>1. PICK file \in ConfigFiles :
                 configFile' = [p \in DOMAIN configFile \cup {place} |->
                                   IF p = place THEN file ELSE configFile[p]]
            BY <2>9 DEF EditConfigFile
        <3>2. edits' \in 0..MaxEdits
            BY <1>2, <2>9, BoundsAssumption DEF EditConfigFile, TypeOK
        <3>3. QED
            BY <1>2, <2>9, <3>1, <3>2 DEF EditConfigFile, TypeOK, provisioned
    <2>10. CASE UNCHANGED vars
        BY <1>2, <2>10 DEF vars, files, provisioned, TypeOK
    <2>11. QED
        BY <1>2, <2>1, <2>2, <2>3, <2>4, <2>5, <2>6, <2>7, <2>8, <2>9, <2>10 DEF Next
<1>3. QED
    BY <1>1, <1>2, PTL DEF Spec

-----------------------------------------------------------------------------

\* What a step of the test process may do to a variable that has a value.
LEMMA ValuesStick ==
    ASSUME TypeOK, [Next]_vars, NEW key \in Settings, environ[key] # ""
    PROVE  \/ environ'[key] = environ[key]
           \/ key = RyukDisabled
           \/ key = DockerHost /\ phase = "inspect"
<1>0. FilesOK /\ environ \in Environments
    BY DEF TypeOK, FilesOK, Environments
<1>1. CASE Begin
    <2> DEFINE quiet == [environ EXCEPT ![RyukDisabled] = "true"]
    <2>1. quiet \in Environments /\ (key = RyukDisabled \/ quiet[key] = environ[key])
        BY <1>0, TextAssumption DEF Environments
    <2>2. key = RyukDisabled \/ LoadEnv(quiet, TestWalk)[key] = environ[key]
        BY <1>0, <2>1, LoadEnvSets
    <2> HIDE DEF quiet
    <2>3. environ' \in {quiet, LoadEnv(quiet, TestWalk)}
        BY <1>1 DEF Begin, quiet
    <2>4. QED
        BY <2>1, <2>2, <2>3
<1>2. CASE Inspect
    BY <1>0, <1>2 DEF Inspect, Environments
<1>3. CASE environ' = LoadEnv(environ, TestWalk)
    BY <1>0, <1>3, LoadEnvSets
<1>4. CASE UNCHANGED environ
    BY <1>4
<1>5. QED
    BY <1>1, <1>2, <1>3, <1>4 DEF Next, LoadConfig, Provision, StartService, Ready,
       StartFails, PullImages, EditEnvFile, EditConfigFile, vars

\* Inspecting the machine means that the shell named no engine.
Hostless == phase = "inspect" => shell[DockerHost] = ""

LEMMA ShellIsKept == Spec => [](ShellWins /\ Hostless)
<1> DEFINE Inv == ShellWins /\ Hostless
<1>1. Init => Inv
    BY DEF Init, ShellWins, Hostless
<1>2. ASSUME TypeOK, Inv, [Next]_vars PROVE Inv'
    <2>1. shell' = shell
        BY <1>2 DEF Next, Begin, Inspect, LoadConfig, Provision, StartService, Ready,
           StartFails, PullImages, EditEnvFile, EditConfigFile, vars, files
    <2>2. phase' = "inspect" =>
             (phase = "inspect" /\ UNCHANGED phase) \/ environ[DockerHost] = ""
        BY <1>2 DEF Next, Begin, Inspect, LoadConfig, Provision, StartService, Ready,
           StartFails, PullImages, EditEnvFile, EditConfigFile, vars
    <2>3. shell[DockerHost] # "" => environ[DockerHost] = shell[DockerHost]
        BY <1>2, SettingsOfNames DEF ShellWins, DockerHost, RyukDisabled, Setting
    <2>4. Hostless'
        BY <1>2, <2>1, <2>2, <2>3 DEF Hostless
    <2>5. ASSUME NEW key \in Settings \ {RyukDisabled}, shell[key] # ""
          PROVE  environ'[key] = shell[key]
        <3>1. environ[key] = shell[key]
            BY <1>2, <2>5 DEF ShellWins
        <3>2. ~(key = DockerHost /\ phase = "inspect")
            BY <1>2, <2>5 DEF Hostless
        <3>3. QED
            BY <1>2, <2>5, <3>1, <3>2, ValuesStick
    <2>6. QED
        BY <2>1, <2>4, <2>5 DEF ShellWins
<1>3. QED
    BY <1>1, <1>2, ConfigTypes, PTL DEF Spec

\* LoadEnv never overwrites what the process was started with (config.go:99),
\* whatever files there are, however they are edited and however often Build
\* and StartService load them.
THEOREM ShellAlwaysWins == Spec => []ShellWins
    BY ShellIsKept, PTL

\* No load, no later Build and no edit gives a variable that has a value a new
\* one, the address of the engine included, but for the one inspect that finds
\* the engine of the process (podman.go:15-38, config.go:127).
THEOREM SettingsAlwaysStick == Spec => SettingsStick
<1> DEFINE Stick == \A key \in Settings : environ[key] # "" =>
                       \/ environ'[key] = environ[key]
                       \/ key = RyukDisabled
                       \/ key = DockerHost /\ phase = "inspect" /\ shell[key] = ""
<1>1. ASSUME TypeOK, Hostless, [Next]_vars PROVE Stick
    BY <1>1, ValuesStick DEF Hostless
<1>2. QED
    BY <1>1, ShellIsKept, ConfigTypes, PTL DEF Spec, SettingsStick

-----------------------------------------------------------------------------
(* What the files decide as long as they are not edited *)

Kept == Settings \ {DockerHost, RyukDisabled}
Agree(e, f) == \A key \in Kept : e[key] = f[key]
Unaltered == edits = 0 /\ ~Redirected

\* What the files make of the shell's environment, and what follows from it.
Effective == LoadEnv(shell, TestWalk)
TheConfig == ReadConfig(Effective, TestWalk)
TheImage(name) ==
    IF name \in Backings THEN GetImage(TheConfig, Effective, name)
    ELSE IF name = Flyway
         THEN IF Migrations(Effective) # {} THEN GetImage(Failed, Effective, name) ELSE ""
    ELSE GetLocalImage(Effective, name)
TheEnvironment == <<[name \in Names |-> TheImage(name)], Migrations(Effective)>>

LEMMA RedirectNowhere ==
    ASSUME ~Redirected, NEW env, NEW walk PROVE Values(Lines(env, walk), EnvPath) = {}
<1>1. Values(<<>>, EnvPath) = {}
    BY DEF Values
<1>2. \A place \in DOMAIN envFile : Values(envFile[place], EnvPath) = {}
    BY DEF Redirected
<1>3. QED
    BY <1>1, <1>2 DEF Lines

\* Loading twice is loading once: a second load finds the same file and only
\* variables that the file does not set.
LEMMA LoadAgrees ==
    ASSUME FilesOK, ~Redirected, NEW env \in Environments, shell \in Environments,
           Agree(env, shell) \/ Agree(env, Effective)
    PROVE  Agree(LoadEnv(env, TestWalk), Effective)
<1>1. EnvPath \in Kept /\ Kept \subseteq Settings
    BY SettingsOfNames DEF Kept
<1>2. Effective[EnvPath] = shell[EnvPath]
    <2>1. Values(Lines(shell, TestWalk), EnvPath) = {}
        BY RedirectNowhere
    <2>2. QED
        BY <1>1, <2>1, LoadEnvSets DEF Effective
<1>3. env[EnvPath] = shell[EnvPath]
    BY <1>1, <1>2 DEF Agree
<1>4. Lines(env, TestWalk) = Lines(shell, TestWalk)
    BY <1>3 DEF Lines
<1>5. CASE Agree(env, shell)
    BY <1>1, <1>4, <1>5 DEF Agree, Effective, LoadEnv
<1>6. CASE Agree(env, Effective)
    <2>1. ASSUME NEW key \in Kept PROVE LoadEnv(env, TestWalk)[key] = Effective[key]
        <3>1. env[key] = Effective[key]
            BY <1>6 DEF Agree
        <3>2. CASE env[key] # ""
            BY <1>1, <3>1, <3>2, LoadEnvSets
        <3>3. CASE env[key] = ""
            <4>1. Values(Lines(shell, TestWalk), key) = {}
                BY <1>1, <3>1, <3>3, LoadEnvSets DEF Effective
            <4>2. QED
                BY <1>1, <1>4, <3>1, <4>1, LoadEnvSets
        <3>4. QED
            BY <3>2, <3>3
    <2>2. QED
        BY <2>1 DEF Agree
<1>7. QED
    BY <1>5, <1>6

\* Environments that agree lead to the same configuration, images and migrations.
LEMMA AgreeingResults ==
    ASSUME NEW e, NEW f, Agree(e, f)
    PROVE  /\ \A walk : ReadConfig(e, walk) = ReadConfig(f, walk)
           /\ \A name \in Names : /\ GetLocalImage(e, name) = GetLocalImage(f, name)
                                  /\ \A config : GetImage(config, e, name) = GetImage(config, f, name)
           /\ Migrations(e) = Migrations(f)
<1>1. e[ConfigPath] = f[ConfigPath]
    BY SettingsOfNames DEF Agree, Kept
<1>2. \A name \in Names : e[ImageOf(name)] = f[ImageOf(name)]
    BY SettingsOfNames DEF Agree, Kept
<1>3. \A app \in Apps : GetLocalRepoDir(e, Kebab(Database(app))) = GetLocalRepoDir(f, Kebab(Database(app)))
    BY SettingsOfNames DEF Agree, Kept, GetLocalRepoDir
<1>4. Migrations(e) = Migrations(f)
    BY <1>3 DEF Migrations
<1>5. QED
    BY <1>1, <1>2, <1>4 DEF ReadConfig, GetLocalImage, GetImage

FilesDecide ==
    Unaltered =>
        /\ Agree(environ, shell) \/ Agree(environ, Effective)
        /\ phase \in {"provision", "apps", "ready"} =>
              Agree(environ, Effective) /\ cfg = TheConfig /\ TheConfig # Failed
        /\ phase \in {"idle", "inspect", "load", "provision"} => images = NothingRuns
        /\ images # NothingRuns => Agree(environ, Effective)
        /\ \A name \in Names : images[name] \in {"", TheImage(name)}
        /\ phase \in {"apps", "ready"} =>
              /\ migrated = Migrations(Effective)
              /\ \A name \in Backings \cup {Flyway} : images[name] = TheImage(name)
        /\ earlier \subseteq {TheEnvironment}

LEMMA FilesDecideIsInvariant == Spec => []FilesDecide
<1>1. Init => FilesDecide
    BY DEF Init, FilesDecide, NothingRuns, Agree
<1>2. ASSUME TypeOK, FilesDecide, [Next]_vars PROVE FilesDecide'
    <2> SUFFICES ASSUME Unaltered' PROVE FilesDecide'
        BY DEF FilesDecide
    <2>1. UNCHANGED files
        <3>1. edits' = 0 /\ edits \in Nat
            BY <1>2, BoundsAssumption DEF Unaltered, TypeOK
        <3>2. \A place \in Places : ~EditEnvFile(place) /\ ~EditConfigFile(place)
            BY <3>1 DEF EditEnvFile, EditConfigFile
        <3>3. QED
            BY <1>2, <3>2 DEF Next, Begin, Inspect, LoadConfig, Provision, StartService,
               Ready, StartFails, PullImages, vars
    <2>2. Unaltered /\ Effective' = Effective /\ TheConfig' = TheConfig
          /\ TheEnvironment' = TheEnvironment /\ (\A name : TheImage(name)' = TheImage(name))
          /\ shell' = shell /\ Migrations(Effective)' = Migrations(Effective)
        BY <2>1 DEF files, Unaltered, Redirected, Effective, TheConfig, TheEnvironment, TheImage,
           LoadEnv, Lines, ReadConfig, Migrations
    <2>3. FilesOK /\ environ \in Environments /\ shell \in Environments
        BY <1>2, ShellsAssumption DEF TypeOK, FilesOK, Environments
    <2>4. Agree(LoadEnv(environ, TestWalk), Effective)
        BY <1>2, <2>2, <2>3, LoadAgrees DEF FilesDecide, Unaltered
    <2> USE DEF FilesDecide
    <2>5. CASE Begin
        <3> DEFINE quiet == [environ EXCEPT ![RyukDisabled] = "true"]
        <3>1. quiet \in Environments /\ Agree(quiet, environ)
            BY <2>3, TextAssumption DEF Environments, Agree, Kept
        <3>2. Agree(quiet, shell) \/ Agree(quiet, Effective)
            BY <1>2, <2>2, <3>1 DEF Agree
        <3>3. Agree(LoadEnv(quiet, TestWalk), Effective)
            BY <2>2, <2>3, <3>1, <3>2, LoadAgrees DEF Unaltered
        <3> HIDE DEF quiet
        <3>4. environ' \in {quiet, LoadEnv(quiet, TestWalk)}
            BY <2>5 DEF Begin, quiet
        <3>5. Agree(environ', shell) \/ Agree(environ', Effective)
            BY <3>2, <3>3, <3>4
        <3>6. QED
            BY <1>2, <2>2, <2>5, <3>5 DEF Begin, NothingRuns, Agree
    <2>6. CASE Inspect
        <3>1. Agree(environ', environ)
            BY <2>3, <2>6 DEF Inspect, Agree, Kept, Environments
        <3>2. Agree(environ', shell) \/ Agree(environ', Effective)
            BY <1>2, <2>2, <3>1 DEF Agree
        <3>3. QED
            BY <1>2, <2>2, <2>6, <3>2 DEF Inspect, provisioned, Agree
    <2>7. CASE LoadConfig
        <3>1. Agree(environ', Effective) /\ cfg' = TheConfig
            BY <2>2, <2>4, <2>7, AgreeingResults DEF LoadConfig, TheConfig
        <3>2. QED
            BY <1>2, <2>2, <2>7, <3>1 DEF LoadConfig, Agree
    <2>8. CASE Provision
        <3>1. Agree(environ, Effective) /\ cfg = TheConfig /\ TheConfig # Failed
            BY <1>2, <2>2, <2>8 DEF Provision
        <3>2. migrated' = Migrations(Effective)
            BY <2>8, <3>1, AgreeingResults DEF Provision
        <3>3. \A name \in Names : images'[name] = IF name \in Apps THEN "" ELSE TheImage(name)
            <4>1. \A name \in Apps : name \notin Backings /\ name # Flyway
                BY NamesAssumption
            <4>2. \A name \in Names : /\ GetImage(cfg, environ, name) = GetImage(cfg, Effective, name)
                                     /\ GetImage(Failed, environ, name) = GetImage(Failed, Effective, name)
                BY <3>1, AgreeingResults
            <4>3. QED
                BY <2>8, <3>1, <3>2, <4>1, <4>2 DEF Provision, TheImage, Names
        <3>4. \A name \in Backings \cup {Flyway} : name \in Names /\ name \notin Apps
            BY NamesAssumption DEF Names
        <3>5. QED
            BY <1>2, <2>2, <2>8, <3>1, <3>2, <3>3, <3>4 DEF Provision, Agree
    <2>9. ASSUME NEW app \in Apps, StartService(app) PROVE FilesDecide'
        <3>1. Agree(environ', Effective)
            BY <2>4, <2>9 DEF StartService
        <3>2. ReadConfig(environ', TestWalk) = TheConfig /\ TheConfig # Failed
            BY <1>2, <2>2, <2>9, <3>1, AgreeingResults DEF StartService, TheConfig
        <3>3. app \in Names /\ app \notin Backings /\ app # Flyway
            BY NamesAssumption DEF Names
        <3>4. GetLocalImage(environ', app) = TheImage(app)
            BY <3>1, <3>3, AgreeingResults DEF TheImage
        <3>5. images' = [images EXCEPT ![app] = TheImage(app)] /\ images \in [Names -> Text]
            BY <1>2, <2>2, <2>9, <3>2, <3>4 DEF StartService, TypeOK, ReadConfig, Lines
        <3>6. \A name \in Names : images'[name] = IF name = app THEN TheImage(app) ELSE images[name]
            BY <3>3, <3>5
        <3>7. phase = "apps" /\ phase' = "apps" /\ UNCHANGED <<cfg, migrated, earlier>>
            BY <2>9 DEF StartService
        <3>8. /\ cfg = TheConfig /\ migrated = Migrations(Effective)
              /\ earlier \subseteq {TheEnvironment}
              /\ \A name \in Backings \cup {Flyway} : images[name] = TheImage(name)
              /\ \A name \in Names : images[name] \in {"", TheImage(name)}
            BY <1>2, <2>2, <3>7
        <3>9. \A name \in Backings \cup {Flyway} : name \in Names
            BY DEF Names
        <3>10. /\ \A name \in Backings \cup {Flyway} : images'[name] = TheImage(name)
               /\ \A name \in Names : images'[name] \in {"", TheImage(name)}
            BY <3>3, <3>6, <3>8, <3>9
        <3>11. Agree(environ, Effective)' /\ cfg' = TheConfig' /\ TheConfig' # Failed'
            BY <2>2, <3>1, <3>2, <3>7, <3>8 DEF Agree, Failed, NoImages
        <3>12. QED
            BY <2>2, <3>7, <3>8, <3>10, <3>11
    <2>10. CASE Ready
        <3>1. \A name \in Names : images[name] = TheImage(name)
            BY <1>2, <2>2, <2>10 DEF Ready, Names
        <3>2. images = [name \in Names |-> TheImage(name)]
            BY <1>2, <3>1 DEF TypeOK
        <3>3. migrated = Migrations(Effective)
            BY <1>2, <2>2, <2>10 DEF Ready
        <3>4. earlier' \subseteq {TheEnvironment}
            BY <1>2, <2>2, <2>10, <3>2, <3>3 DEF Ready, TheEnvironment
        <3>5. QED
            BY <1>2, <2>2, <2>10, <3>4 DEF Ready, provisioned, Agree
    <2>11. CASE StartFails
        BY <1>2, <2>2, <2>11 DEF StartFails, provisioned, Agree
    <2>12. CASE UNCHANGED <<environ, phase, provisioned, earlier>>
        BY <1>2, <2>2, <2>12 DEF provisioned, Agree
    <2>13. QED
        BY <1>2, <2>1, <2>5, <2>6, <2>7, <2>8, <2>9, <2>10, <2>11, <2>12
           DEF Next, PullImages, EditEnvFile, EditConfigFile, vars
<1>3. QED
    BY <1>1, <1>2, ConfigTypes, PTL DEF Spec

\* Unless a file is edited or names another .env, a service runs the image that
\* its variable names and not the default of a failed load (runner.go:24).
THEOREM AppImagesHonoured == Spec => []AppImageHonoured
<1>1. TypeOK /\ FilesDecide => AppImageHonoured
    <2> SUFFICES ASSUME TypeOK, FilesDecide, Unaltered, NEW app \in Apps, images[app] # ""
                 PROVE  images[app] = GetLocalImage(environ, app)
        BY DEF AppImageHonoured, Unaltered
    <2>1. app \in Names /\ app \notin Backings /\ app # Flyway
        BY NamesAssumption DEF Names
    <2>2. images # NothingRuns
        BY <2>1 DEF NothingRuns
    <2>3. Agree(environ, Effective) /\ images[app] = TheImage(app)
        BY <2>1, <2>2 DEF FilesDecide
    <2>4. QED
        BY <2>1, <2>3, AgreeingResults DEF TheImage
<1>2. QED
    BY <1>1, ConfigTypes, FilesDecideIsInvariant, PTL

\* Unless a file is edited or names another .env, all environments that a
\* process builds run the same images and migrations.
THEOREM AllBuildsAgree == Spec => []BuildsAgree
<1>1. FilesDecide => BuildsAgree
    <2> SUFFICES ASSUME FilesDecide, Unaltered PROVE Cardinality(earlier) <= 1
        BY DEF BuildsAgree, Unaltered
    <2>1. IsFiniteSet({TheEnvironment}) /\ Cardinality({TheEnvironment}) = 1
        BY FS_Singleton
    <2>2. earlier \subseteq {TheEnvironment}
        BY DEF FilesDecide
    <2>3. QED
        BY <2>1, <2>2, FS_Subset
<1>2. QED
    BY <1>1, FilesDecideIsInvariant, PTL

-----------------------------------------------------------------------------
(* The image puller *)

Wanted == LET config == ReadConfig(LoadEnv(shell, RootWalk), RootWalk)
          IN  {config.images[name] : name \in DOMAIN config.images}

PullerIsRight ==
    edits = 0 /\ puller = "pulled" => pulled = Wanted /\ pulled # {} /\ "" \notin pulled

LEMMA PullerIsRightIsInvariant == Spec => []PullerIsRight
<1>1. Init => PullerIsRight
    BY DEF Init, PullerIsRight
<1>2. ASSUME TypeOK, PullerIsRight, [Next]_vars PROVE PullerIsRight'
    <2>1. CASE PullImages
        <3>0. UNCHANGED files
            BY <2>1 DEF PullImages
        <3>1. Wanted' = Wanted
            BY <3>0 DEF files, Wanted, ReadConfig, LoadEnv, Lines
        <3>2. puller' = "pulled" => pulled' = Wanted /\ Wanted # {} /\ "" \notin pulled'
            BY <2>1 DEF PullImages, Wanted
        <3>3. QED
            BY <3>1, <3>2 DEF PullerIsRight
    <2>2. CASE \E place \in Places : EditEnvFile(place) \/ EditConfigFile(place)
        BY <2>2 DEF EditEnvFile, EditConfigFile, PullerIsRight
    <2>3. CASE UNCHANGED <<files, puller, pulled>>
        <3>1. Wanted' = Wanted
            BY <2>3 DEF files, Wanted, ReadConfig, LoadEnv, Lines
        <3>2. QED
            BY <1>2, <2>3, <3>1 DEF PullerIsRight, files
    <2>4. QED
        BY <1>2, <2>1, <2>2, <2>3 DEF Next, Begin, Inspect, LoadConfig, Provision,
           StartService, Ready, StartFails, vars
<1>3. QED
    BY <1>1, <1>2, ConfigTypes, PTL DEF Spec

\* With no file in the package directory both processes find the same files,
\* unless a relative path says otherwise.
LEMMA SameFiles ==
    ASSUME NEW explicit, explicit \notin DOMAIN Relative, NEW present, "package" \notin present
    PROVE  Find(explicit, present, TestWalk) = Find(explicit, present, RootWalk)
<1>1. /\ DOMAIN TestWalk = {1, 2} /\ TestWalk[1] = "package" /\ TestWalk[2] = "root"
      /\ DOMAIN RootWalk = {1} /\ RootWalk[1] = "root"
    BY DEF TestWalk, RootWalk
<1>2. First({2}) = 2 /\ First({1}) = 1
    BY DEF First
<1>3. CASE "root" \in present
    <2>1. {i \in DOMAIN TestWalk : TestWalk[i] \in present} = {2}
        BY <1>1, <1>3
    <2>2. {i \in DOMAIN RootWalk : RootWalk[i] \in present} = {1}
        BY <1>1, <1>3
    <2>3. QED
        BY <1>1, <1>2, <2>1, <2>2 DEF Find, Opened
<1>4. CASE "root" \notin present
    <2>1. {i \in DOMAIN TestWalk : TestWalk[i] \in present} = {}
        BY <1>1, <1>4
    <2>2. {i \in DOMAIN RootWalk : RootWalk[i] \in present} = {}
        BY <1>1, <1>4
    <2>3. QED
        BY <2>1, <2>2 DEF Find, Opened
<1>5. QED
    BY <1>3, <1>4

\* An image the puller has pulled for a backing service is the one the tests use.
LEMMA BackingsArePulled ==
    ASSUME FilesOK, shell \in Environments, OnePlace,
           \A key \in {EnvPath, ConfigPath} : Effective[key] \notin DOMAIN Relative,
           pulled = Wanted, pulled # {}, "" \notin pulled, NEW name \in Backings
    PROVE  TheImage(name) \in pulled
<1>1. LoadEnv(shell, RootWalk) = Effective
    <2>1. shell[EnvPath] \notin DOMAIN Relative
        <3>1. shell[EnvPath] # "" => Effective[EnvPath] = shell[EnvPath]
            BY LoadEnvSets, SettingsOfNames DEF Effective
        <3>2. QED
            BY <3>1, RelativeAssumption
    <2>2. Lines(shell, RootWalk) = Lines(shell, TestWalk)
        BY <2>1, SameFiles DEF OnePlace, Lines
    <2>3. QED
        BY <2>2 DEF Effective, LoadEnv
<1>2. ReadConfig(Effective, RootWalk) = TheConfig
    BY SameFiles DEF OnePlace, TheConfig, ReadConfig
<1>3. pulled = {TheConfig.images[n] : n \in DOMAIN TheConfig.images}
    BY <1>1, <1>2 DEF Wanted
<1>4. DOMAIN TheConfig.images # {}
    BY <1>3
<1>5. name \in DOMAIN TheConfig.images
    <2>1. name \in DOMAIN DefaultConfig.images
        BY DEF DefaultConfig
    <2>2. DOMAIN Failed.images = {}
        BY DEF Failed, NoImages
    <2>3. \A place \in DOMAIN configFile :
              LET merged == Merged(configFile[place])
              IN  DOMAIN merged.images = {} \/ name \in DOMAIN merged.images
        BY <2>1 DEF Merged, NoImages
    <2>4. \/ TheConfig = DefaultConfig \/ TheConfig = Failed
          \/ \E place \in DOMAIN configFile : TheConfig = Merged(configFile[place])
        BY DEF TheConfig, ReadConfig
    <2>5. QED
        BY <1>4, <2>1, <2>2, <2>3, <2>4
<1>6. TheConfig.images[name] \in pulled /\ TheConfig.images[name] # ""
    BY <1>3, <1>5
<1>7. QED
    BY <1>5, <1>6 DEF TheImage, GetImage

\* `make pull-images' that ended well has pulled every image that the backing
\* services of the tests run, unless files were edited, redirected, put into the
\* package or named by a relative path (pull-images/main.go:26-47,
\* builder.go:120-266).
THEOREM PullingSuffices == Spec => []PulledImagesSuffice
<1>1. TypeOK /\ FilesDecide /\ PullerIsRight => PulledImagesSuffice
    <2> SUFFICES ASSUME TypeOK, FilesDecide, PullerIsRight, Unaltered, OnePlace, Absolute,
                        puller = "pulled", NEW name \in Backings, images[name] # ""
                 PROVE  images[name] \in pulled
        BY DEF PulledImagesSuffice, Unaltered
    <2>1. images[name] = TheImage(name)
        BY DEF FilesDecide, Names
    <2>2. images # NothingRuns
        BY DEF NothingRuns, Names
    <2>3. Agree(environ, Effective)
        BY <2>2 DEF FilesDecide
    <2>4. \A key \in {EnvPath, ConfigPath} : Effective[key] \notin DOMAIN Relative
        BY <2>3, SettingsOfNames DEF Agree, Absolute, Kept
    <2>5. FilesOK /\ shell \in Environments
        BY ShellsAssumption DEF TypeOK, FilesOK, Environments
    <2>6. QED
        BY <2>1, <2>4, <2>5, BackingsArePulled DEF PullerIsRight, Unaltered
<1>2. QED
    BY <1>1, ConfigTypes, FilesDecideIsInvariant, PullerIsRightIsInvariant, PTL
=============================================================================
