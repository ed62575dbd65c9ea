------------------------------ MODULE MCConfig ------------------------------
(* Instances of Config for TLC. *)
EXTENDS Config

Named(words) == [words |-> words, style |-> "kebab"]
Mysql == Named(<<"mysql">>)
FlywayName == Named(<<"flyway">>)
SortMistake == Named(<<"sort", "mistake">>)

OneBacking == {Mysql}
OneApp == {SortMistake}
Defaults == [name \in Names |->
                IF name = Mysql THEN "mysql:8.0"
                ELSE IF name = FlywayName THEN "flyway:11" ELSE "sort-mistake:latest"]
Siblings == [name \in Apps |-> "../sort-mistake"]

Strings == STRING

Line(key, val) == [key |-> key, val |-> val]

EnvFileContents ==
    {<<Line(ImageOf(SortMistake), ""), Line(ImageOf(SortMistake), "sort-mistake:local"),
       Line(ImageOf(SortMistake), "sort-mistake:later"),
       Line(DirOf(SortMistake), "/checkout"), Line(DockerHost, "unix:///env.sock")>>,
     <<Line(ConfigPath, "other"), Line(ImageOf(Mysql), "mysql:env"),
       Line(PodmanBin, "/env/podman")>>,
     <<Line(EnvPath, "other")>>}

File(binary, tags) == [valid |-> TRUE, bin |-> binary, noImages |-> FALSE, images |-> tags]

ConfigFileContents ==
    {[valid |-> FALSE, bin |-> "", noImages |-> FALSE, images |-> NoImages],
     [valid |-> TRUE, bin |-> "", noImages |-> TRUE, images |-> NoImages],
     File("/custom/podman", [name \in {FlywayName} |-> "flyway:custom"]),
     File("", [name \in {Mysql, SortMistake} |->
                  IF name = Mysql THEN "mysql:custom" ELSE "sort-mistake:config"])}

Empty == [key \in Settings |-> ""]
ShellChoices ==
    {Empty,
     [Empty EXCEPT ![DockerHost] = "unix:///shell.sock", ![ImageOf(SortMistake)] = "sort-mistake:shell"],
     [Empty EXCEPT ![ConfigPath] = "other", ![RyukDisabled] = "false"],
     [Empty EXCEPT ![ConfigPath] = "./here"],
     [Empty EXCEPT ![EnvPath] = "./here"]}

\* A path that means a file in whatever directory it is used.
Beside == [path \in {"./here"} |-> [directory \in {"package", "root"} |-> directory]]

OneCheckout == {<<"package", "/checkout">>}
=============================================================================
