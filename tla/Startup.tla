------------------------------ MODULE Startup -------------------------------
(* main and Initialize: the command line is scanned twice, for the flags of  *)
(* system.cc and for the commands of main.cc, and between the two scans the  *)
(* global objects are made.  What is compiled in depends on the build.       *)
EXTENDS Integers, Sequences, FiniteSets, SequencesExt

CONSTANTS Builds,        \* directories in which nachos is built
          MaxWords       \* flags on a command line

VARIABLES build, line,   \* the build; the flags of the command line, as they were meant
          argv, phase,   \* the arguments left to scan; where main is
          settings,      \* what Initialize took from the command line
          objects,       \* the global objects that exist
          toCreate,      \* and those still to make
          misused,       \* objects that were used before they existed
          ran            \* the commands main has carried out

vars == <<build, line, argv, phase, settings, objects, toCreate, misused, ran>>

\* The DEFINES of the makefiles.
Defines == [threads  |-> {"THREADS"},
            userprog |-> {"USER_PROGRAM", "FILESYS_NEEDED", "FILESYS_STUB", "VM"},
            vm       |-> {"USER_PROGRAM", "FILESYS_NEEDED", "FILESYS_STUB", "VM"},
            filesys  |-> {"THREADS", "USER_PROGRAM", "VM", "FILESYS_NEEDED", "FILESYS"},
            network  |-> {"USER_PROGRAM", "VM", "FILESYS_NEEDED", "FILESYS", "NETWORK"}]
Has(d) == d \in Defines[build] \cup {"always"}

\* The usage: every flag with the number of its arguments.
Usage == {<<"-d", 1>>, <<"-rs", 1>>, <<"-z", 0>>, <<"-s", 0>>, <<"-x", 1>>, <<"-c", 2>>, <<"-f", 0>>, <<"-cp", 2>>,
          <<"-p", 1>>, <<"-r", 1>>, <<"-l", 0>>, <<"-D", 0>>, <<"-t", 0>>, <<"-n", 1>>, <<"-m", 1>>, <<"-o", 1>>}
Words(c) == <<c[1]>> \o [k \in 1 .. c[2] |-> "word"]

\* What Initialize and main look for: flag, arguments, and what it is under.
InitializeFlags ==
    {<<"-d", 1, "always">>, <<"-rs", 1, "always">>, <<"-s", 0, "USER_PROGRAM">>, <<"-f", 0, "FILESYS_NEEDED">>,
     <<"-l", 1, "NETWORK">>, <<"-m", 1, "NETWORK">>}
MainCommands ==
    {<<"-z", 0, "always">>, <<"-x", 1, "USER_PROGRAM">>, <<"-c", 2, "USER_PROGRAM">>, <<"-cp", 2, "FILESYS">>,
     <<"-p", 1, "FILESYS">>, <<"-r", 1, "FILESYS">>, <<"-l", 0, "FILESYS">>, <<"-D", 0, "FILESYS">>, <<"-t", 0, "FILESYS">>,
     <<"-o", 1, "NETWORK">>}

\* The objects in the order in which Initialize makes them: name, what it is
\* under, and the objects its constructor calls.  The stub of the file system
\* does not look at itself.
Constructors ==
    <<<<"stats", "always", {}>>, <<"interrupt", "always", {}>>, <<"scheduler", "always", {}>>,
      <<"timer", "rs", {"interrupt", "stats"}>>, <<"currentThread", "always", {}>>,
      <<"machine", "USER_PROGRAM", {}>>, <<"memManager", "USER_PROGRAM", {}>>, <<"procManager", "USER_PROGRAM", {}>>,
      <<"vm", "USER_PROGRAM", {"fileSystem"}>>, <<"openFileManager", "USER_PROGRAM", {}>>,
      <<"synchDisk", "FILESYS", {"interrupt"}>>, <<"fileSystem", "FILESYS_NEEDED", {"synchDisk"}>>,
      <<"postOffice", "NETWORK", {"interrupt", "scheduler", "currentThread"}>>>>

Init ==
    /\ build \in Builds
    /\ line \in UNION {[1 .. n -> Usage] : n \in 0 .. MaxWords}
    /\ argv = FlattenSeq([k \in DOMAIN line |-> Words(line[k])])
    /\ phase = "flags" /\ settings = {} /\ objects = {} /\ toCreate = Constructors
    /\ misused = {} /\ ran = <<>>
-----------------------------------------------------------------------------
\* The entries of a table that apply to the next argument.
Found(table) == {c \in table : Has(c[3]) /\ c[1] = argv[1]}
argCount(found) == IF \E c \in found : c[2] > 0 THEN 1 + (CHOOSE c \in found : c[2] > 0)[2] ELSE 1

\* One turn of the loop of Initialize.
ScanFlag ==
    /\ phase = "flags" /\ argv # <<>>
    /\ LET found == Found(InitializeFlags)
       IN  /\ settings' = settings \cup {c[1] : c \in found}
           /\ argv' = SubSeq(argv, 1 + argCount(found), Len(argv))
    /\ UNCHANGED <<build, line, phase, objects, toCreate, misused, ran>>

FlagsDone ==
    /\ phase = "flags" /\ argv = <<>> /\ phase' = "create"
    /\ UNCHANGED <<build, line, argv, settings, objects, toCreate, misused, ran>>

\* The rest of Initialize: a constructor that calls an object which is not
\* there yet ends the program.
Wanted(c) == IF c[2] = "rs" THEN "-rs" \in settings ELSE Has(c[2])
CallsOfAnyBuild(c) == c[3]
Calls(c) == IF Has("FILESYS") THEN c[3] ELSE c[3] \ {"fileSystem", "synchDisk"}

CreateNext ==
    /\ phase = "create" /\ toCreate # <<>>
    /\ LET c == Head(toCreate)
           missing == Calls(c) \ objects
       IN  IF ~Wanted(c) THEN UNCHANGED <<objects, misused, phase>>
           ELSE IF missing # {} THEN misused' = misused \cup missing /\ phase' = "crashed" /\ UNCHANGED objects
           ELSE objects' = objects \cup {c[1]} /\ UNCHANGED <<misused, phase>>
    /\ toCreate' = Tail(toCreate)
    /\ UNCHANGED <<build, line, argv, settings, ran>>

\* The arguments as main has them: with THREADS a loop over all of them comes
\* first, and argc and argv are not set back.
ThreadArguments ==
    /\ phase = "create" /\ toCreate = <<>> /\ phase' = "commands"
    /\ argv' = IF Has("THREADS") THEN <<>> ELSE FlattenSeq([k \in DOMAIN line |-> Words(line[k])])
    /\ UNCHANGED <<build, line, settings, objects, toCreate, misused, ran>>

\* One turn of the loop of main.  StartProcess returns only if the file cannot
\* be opened; the console test halts the machine.
RunCommand ==
    /\ phase = "commands" /\ argv # <<>>
    /\ LET found == Found(MainCommands)
       IN  /\ ran' = IF found = {} THEN ran ELSE Append(ran, argv[1])
           /\ phase' \in (CASE argv[1] = "-x" /\ found # {} -> {"commands", "process"}
                            [] argv[1] = "-c" /\ found # {} -> {"halted"}
                            [] OTHER -> {"commands"})
           /\ argv' = SubSeq(argv, 1 + argCount(found), Len(argv))
    /\ UNCHANGED <<build, line, settings, objects, toCreate, misused>>

FinishMain ==
    /\ phase = "commands" /\ argv = <<>> /\ phase' = "finished"
    /\ UNCHANGED <<build, line, argv, settings, objects, toCreate, misused, ran>>

\* Cleanup, when the machine halts or the user interrupts the program at any
\* point after Initialize has called CallOnUserAbort: the objects are deleted
\* one by one, some after their members have called other objects.
Destructors ==
    <<<<"postOffice", {}>>, <<"machine", {}>>, <<"memManager", {}>>, <<"procManager", {}>>, <<"vm", {"fileSystem"}>>,
      <<"fileSystem", {}>>, <<"synchDisk", {}>>, <<"timer", {}>>, <<"scheduler", {}>>, <<"interrupt", {}>>>>

Cleanup ==
    /\ \/ phase = "halted"
       \/ phase \in {"create", "commands"} /\ "currentThread" \in objects
    /\ phase' = "cleanup" /\ toCreate' = Destructors
    /\ UNCHANGED <<build, line, argv, settings, objects, misused, ran>>

DeleteNext ==
    /\ phase = "cleanup" /\ toCreate # <<>>
    /\ LET c == Head(toCreate)
       IN  /\ misused' = IF c[1] \in objects THEN misused \cup (Calls(<<c[1], "always", c[2]>>) \ objects) ELSE misused
           /\ objects' = objects \ {c[1]}
    /\ toCreate' = Tail(toCreate)
    /\ UNCHANGED <<build, line, argv, phase, settings, ran>>

Next == ScanFlag \/ FlagsDone \/ CreateNext \/ ThreadArguments \/ RunCommand \/ FinishMain \/ Cleanup \/ DeleteNext

Spec == Init /\ [][Next]_vars
-----------------------------------------------------------------------------
\* What the usage in main.cc says of each flag: the part of the system it
\* belongs to; flags of other parts are ignored.
Belongs == [f \in {"-d", "-rs", "-z"} |-> "always"] @@ [f \in {"-s", "-x", "-c"} |-> "USER_PROGRAM"]
           @@ [f \in {"-f"} |-> "FILESYS_NEEDED"] @@ [f \in {"-cp", "-p", "-r", "-l", "-D", "-t"} |-> "FILESYS"]
           @@ [f \in {"-n", "-m", "-o"} |-> "NETWORK"]
Meant == SelectSeq([k \in DOMAIN line |-> line[k][1]], LAMBDA f : Has(Belongs[f]))
Setting == {"-d", "-rs", "-s", "-f", "-n", "-m"}

\* Initialize takes its flags, and no argument of another flag for one
\* (system.cc:140).
FlagsTaken == phase # "flags" => settings = Range(Meant) \cap Setting

\* main carries out the commands that were given, each once, in their order,
\* though it scans flags and arguments it does not know word by word; all of
\* them unless one takes the machine over (main.cc:108).
CommandsRun ==
    LET commands == SelectSeq(Meant, LAMBDA f : f \notin Setting)
    IN  /\ IsPrefix(ran, commands)
        /\ phase = "finished" => ran = commands

\* No constructor calls an object that does not exist yet (system.cc:204).
CreatedBeforeUsed == misused = {}

=============================================================================
