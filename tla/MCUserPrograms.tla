----------------------------- MODULE MCUserPrograms -----------------------------
(***************************************************************************)
(* From the command line to user programs: main and Initialize, the calls  *)
(* that start and end processes, the calls on files, and the way from a    *)
(* program's call to the kernel and back, each for itself.  A behaviour is *)
(* one of the part chosen at the start; in the others the variables of     *)
(* Processes stay as Initialize leaves them.                               *)
(*                                                                         *)
(* Three processes are a process, its joiner and one that takes over a     *)
(* freed id; five ids let one Exec (three ids) and one Fork succeed and    *)
(* the next fail.  Two table entries and three slots let the table be full *)
(* before a process's file array is.  Names begin at a page's start and    *)
(* may end on the next page.                                               *)
(***************************************************************************)
EXTENDS Processes, Sequences, TLC

CONSTANTS Name, TableSize, MaxFiles, None, Null  \* OpenFiles

VARIABLES
  part,
  build, line, argv, phase, settings, objects, toCreate, misused, ran,  \* Startup
  disk, openFiles, openFileTable, fileArray, returned, stopped,         \* OpenFiles
  upc, npc, r2, args, r31, frame, asked, served, services, copy, ended  \* SystemCalls

startup == <<build, line, argv, phase, settings, objects, toCreate, misused, ran>>
files == <<disk, openFiles, openFileTable, fileArray, returned, stopped>>
calls == <<upc, npc, r2, args, r31, frame, asked, served, services, copy, ended>>
groupVars == <<part, vars, startup, files, calls>>

Symmetric == Permutations(Thread \ {Main})

\* What the theorems about Processes assume.
ASSUME GroupAssumption == ProcessesAssumption

S == INSTANCE Startup WITH Builds <- {"vm"}, MaxWords <- 3

F == INSTANCE OpenFiles WITH Process <- Thread

C == INSTANCE SystemCalls WITH
  pc <- upc, Char <- {65, 66}, PageSize <- 2, Argument <- {1, 2}, Result <- {12}

Absent == "absent"
StartupAbsent ==
  /\ build = Absent /\ line = Absent /\ argv = Absent /\ phase = Absent
  /\ settings = Absent /\ objects = Absent /\ toCreate = Absent /\ misused = Absent
  /\ ran = Absent
FilesAbsent ==
  /\ disk = Absent /\ openFiles = Absent /\ openFileTable = Absent
  /\ fileArray = Absent /\ returned = Absent /\ stopped = Absent
CallsAbsent ==
  /\ upc = Absent /\ npc = Absent /\ r2 = Absent /\ args = Absent /\ r31 = Absent
  /\ frame = Absent /\ asked = Absent /\ served = Absent /\ services = Absent
  /\ copy = Absent /\ ended = Absent

GroupInit ==
  /\ Init
  /\ \/ part = "Processes" /\ StartupAbsent /\ FilesAbsent /\ CallsAbsent
     \/ part = "Startup" /\ S!Init /\ FilesAbsent /\ CallsAbsent
     \/ part = "OpenFiles" /\ F!Init /\ StartupAbsent /\ CallsAbsent
     \/ part = "SystemCalls" /\ C!Init /\ StartupAbsent /\ FilesAbsent

GroupNext ==
  \/ part = "Processes" /\ Next /\ UNCHANGED <<part, startup, files, calls>>
  \/ part = "Startup" /\ S!Next /\ UNCHANGED <<part, vars, files, calls>>
  \/ part = "OpenFiles" /\ F!Next /\ UNCHANGED <<part, vars, startup, calls>>
  \/ part = "SystemCalls" /\ C!Next /\ UNCHANGED <<part, vars, startup, files>>

GroupSpec == GroupInit /\ [][GroupNext]_groupVars

--------------------------------------------------------------------------------

\* The program starts as its command line says: Initialize takes its flags, and no
\* argument of another flag for one; main carries out the commands, once each and in
\* their order; and no constructor and no destructor calls a global object that
\* does not exist.
StartsAsAsked ==
  part = "Startup" => S!FlagsTaken /\ S!CommandsRun /\ S!CreatedBeforeUsed

\* The kernel carries out the call that the program makes, with its arguments and
\* once, and the program goes on after the call with its result.  A descriptor that
\* Open enters for a program leads to a table entry that no later Open is given.
CallsAnswered ==
  /\ part = "SystemCalls" => C!ServedAsAsked /\ C!ReturnsToCaller
  /\ part = "OpenFiles" => F!TypeOK /\ F!DescriptorsMarked

================================================================================
