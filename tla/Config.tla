------------------------------- MODULE Config -------------------------------
(***************************************************************************)
(* The command line: main's initConfig, the loop of parseArguments with    *)
(* the setters of FileResponse it calls, and CheckConfigs.  An argument is *)
(* a name; Option, Number and Path say what it reads as.                   *)
(***************************************************************************)
EXTENDS Integers, Sequences

CONSTANTS
  CommandLines,  (* sequences of arguments, without the program's name     *)
  Option,   (* argument -> the option it is, "-i" ..., or "none"           *)
  Number,   (* argument -> the number %hu reads before it is cut to 16     *)
            (* bits, -1 when there is none                                 *)
  Path,     (* argument -> [name, length, slashes at its end], as a path   *)
  Cwds,     (* the working directories, paths                              *)
  Existing, (* the names of paths that exist                               *)
  Scraps    (* what the bytes of a path, and the zero behind it, leave in  *)
            (* an integer they are written over                            *)

NoArg == "null"
Arguments == DOMAIN Option
IsPath(path) ==
  /\ DOMAIN path = {"name", "length", "slashes"}
  /\ path.length \in Nat /\ path.slashes \in 0 .. path.length

ASSUME ConfigAssumption ==
  /\ CommandLines \subseteq Seq(Arguments)
  /\ NoArg \notin Arguments
  /\ \A a \in Arguments :
       /\ Option[a] \in {"-i", "-o", "-d", "-p", "-t", "none"}
       /\ Number[a] \in Nat \cup {-1}
       /\ IsPath(Path[a])
  /\ \A path \in Cwds : IsPath(path)
  /\ Scraps \subseteq Int

(* SinkConfig: httpFilePath has room for 128 bytes, the port lies behind   *)
(* it, the term four bytes further, then two counters, then the end.       *)
PortAt == 128
TermAt == 132
EndAt == 144

VARIABLES
  argv, argi,  (* the arguments and parseArguments' i                      *)
  cwd,
  sConfig,
  outcome      (* "parsing", "refused" (main returns 1), "ended" (with     *)
               (* success), "parsed", "aborted" (assert), "serving", or    *)
               (* "overrun": what lies behind sConfig is written over, and *)
               (* what becomes of the process is not followed              *)

configVars == <<argv, argi, cwd, sConfig, outcome>>

(* initConfig and the constructor of FileResponse.                         *)
NoPath == [name |-> "", length |-> 0, slashes |-> 0]
Defaults ==
  [inputURL |-> NoArg, outputID |-> NoArg, httpFilePath |-> NoPath,
   httpPort |-> 8080, httpFilecheckterm |-> 1000]

ConfigInit ==
  /\ argv \in CommandLines /\ argi = 1
  /\ cwd \in Cwds
  /\ sConfig = Defaults
  /\ outcome = "parsing"

(* One slash at the end is cut off.  Of an empty path the byte before it   *)
(* is read, the top one of the pointer outputID, which is 0.               *)
Root(path) ==
  IF path.slashes = 0 THEN path ELSE [path EXCEPT !.length = @ - 1, !.slashes = @ - 1]

(* strcpy writes a path of 128 bytes or more over the fields behind it.    *)
Copied(path, at, field) == IF path.length < at THEN {field} ELSE Scraps
SetRootPath(c, path, port, term) ==
  [c EXCEPT !.httpFilePath = Root(path), !.httpPort = port % 65536,
            !.httpFilecheckterm = term]

(* getcwd leaves the buffer alone when the directory does not fit.         *)
SetRootToCwd(c) ==
  [c EXCEPT !.httpFilePath = Root(IF cwd.length < PortAt THEN cwd ELSE @)]

(* A field that is set changes a path that runs over it.                   *)
Under(path, at) == IF path.length < at THEN path ELSE [path EXCEPT !.name = "spoilt"]

(* Mutant: the term is taken as it is given.                               *)
SetFileTermUnbounded(c, term) ==
  [c EXCEPT !.httpFilecheckterm = term, !.httpFilePath = Under(@, TermAt)]

SetFileTermMS(c, term) ==
  [c EXCEPT !.httpFilecheckterm = IF term < 1000 THEN 1000 ELSE term,
            !.httpFilePath = Under(@, TermAt)]

SetPortNo(c, port) ==
  [c EXCEPT !.httpPort = port, !.httpFilePath = Under(@, PortAt)]

-----------------------------------------------------------------------------
(* One turn of the loop, by the option it reads. *)

Reads(option) ==
  outcome = "parsing" /\ argi <= Len(argv) /\ Option[argv[argi]] = option
Given == argi < Len(argv)
Value == argv[argi + 1]
ReadsNumber == Given /\ Number[Value] # -1

Takes(c) ==
  /\ sConfig' = c
  /\ argi' = argi + 2
  /\ UNCHANGED <<argv, cwd, outcome>>

SetInput == Reads("-i") /\ Given /\ Takes([sConfig EXCEPT !.inputURL = Value])
SetOutput == Reads("-o") /\ Given /\ Takes([sConfig EXCEPT !.outputID = Value])
SetDirectory ==
  /\ Reads("-d") /\ Given /\ Path[Value].length < EndAt
  /\ \E port \in Copied(Path[Value], PortAt, sConfig.httpPort) :
       \E term \in Copied(Path[Value], TermAt, sConfig.httpFilecheckterm) :
         Takes(SetRootPath(sConfig, Path[Value], port, term))
SetPort ==
  Reads("-p") /\ ReadsNumber /\ Takes(SetPortNo(sConfig, Number[Value] % 65536))
SetTerm ==
  Reads("-t") /\ ReadsNumber /\ Takes(SetFileTermMS(sConfig, Number[Value] % 65536))

Overrun ==
  /\ Reads("-d") /\ Given /\ Path[Value].length >= EndAt
  /\ outcome' = "overrun"
  /\ UNCHANGED <<argv, argi, cwd, sConfig>>

Refuse ==
  /\ \/ Reads("none")
     \/ (Reads("-i") \/ Reads("-o")) /\ ~Given
  /\ outcome' = "refused"
  /\ UNCHANGED <<argv, argi, cwd, sConfig>>

EndProcess ==
  /\ \/ Reads("-d") /\ ~Given
     \/ (Reads("-p") \/ Reads("-t")) /\ ~ReadsNumber
  /\ outcome' = "ended"
  /\ UNCHANGED <<argv, argi, cwd, sConfig>>

(* After the loop.                                                         *)
ArgumentsEnd ==
  /\ outcome = "parsing" /\ argi > Len(argv)
  /\ sConfig' = IF sConfig.httpFilePath.length < 6 THEN SetRootToCwd(sConfig)
                ELSE sConfig
  /\ outcome' = IF NoArg \in {sConfig.inputURL, sConfig.outputID} THEN "refused"
                ELSE "parsed"
  /\ UNCHANGED <<argv, argi, cwd>>

(* Called once input and output are open.                                  *)
CheckConfigs ==
  /\ outcome = "parsed"
  /\ outcome' = IF /\ sConfig.httpFilePath.length >= 6
                   /\ sConfig.httpFilePath.name \in Existing
                   /\ sConfig.httpPort > 30
                THEN "serving" ELSE "aborted"
  /\ UNCHANGED <<argv, argi, cwd, sConfig>>

ConfigNext ==
  \/ SetInput \/ SetOutput \/ SetDirectory \/ SetPort \/ SetTerm \/ Overrun
  \/ Refuse \/ EndProcess \/ ArgumentsEnd \/ CheckConfigs

-----------------------------------------------------------------------------
(* Properties *)

(* The options read before position n, and the value of the last of a kind.*)
Said(option, n) == {i \in 1 .. n - 1 : i % 2 = 1 /\ Option[argv[i]] = option}
Latest(option, n) ==
  argv[1 + CHOOSE i \in Said(option, n) : \A j \in Said(option, n) : j <= i]

(* Every path that ran over a field was followed by an option that set it. *)
Spared(option, at, n) ==
  \A i \in Said("-d", n) :
    Path[argv[i + 1]].length >= at => \E j \in Said(option, n) : j > i

(* A command line that brings the service up has named an input and an     *)
(* output, whatever order, repetitions and wrapped numbers it is made of,  *)
(* and what it leaves behind is what the last option of each kind said:    *)
(* a port above 30 that was asked for (modulo 65536) or is the default, a  *)
(* term of at least a second, unless a root of 128 characters or more was  *)
(* copied over the port or the term after it was said; and a root of 6 or  *)
(* more characters, the one given last if it fits, unless that is shorter, *)
(* and then the working directory, which must fit too.                     *)
ConfigChecked ==
  outcome = "serving" =>
    LET n == Len(argv)
        given(option) == Said(option, n) # {}
        root == IF given("-d") THEN Root(Path[Latest("-d", n)]) ELSE NoPath
    IN  /\ given("-i") /\ sConfig.inputURL = Latest("-i", n)
        /\ given("-o") /\ sConfig.outputID = Latest("-o", n)
        /\ sConfig.httpPort > 30 /\ sConfig.httpPort < 65536
        /\ Spared("-p", PortAt, n) =>
             sConfig.httpPort = IF given("-p") THEN Number[Latest("-p", n)] % 65536 ELSE 8080
        /\ Spared("-t", TermAt, n) =>
             /\ sConfig.httpFilecheckterm >= 1000 /\ sConfig.httpFilecheckterm < 65536
             /\ given("-t") =>
                  sConfig.httpFilecheckterm \in {1000, Number[Latest("-t", n)] % 65536}
             /\ ~given("-t") => sConfig.httpFilecheckterm = 1000
        /\ sConfig.httpFilePath.length >= 6
        /\ root.length < 6 => cwd.length < PortAt /\ sConfig.httpFilePath.name = cwd.name
        /\ root.length >= 6 /\ root.length < PortAt =>
             sConfig.httpFilePath.name = root.name
=============================================================================
