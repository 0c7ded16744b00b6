----------------------------- MODULE InputProofs ----------------------------
(***************************************************************************)
(* What a player and an operator may write.  What a command line of any    *)
(* length leaves in sConfig, with roots that fit and roots that run over   *)
(* the fields behind them, and that the path of a request, of any length   *)
(* and however it is escaped, comes through the three loops that take it   *)
(* apart with the segments it had before its first zero byte.              *)
(***************************************************************************)
EXTENDS Config, HttpPath, Iteration, SequenceTheorems, TLAPS

-----------------------------------------------------------------------------
(* The command line *)

ConfigSpec == ConfigInit /\ [][ConfigNext]_configVars

(* What is known of sConfig before the option at argi is read.             *)
Named(option) == IF Said(option, argi - 1) = {} THEN NoArg ELSE Latest(option, argi - 1)
PortSaid ==
  IF Said("-p", argi - 1) = {} THEN 8080 ELSE Number[Latest("-p", argi - 1)] % 65536
TermSaid ==
  IF Said("-t", argi - 1) = {} THEN 1000
  ELSE LET term == Number[Latest("-t", argi - 1)] % 65536
       IN  IF term < 1000 THEN 1000 ELSE term
RootSaid ==
  IF Said("-d", argi - 1) = {} THEN NoPath ELSE Root(Path[Latest("-d", argi - 1)])

ConfigFields == {"inputURL", "outputID", "httpFilePath", "httpPort", "httpFilecheckterm"}

Follows ==
  /\ DOMAIN sConfig = ConfigFields
  /\ sConfig.inputURL = Named("-i")
  /\ sConfig.outputID = Named("-o")
  /\ sConfig.httpPort \in Nat /\ sConfig.httpPort < 65536
  /\ Spared("-p", PortAt, argi - 1) => sConfig.httpPort = PortSaid
  /\ Spared("-t", TermAt, argi - 1) => sConfig.httpFilecheckterm = TermSaid

(* The root that was said last, but for its name once a field that lies    *)
(* under it has been set.                                                  *)
RootFollows ==
  /\ DOMAIN sConfig.httpFilePath = {"name", "length", "slashes"}
  /\ RootSaid.length \in Nat /\ sConfig.httpFilePath.length = RootSaid.length
  /\ RootSaid.length < PortAt => sConfig.httpFilePath = RootSaid

(* The position is that of an option; the end of the loop decides the root *)
(* and lets only a command line with an input and an output go on.         *)
ConfigInv ==
  /\ argv \in Seq(Arguments)
  /\ argi \in Nat /\ argi >= 1 /\ argi % 2 = 1
  /\ outcome = "parsing" => argi <= Len(argv) + 1
  /\ cwd \in Cwds
  /\ Follows
  /\ outcome = "parsing" => RootFollows
  /\ outcome \in {"parsed", "serving"} =>
       /\ argi = Len(argv) + 1
       /\ sConfig.inputURL # NoArg /\ sConfig.outputID # NoArg
       /\ RootSaid.length < 6 =>
            sConfig.httpFilePath = Root(IF cwd.length < PortAt THEN cwd ELSE RootSaid)
       /\ RootSaid.length >= 6 /\ RootSaid.length < PortAt =>
            sConfig.httpFilePath = RootSaid
  /\ outcome = "serving" =>
       sConfig.httpFilePath.length >= 6 /\ sConfig.httpPort > 30

LEMMA InitConfigInv == ConfigInit => ConfigInv
<1> SUFFICES ASSUME ConfigInit PROVE ConfigInv
  OBVIOUS
<1>1. /\ argi = 1 /\ argi % 2 = 1 /\ outcome = "parsing"
      /\ argv \in Seq(Arguments) /\ Len(argv) \in Nat /\ cwd \in Cwds
  BY ConfigAssumption DEF ConfigInit
<1>2. \A option : Said(option, argi - 1) = {}
  BY <1>1 DEF Said
<1>3. Follows
  BY <1>2 DEF ConfigInit, Follows, Named, PortSaid, TermSaid, Defaults, ConfigFields
<1>4. RootFollows
  BY <1>2 DEF ConfigInit, RootFollows, RootSaid, Defaults, NoPath
<1> QED
  BY <1>1, <1>3, <1>4 DEF ConfigInv

(* One more option and its value.                                          *)
LEMMA OneMoreSaid ==
  ASSUME NEW n \in Nat, n % 2 = 1, NEW option
  PROVE  /\ Option[argv[n]] # option => Said(option, n + 1) = Said(option, n - 1)
         /\ Option[argv[n]] = option =>
              /\ Said(option, n + 1) = Said(option, n - 1) \cup {n}
              /\ Latest(option, n + 1) = argv[n + 1]
<1>1. \A i \in Int : i \in 1 .. (n + 1) - 1 /\ i % 2 = 1
                     <=> (i \in 1 .. (n - 1) - 1 /\ i % 2 = 1) \/ i = n
  OBVIOUS
<1>2. Option[argv[n]] # option => Said(option, n + 1) = Said(option, n - 1)
  BY <1>1 DEF Said
<1>3. ASSUME Option[argv[n]] = option
      PROVE  /\ Said(option, n + 1) = Said(option, n - 1) \cup {n}
             /\ Latest(option, n + 1) = argv[n + 1]
  <2>1. Said(option, n + 1) = Said(option, n - 1) \cup {n}
    BY <1>1, <1>3 DEF Said
  <2>2. \A i \in Said(option, n + 1) : i \in Int /\ i <= n
    BY DEF Said
  <2>3. (CHOOSE i \in Said(option, n + 1) : \A j \in Said(option, n + 1) : j <= i) = n
    BY <2>1, <2>2
  <2>4. Latest(option, n + 1) = argv[1 + n]
    BY <2>3 DEF Latest
  <2> QED
    BY <2>1, <2>4
<1> QED
  BY <1>2, <1>3

(* A field is spared unless the path that is copied next runs over it.     *)
LEMMA OneMoreSpared ==
  ASSUME NEW n \in Nat, n % 2 = 1, NEW option, option # "-d", NEW at
  PROVE  /\ Option[argv[n]] \notin {option, "-d"} =>
              Spared(option, at, n + 1) = Spared(option, at, n - 1)
         /\ Option[argv[n]] = "-d" /\ Spared(option, at, n + 1) =>
              Spared(option, at, n - 1) /\ ~(Path[argv[n + 1]].length >= at)
<1>1. /\ Option[argv[n]] # "-d" => Said("-d", n + 1) = Said("-d", n - 1)
      /\ Option[argv[n]] # option => Said(option, n + 1) = Said(option, n - 1)
      /\ Option[argv[n]] = "-d" => Said("-d", n + 1) = Said("-d", n - 1) \cup {n}
  BY OneMoreSaid
<1>2. CASE Option[argv[n]] \notin {option, "-d"}
  BY <1>1, <1>2 DEF Spared
<1>3. CASE Option[argv[n]] = "-d" /\ Spared(option, at, n + 1)
  <2>1. Spared(option, at, n - 1)
    BY <1>1, <1>3 DEF Spared
  <2>2. ASSUME Path[argv[n + 1]].length >= at PROVE FALSE
    <3>1. PICK j \in Said(option, n - 1) : j > n
      BY <1>1, <1>3, <2>2 DEF Spared
    <3> QED
      BY <3>1 DEF Said
  <2> QED
    BY <1>3, <2>1, <2>2
<1> QED
  BY <1>2, <1>3

LEMMA Cut16 == \A k \in Int : k % 65536 \in Nat /\ k % 65536 < 65536
OBVIOUS

LEMMA RootIsPath ==
  ASSUME NEW path, IsPath(path)
  PROVE  IsPath(Root(path))
BY DEF IsPath, Root

(* A root is copied: what it runs over is lost, the rest is left.          *)
LEMMA CopyKeeps ==
  ASSUME NEW path, IsPath(path), DOMAIN sConfig = ConfigFields,
         sConfig.httpPort \in Nat, sConfig.httpPort < 65536,
         NEW port \in Copied(path, PortAt, sConfig.httpPort),
         NEW term \in Copied(path, TermAt, sConfig.httpFilecheckterm),
         NEW c, c = SetRootPath(sConfig, path, port, term)
  PROVE  /\ DOMAIN c = ConfigFields
         /\ c.inputURL = sConfig.inputURL /\ c.outputID = sConfig.outputID
         /\ c.httpFilePath = Root(path)
         /\ c.httpPort \in Nat /\ c.httpPort < 65536
         /\ path.length < PortAt => c.httpPort = sConfig.httpPort
         /\ path.length < TermAt => c.httpFilecheckterm = sConfig.httpFilecheckterm
<1>2. port \in Int /\ (path.length < PortAt => port = sConfig.httpPort)
  <2>1. CASE path.length < PortAt
    BY <2>1 DEF Copied
  <2>2. CASE ~(path.length < PortAt)
    <3>1. Scraps \subseteq Int
      BY ConfigAssumption
    <3>2. port \in Scraps
      BY <2>2 DEF Copied
    <3> QED
      BY <2>2, <3>1, <3>2
  <2> QED
    BY <2>1, <2>2
<1>3. path.length < TermAt => term = sConfig.httpFilecheckterm
  BY DEF Copied
<1>4. port % 65536 \in Nat /\ port % 65536 < 65536
  BY <1>2, Cut16
<1>5. path.length < PortAt => port % 65536 = sConfig.httpPort
  BY <1>2
<1> DEFINE cut == port % 65536
<1>6. cut \in Nat /\ cut < 65536 /\ (path.length < PortAt => cut = sConfig.httpPort)
  BY <1>4, <1>5
<1>7. c = [sConfig EXCEPT !.httpFilePath = Root(path), !.httpPort = cut,
                          !.httpFilecheckterm = term]
  BY DEF SetRootPath
<1> HIDE DEF cut
<1> QED
  BY <1>3, <1>6, <1>7 DEF ConfigFields

(* A turn of the loop: the field its option names changes.                 *)
LEMMA TurnKeeps ==
  ASSUME ConfigInv, SetInput \/ SetOutput \/ SetDirectory \/ SetPort \/ SetTerm
  PROVE  ConfigInv'
<1> DEFINE o == Option[argv[argi]]
<1>1. /\ outcome = "parsing" /\ argi < Len(argv) /\ Len(argv) \in Nat
      /\ argi' = argi + 2 /\ UNCHANGED <<argv, cwd, outcome>>
  BY DEF ConfigInv, SetInput, SetOutput, SetDirectory, SetPort, SetTerm, Reads,
         Given, ReadsNumber, Takes
<1>2. argi' \in Nat /\ argi' >= 1 /\ argi' % 2 = 1 /\ argi' <= Len(argv') + 1
  BY <1>1 DEF ConfigInv
<1>3. argi' - 1 = argi + 1 /\ argi \in Nat /\ argi % 2 = 1
  BY <1>1 DEF ConfigInv
<1>4. ASSUME NEW option
      PROVE  /\ o # option => /\ Said(option, argi - 1)' = Said(option, argi - 1)
                              /\ Latest(option, argi - 1)' = Latest(option, argi - 1)
             /\ o = option => /\ Said(option, argi - 1)' # {}
                              /\ Latest(option, argi - 1)' = Value
  <2>1. /\ Said(option, argi - 1)' = Said(option, argi + 1)
        /\ Latest(option, argi - 1)' = Latest(option, argi + 1)
    BY <1>1, <1>3 DEF Said, Latest
  <2>2. /\ o # option => Said(option, argi + 1) = Said(option, argi - 1)
        /\ o = option =>
             /\ Said(option, argi + 1) = Said(option, argi - 1) \cup {argi}
             /\ Latest(option, argi + 1) = argv[argi + 1]
    BY <1>3, OneMoreSaid
  <2>3. o # option => Latest(option, argi + 1) = Latest(option, argi - 1)
    BY <2>2 DEF Latest
  <2> QED
    BY <2>1, <2>2, <2>3 DEF Value
<1> HIDE DEF o
<1>5. /\ o # "-i" => Named("-i")' = Named("-i")
      /\ o = "-i" => Named("-i")' = Value
      /\ o # "-o" => Named("-o")' = Named("-o")
      /\ o = "-o" => Named("-o")' = Value
  BY <1>4 DEF Named
<1>6. /\ o # "-p" => PortSaid' = PortSaid
      /\ o = "-p" => PortSaid' = Number[Value] % 65536
  BY <1>4 DEF PortSaid
<1>7. /\ o # "-t" => TermSaid' = TermSaid
      /\ o = "-t" => TermSaid' = LET term == Number[Value] % 65536
                                 IN  IF term < 1000 THEN 1000 ELSE term
  BY <1>4 DEF TermSaid
<1>8. /\ o # "-d" => RootSaid' = RootSaid
      /\ o = "-d" => RootSaid' = Root(Path[Value])
  BY <1>4 DEF RootSaid
<1>9. ASSUME NEW option, option # "-d", NEW at
      PROVE  /\ o \notin {option, "-d"} =>
                  Spared(option, at, argi - 1)' = Spared(option, at, argi - 1)
             /\ o = "-d" /\ Spared(option, at, argi - 1)' =>
                  Spared(option, at, argi - 1) /\ ~(Path[Value].length >= at)
  <2>1. Spared(option, at, argi - 1)' = Spared(option, at, argi + 1)
    BY <1>1, <1>3 DEF Spared, Said
  <2>2. /\ o \notin {option, "-d"} =>
             Spared(option, at, argi + 1) = Spared(option, at, argi - 1)
        /\ o = "-d" /\ Spared(option, at, argi + 1) =>
             Spared(option, at, argi - 1) /\ ~(Path[Value].length >= at)
    BY <1>3, <1>9, OneMoreSpared DEF o, Value
  <2> QED
    BY <2>1, <2>2
<1>10. Follows /\ RootFollows
  BY <1>1 DEF ConfigInv
<1>11. IsPath(Path[Value]) /\ Number[Value] \in Int
  <2>1. argv \in Seq(Arguments) /\ argi \in Nat
    BY DEF ConfigInv
  <2>2. argi + 1 \in 1 .. Len(argv)
    BY <1>1, <2>1
  <2>3. Value \in Arguments
    BY <2>1, <2>2 DEF Value
  <2> QED
    BY <2>3, ConfigAssumption
<1>12. ASSUME SetInput \/ SetOutput PROVE Follows' /\ RootFollows'
  <2>1. o \in {"-i", "-o"}
    BY <1>12 DEF SetInput, SetOutput, Reads, o
  <2>2. /\ UNCHANGED <<PortSaid, TermSaid, RootSaid>>
        /\ Spared("-p", PortAt, argi - 1)' = Spared("-p", PortAt, argi - 1)
        /\ Spared("-t", TermAt, argi - 1)' = Spared("-t", TermAt, argi - 1)
    BY <1>6, <1>7, <1>8, <1>9, <2>1
  <2>3. CASE SetInput
    BY <1>5, <1>10, <2>2, <2>3
       DEF SetInput, Reads, Takes, o, Follows, RootFollows, ConfigFields
  <2>4. CASE SetOutput
    BY <1>5, <1>10, <2>2, <2>4
       DEF SetOutput, Reads, Takes, o, Follows, RootFollows, ConfigFields
  <2> QED
    BY <1>12, <2>3, <2>4
<1>13. ASSUME SetDirectory PROVE Follows' /\ RootFollows'
  <2>0. PICK port \in Copied(Path[Value], PortAt, sConfig.httpPort),
             term \in Copied(Path[Value], TermAt, sConfig.httpFilecheckterm) :
          sConfig' = SetRootPath(sConfig, Path[Value], port, term)
    BY <1>13 DEF SetDirectory, Takes
  <2>1. o = "-d"
    BY <1>13 DEF SetDirectory, Reads, o
  <2>2. /\ UNCHANGED <<PortSaid, TermSaid, Named("-i"), Named("-o")>>
        /\ RootSaid' = Root(Path[Value])
    BY <1>5, <1>6, <1>7, <1>8, <2>1
  <2>3. /\ DOMAIN sConfig' = ConfigFields
        /\ sConfig'.inputURL = sConfig.inputURL /\ sConfig'.outputID = sConfig.outputID
        /\ sConfig'.httpFilePath = Root(Path[Value])
        /\ sConfig'.httpPort \in Nat /\ sConfig'.httpPort < 65536
        /\ Path[Value].length < PortAt => sConfig'.httpPort = sConfig.httpPort
        /\ Path[Value].length < TermAt =>
             sConfig'.httpFilecheckterm = sConfig.httpFilecheckterm
    <3>1. /\ DOMAIN sConfig = ConfigFields
          /\ sConfig.httpPort \in Nat /\ sConfig.httpPort < 65536
      BY <1>10 DEF Follows
    <3> QED
      BY <1>11, <2>0, <3>1, CopyKeeps
  <2>4. /\ Spared("-p", PortAt, argi - 1)' =>
             Spared("-p", PortAt, argi - 1) /\ Path[Value].length < PortAt
        /\ Spared("-t", TermAt, argi - 1)' =>
             Spared("-t", TermAt, argi - 1) /\ Path[Value].length < TermAt
    BY <1>9, <1>11, <2>1 DEF IsPath, PortAt, TermAt
  <2>5. DOMAIN Root(Path[Value]) = {"name", "length", "slashes"}
        /\ Root(Path[Value]).length \in Nat
    BY <1>11, RootIsPath DEF IsPath
  <2>6. Follows'
    BY <1>10, <2>2, <2>3, <2>4 DEF Follows
  <2>7. RootFollows'
    BY <2>2, <2>3, <2>5 DEF RootFollows
  <2> QED
    BY <2>6, <2>7
<1>14. ASSUME SetPort PROVE Follows' /\ RootFollows'
  <2>1. /\ o = "-p"
        /\ sConfig' = [sConfig EXCEPT !.httpPort = Number[Value] % 65536,
                                      !.httpFilePath = Under(@, PortAt)]
    BY <1>14 DEF SetPort, SetPortNo, Reads, Takes, o
  <2>2. /\ UNCHANGED <<TermSaid, RootSaid, Named("-i"), Named("-o")>>
        /\ PortSaid' = Number[Value] % 65536
        /\ Spared("-t", TermAt, argi - 1)' = Spared("-t", TermAt, argi - 1)
    BY <1>5, <1>6, <1>7, <1>8, <1>9, <2>1
  <2>3. Number[Value] % 65536 \in Nat /\ Number[Value] % 65536 < 65536
    BY <1>11, Cut16
  <2> DEFINE cut == Number[Value] % 65536
  <2>4. /\ sConfig' = [sConfig EXCEPT !.httpPort = cut, !.httpFilePath = Under(@, PortAt)]
        /\ cut \in Nat /\ cut < 65536 /\ PortSaid' = cut
    BY <2>1, <2>2, <2>3
  <2> HIDE DEF cut
  <2>5. Follows'
    BY <1>10, <2>2, <2>4 DEF Follows, ConfigFields
  <2>6. sConfig'.httpFilePath = Under(sConfig.httpFilePath, PortAt)
    BY <1>10, <2>4 DEF Follows, ConfigFields
  <2>7. RootFollows'
    BY <1>10, <2>2, <2>6 DEF RootFollows, Under
  <2> QED
    BY <2>5, <2>7
<1>15. ASSUME SetTerm PROVE Follows' /\ RootFollows'
  <2> DEFINE term == LET cut == Number[Value] % 65536 IN IF cut < 1000 THEN 1000 ELSE cut
  <2>1. /\ o = "-t"
        /\ sConfig' = [sConfig EXCEPT !.httpFilecheckterm = term,
                                      !.httpFilePath = Under(@, TermAt)]
    BY <1>15 DEF SetTerm, SetFileTermMS, Reads, Takes, o
  <2>2. /\ UNCHANGED <<PortSaid, RootSaid, Named("-i"), Named("-o")>>
        /\ TermSaid' = term
        /\ Spared("-p", PortAt, argi - 1)' = Spared("-p", PortAt, argi - 1)
    BY <1>5, <1>6, <1>7, <1>8, <1>9, <2>1
  <2> HIDE DEF term
  <2>3. Follows'
    BY <1>10, <2>1, <2>2 DEF Follows, ConfigFields
  <2>4. sConfig'.httpFilePath = Under(sConfig.httpFilePath, TermAt)
    BY <1>10, <2>1 DEF Follows, ConfigFields
  <2>5. RootFollows'
    BY <1>10, <2>2, <2>4 DEF RootFollows, Under, PortAt, TermAt
  <2> QED
    BY <2>3, <2>5
<1>16. Follows' /\ RootFollows'
  BY <1>12, <1>13, <1>14, <1>15
<1> QED
  BY <1>1, <1>2, <1>16 DEF ConfigInv

LEMMA EndKeeps ==
  ASSUME ConfigInv, ArgumentsEnd
  PROVE  ConfigInv'
<1>1. /\ outcome = "parsing" /\ argi > Len(argv) /\ argi <= Len(argv) + 1
      /\ Len(argv) \in Nat /\ UNCHANGED <<argv, argi, cwd>>
  BY DEF ConfigInv, ArgumentsEnd
<1>2. argi = Len(argv) + 1
  BY <1>1 DEF ConfigInv
<1>3. /\ UNCHANGED <<Named("-i"), Named("-o"), PortSaid, TermSaid, RootSaid>>
      /\ UNCHANGED <<Spared("-p", PortAt, argi - 1), Spared("-t", TermAt, argi - 1)>>
  BY <1>1 DEF Named, PortSaid, TermSaid, RootSaid, Spared, Said, Latest
<1>4. RootFollows /\ Follows
  BY <1>1 DEF ConfigInv
<1>5. /\ Follows'
      /\ RootSaid.length < 6 =>
           sConfig'.httpFilePath = Root(IF cwd.length < PortAt THEN cwd ELSE RootSaid)
      /\ RootSaid.length >= 6 /\ RootSaid.length < PortAt => sConfig'.httpFilePath = RootSaid
  <2>1. CASE RootSaid.length < 6
    <3>1. /\ sConfig.httpFilePath = RootSaid
          /\ sConfig' = [sConfig EXCEPT !.httpFilePath =
                            Root(IF cwd.length < PortAt THEN cwd ELSE @)]
      BY <1>4, <2>1 DEF ArgumentsEnd, SetRootToCwd, RootFollows, PortAt
    <3> DEFINE root == Root(IF cwd.length < PortAt THEN cwd ELSE RootSaid)
    <3>2. sConfig' = [sConfig EXCEPT !.httpFilePath = root]
      BY <3>1
    <3> HIDE DEF root
    <3>3. Follows' /\ sConfig'.httpFilePath = root
      BY <1>3, <1>4, <3>2 DEF Follows, ConfigFields
    <3> QED
      BY <1>4, <2>1, <3>3 DEF root, RootFollows
  <2>2. CASE ~(RootSaid.length < 6)
    <3>1. sConfig' = sConfig
      BY <1>4, <2>2 DEF ArgumentsEnd, RootFollows
    <3> QED
      BY <1>3, <1>4, <2>2, <3>1 DEF Follows, RootFollows
  <2> QED
    BY <2>1, <2>2
<1>6. sConfig'.inputURL = sConfig.inputURL /\ sConfig'.outputID = sConfig.outputID
  BY <1>3, <1>4, <1>5 DEF Follows
<1>7. outcome' \in {"refused", "parsed"}
      /\ (outcome' = "parsed" => sConfig.inputURL # NoArg /\ sConfig.outputID # NoArg)
  BY DEF ArgumentsEnd
<1> QED
  BY <1>1, <1>2, <1>3, <1>5, <1>6, <1>7 DEF ConfigInv

LEMMA NextConfigInv == ConfigInv /\ [ConfigNext]_configVars => ConfigInv'
<1> SUFFICES ASSUME ConfigInv, [ConfigNext]_configVars PROVE ConfigInv'
  OBVIOUS
<1>1. CASE SetInput \/ SetOutput \/ SetDirectory \/ SetPort \/ SetTerm
  BY <1>1, TurnKeeps
<1>2. CASE ArgumentsEnd
  BY <1>2, EndKeeps
<1>3. ASSUME UNCHANGED <<argv, argi, sConfig>>
      PROVE  /\ Follows' = Follows /\ RootSaid' = RootSaid /\ RootFollows' = RootFollows
  BY <1>3 DEF Follows, RootFollows, Named, PortSaid, TermSaid, RootSaid, Spared, Said, Latest
<1>4. CASE Refuse \/ EndProcess \/ Overrun
  BY <1>3, <1>4 DEF Refuse, EndProcess, Overrun, ConfigInv
<1>5. CASE CheckConfigs
  BY <1>3, <1>5 DEF CheckConfigs, ConfigInv
<1>6. CASE UNCHANGED configVars
  BY <1>3, <1>6 DEF configVars, ConfigInv
<1> QED
  BY <1>1, <1>2, <1>4, <1>5, <1>6 DEF ConfigNext

(* What was said last is the value of an option of this command line.      *)
LEMMA LatestIsArgument ==
  ASSUME argv \in Seq(Arguments), NEW option, Said(option, Len(argv)) # {}
  PROVE  Latest(option, Len(argv)) \in Arguments
<1> DEFINE S == Said(option, Len(argv))
           n == Len(argv)
<1>1. n \in Nat /\ S \subseteq 1 .. n - 1
  BY DEF Said
<1>2. \E i \in S : \A j \in S : j <= i
  <2> DEFINE T == {n - j : j \in S}
  <2>1. T \subseteq Nat /\ T # {}
    BY <1>1
  <2>2. PICK m \in T : \A l \in T : m <= l
    <3> HIDE DEF T
    <3> QED
      BY <2>1, LeastNatural
  <2>3. PICK i \in S : m = n - i
    BY <2>2
  <2>4. \A j \in S : n - i <= n - j
    BY <2>2, <2>3
  <2> QED
    BY <1>1, <2>3, <2>4
<1>3. (CHOOSE i \in S : \A j \in S : j <= i) \in S
  BY <1>2
<1> QED
  BY <1>1, <1>3 DEF Latest

LEMMA InvIsChecked == ConfigInv => ConfigChecked
<1> SUFFICES ASSUME ConfigInv PROVE outcome = "serving" => ConfigChecked
  BY DEF ConfigChecked
<1> SUFFICES ASSUME outcome = "serving" PROVE ConfigChecked
  OBVIOUS
<1> DEFINE n == Len(argv)
<1>1. /\ argi - 1 = n /\ argv \in Seq(Arguments) /\ Follows /\ cwd \in Cwds
      /\ sConfig.inputURL # NoArg /\ sConfig.outputID # NoArg
      /\ RootSaid.length < 6 =>
           sConfig.httpFilePath = Root(IF cwd.length < PortAt THEN cwd ELSE RootSaid)
      /\ RootSaid.length >= 6 /\ RootSaid.length < PortAt => sConfig.httpFilePath = RootSaid
      /\ sConfig.httpFilePath.length >= 6 /\ sConfig.httpPort > 30
  BY DEF ConfigInv
<1>2. /\ Said("-i", n) # {} /\ sConfig.inputURL = Latest("-i", n)
      /\ Said("-o", n) # {} /\ sConfig.outputID = Latest("-o", n)
  BY <1>1 DEF Follows, Named
<1>3. /\ sConfig.httpPort > 30 /\ sConfig.httpPort < 65536
      /\ Spared("-p", PortAt, n) =>
           sConfig.httpPort = IF Said("-p", n) # {} THEN Number[Latest("-p", n)] % 65536 ELSE 8080
  BY <1>1 DEF Follows, PortSaid
<1>4. Spared("-t", TermAt, n) =>
      /\ sConfig.httpFilecheckterm >= 1000 /\ sConfig.httpFilecheckterm < 65536
      /\ Said("-t", n) # {} =>
           sConfig.httpFilecheckterm \in {1000, Number[Latest("-t", n)] % 65536}
      /\ ~(Said("-t", n) # {}) => sConfig.httpFilecheckterm = 1000
  <2> SUFFICES ASSUME Spared("-t", TermAt, n)
               PROVE  /\ sConfig.httpFilecheckterm >= 1000 /\ sConfig.httpFilecheckterm < 65536
                      /\ Said("-t", n) # {} =>
                           sConfig.httpFilecheckterm \in {1000, Number[Latest("-t", n)] % 65536}
                      /\ ~(Said("-t", n) # {}) => sConfig.httpFilecheckterm = 1000
    OBVIOUS
  <2> DEFINE term == Number[Latest("-t", n)] % 65536
  <2>1. sConfig.httpFilecheckterm =
          IF Said("-t", n) = {} THEN 1000 ELSE IF term < 1000 THEN 1000 ELSE term
    BY <1>1 DEF Follows, TermSaid
  <2>2. Said("-t", n) # {} => term \in Nat /\ term < 65536
    <3>1. Said("-t", n) # {} => Number[Latest("-t", n)] \in Int
      BY <1>1, LatestIsArgument, ConfigAssumption
    <3> QED
      BY <3>1, Cut16
  <2> HIDE DEF term
  <2>3. /\ sConfig.httpFilecheckterm >= 1000 /\ sConfig.httpFilecheckterm < 65536
        /\ Said("-t", n) # {} => sConfig.httpFilecheckterm \in {1000, term}
        /\ ~(Said("-t", n) # {}) => sConfig.httpFilecheckterm = 1000
    BY <2>1, <2>2
  <2> QED
    BY <2>3 DEF term
<1>5. LET root == IF Said("-d", n) # {} THEN Root(Path[Latest("-d", n)]) ELSE NoPath
      IN  /\ root.length < 6 => cwd.length < PortAt /\ sConfig.httpFilePath.name = cwd.name
          /\ root.length >= 6 /\ root.length < PortAt => sConfig.httpFilePath.name = root.name
  <2> DEFINE root == IF Said("-d", n) # {} THEN Root(Path[Latest("-d", n)]) ELSE NoPath
  <2>1. RootSaid = root
    BY <1>1 DEF RootSaid
  <2>2. IsPath(root)
    <3>1. CASE Said("-d", n) # {}
      <4>1. IsPath(Path[Latest("-d", n)])
        BY <1>1, <3>1, LatestIsArgument, ConfigAssumption
      <4> QED
        BY <3>1, <4>1, RootIsPath
    <3>2. CASE Said("-d", n) = {}
      BY <3>2 DEF NoPath, IsPath
    <3> QED
      BY <3>1, <3>2
  <2> HIDE DEF root
  <2>3. ASSUME root.length < 6 PROVE cwd.length < PortAt /\ sConfig.httpFilePath.name = cwd.name
    <3>1. IsPath(cwd)
      BY <1>1, ConfigAssumption
    <3>2. Root(cwd).name = cwd.name /\ Root(root).length <= root.length
          /\ Root(root).length \in Int /\ root.length \in Int
      BY <2>2, <3>1 DEF Root, IsPath
    <3>3. sConfig.httpFilePath = Root(IF cwd.length < PortAt THEN cwd ELSE root)
      BY <1>1, <2>1, <2>3
    <3>4. cwd.length < PortAt
      BY <1>1, <2>3, <3>2, <3>3
    <3> QED
      BY <3>2, <3>3, <3>4
  <2>4. root.length >= 6 /\ root.length < PortAt => sConfig.httpFilePath.name = root.name
    BY <1>1, <2>1
  <2> QED
    BY <2>3, <2>4 DEF root
<1> QED
  BY <1>1, <1>2, <1>3, <1>4, <1>5 DEF ConfigChecked

(* parseArguments and CheckConfigs let only a command line serve that      *)
(* named an input and an output, and then serve what it said last, but for *)
(* the fields that a root of 128 characters or more has run over since.    *)
THEOREM ServesWhatWasSaid == ConfigSpec => []ConfigChecked
  BY InitConfigInv, NextConfigInv, InvIsChecked, PTL DEF ConfigSpec

-----------------------------------------------------------------------------
(* The path of a request                                                   *)

PathSpec == PathInit /\ [][PathNext]_pathVars

(* A segment stands at place a of the first n bytes of a text.             *)
SegmentAt(text, n, segment, a) ==
  /\ segment # <<>>
  /\ a + Len(segment) <= n + 1
  /\ \A i \in 1 .. Len(segment) :
       segment[i] = text[a + i - 1] /\ segment[i] # Slash

(* The segments of the first n bytes of a text, and where they start.      *)
Located(text, n, segments, start) ==
  /\ start \in [1 .. Len(segments) -> 1 .. n]
  /\ \A k \in 1 .. Len(segments) : SegmentAt(text, n, segments[k], start[k])
  /\ \A k \in 1 .. Len(segments) - 1 :
       start[k] + Len(segments[k]) < start[k + 1]
  /\ \A i \in 1 .. n :
       text[i] = Slash \/ \E k \in 1 .. Len(segments) : Lies(start, segments, k, i)

(* The first n bytes of short are the first m of long, but for slashes:    *)
(* where each comes from.                                                  *)
Thinned(short, n, long, m, from) ==
  /\ from \in [1 .. n -> 1 .. m]
  /\ \A i \in 1 .. n : short[i] = long[from[i]]
  /\ \A i \in 1 .. n : \A j \in 1 .. n : i < j => from[i] < from[j]
  /\ \A i \in 1 .. n : \A j \in 1 .. n :
       i < j /\ (\A k \in i .. j : short[k] # Slash) => from[j] - from[i] = j - i
  /\ \A p \in 1 .. m : long[p] = Slash \/ \E i \in 1 .. n : from[i] = p

(* A segment comes from one, as far from the next place as before or       *)
(* further.                                                                *)
LEMMA SegmentMoves ==
  ASSUME NEW short, NEW n \in Nat, NEW long, NEW m \in Nat, NEW from,
         Thinned(short, n, long, m, from),
         NEW s \in Seq(Int), NEW a \in 1 .. n, SegmentAt(short, n, s, a)
  PROVE  /\ from[a] \in 1 .. m
         /\ SegmentAt(long, m, s, from[a])
         /\ \A b \in 1 .. n : a + Len(s) < b => from[a] + Len(s) < from[b]
         /\ \A i \in 1 .. n : a <= i /\ i < a + Len(s)
              => from[a] <= from[i] /\ from[i] < from[a] + Len(s)
<1>0. PICK l \in Nat : l = Len(s)
  OBVIOUS
<1>1. s # <<>> /\ l >= 1 /\ a + l <= n + 1
  BY <1>0 DEF SegmentAt
<1>2. PICK o \in 1 .. m : o = from[a]
  BY DEF Thinned
<1>3. ASSUME NEW i \in 1 .. l PROVE from[a + i - 1] \in 1 .. m /\ from[a + i - 1] = o + i - 1
  <2>1. PICK j \in 1 .. n : j = a + i - 1
    BY <1>1, a + i - 1 \in 1 .. n
  <2>2. PICK u \in 1 .. m : u = from[j]
    BY DEF Thinned
  <2>3. ASSUME NEW k \in a .. j PROVE short[k] # Slash
    <3>1. PICK d \in 1 .. l : d = k - a + 1
      BY <2>1
    <3>2. s[d] = short[a + d - 1] /\ s[d] # Slash
      BY <1>0, <3>1 DEF SegmentAt
    <3>3. a + d - 1 = k
      BY <3>1
    <3> QED
      BY <3>2, <3>3
  <2>4. CASE a = j
    BY <1>2, <2>1, <2>2, <2>4
  <2>5. CASE a < j
    <3>1. from[j] - from[a] = j - a
      BY <2>3, <2>5 DEF Thinned
    <3>2. u - o = j - a
      BY <1>2, <2>2, <3>1
    <3>3. u = o + i - 1
      BY <2>1, <3>2
    <3> QED
      BY <2>1, <2>2, <3>3
  <2> QED
    BY <2>1, <2>4, <2>5
<1>4. SegmentAt(long, m, s, o)
  <2>1. from[a + l - 1] \in 1 .. m /\ from[a + l - 1] = o + l - 1
    BY <1>1, <1>3
  <2>2. o + l <= m + 1
    BY <2>1
  <2>3. ASSUME NEW i \in 1 .. l PROVE s[i] = long[o + i - 1] /\ s[i] # Slash
    <3>1. a + i - 1 \in 1 .. n
      BY <1>1
    <3>2. short[a + i - 1] = long[from[a + i - 1]]
      BY <3>1 DEF Thinned
    <3>3. s[i] = short[a + i - 1] /\ s[i] # Slash
      BY <1>0 DEF SegmentAt
    <3> QED
      BY <1>3, <3>2, <3>3
  <2> QED
    BY <1>0, <1>1, <2>2, <2>3 DEF SegmentAt
<1>5. ASSUME NEW b \in 1 .. n, a + l < b PROVE o + l < from[b]
  <2>1. PICK c \in 1 .. n, d \in 1 .. n : c = a + l - 1 /\ d = a + l
    BY <1>1, <1>5, a + l - 1 \in 1 .. n, a + l \in 1 .. n
  <2>2. from[c] < from[d] /\ from[d] < from[b]
    BY <1>5, <2>1 DEF Thinned
  <2>3. from[c] = o + l - 1
    BY <1>1, <1>3, <2>1
  <2>4. PICK x \in Int, y \in Int, z \in Int : x = from[c] /\ y = from[d] /\ z = from[b]
    BY DEF Thinned
  <2>5. o + l < z
    BY <2>2, <2>3, <2>4
  <2> QED
    BY <2>4, <2>5
<1>6. ASSUME NEW i \in 1 .. n, a <= i, i < a + l PROVE o <= from[i] /\ from[i] < o + l
  <2>1. PICK d \in 1 .. l : a + d - 1 = i
    BY <1>6, i - a + 1 \in 1 .. l
  <2>2. from[i] = o + d - 1
    BY <1>3, <2>1
  <2> QED
    BY <2>2
<1> QED
  BY <1>0, <1>2, <1>4, <1>5, <1>6

(* Slashes that are dropped beside others do not change the segments.      *)
LEMMA ThinnedHasSegments ==
  ASSUME NEW short, NEW n \in Nat, NEW long, NEW m \in Nat, NEW from,
         Thinned(short, n, long, m, from),
         NEW segments \in Seq(Seq(Int)), NEW start, Located(short, n, segments, start)
  PROVE  \E origin : Located(long, m, segments, origin)
<1>0. /\ \A k \in 1 .. Len(segments) : segments[k] \in Seq(Int)
      /\ \A k \in 1 .. Len(segments) : start[k] \in 1 .. n
      /\ \A k \in 1 .. Len(segments) : SegmentAt(short, n, segments[k], start[k])
  <2>1. \A k \in 1 .. Len(segments) : segments[k] \in Seq(Int)
    OBVIOUS
  <2>2. start \in [1 .. Len(segments) -> 1 .. n]
    BY DEF Located
  <2>3. \A k \in 1 .. Len(segments) : start[k] \in 1 .. n
    BY <2>2
  <2>4. \A k \in 1 .. Len(segments) : SegmentAt(short, n, segments[k], start[k])
    BY DEF Located
  <2> QED
    BY <2>1, <2>3, <2>4
<1>1. \A k \in 1 .. Len(segments) :
         /\ from[start[k]] \in 1 .. m
         /\ SegmentAt(long, m, segments[k], from[start[k]])
         /\ \A b \in 1 .. n : start[k] + Len(segments[k]) < b => from[start[k]] + Len(segments[k]) < from[b]
         /\ \A i \in 1 .. n : start[k] <= i /\ i < start[k] + Len(segments[k])
              => from[start[k]] <= from[i] /\ from[i] < from[start[k]] + Len(segments[k])
  <2> SUFFICES ASSUME NEW k \in 1 .. Len(segments)
               PROVE  /\ from[start[k]] \in 1 .. m
                      /\ SegmentAt(long, m, segments[k], from[start[k]])
                      /\ \A b \in 1 .. n : start[k] + Len(segments[k]) < b
                           => from[start[k]] + Len(segments[k]) < from[b]
                      /\ \A i \in 1 .. n : start[k] <= i /\ i < start[k] + Len(segments[k])
                           => from[start[k]] <= from[i] /\ from[i] < from[start[k]] + Len(segments[k])
    OBVIOUS
  <2>1. segments[k] \in Seq(Int) /\ start[k] \in 1 .. n /\ SegmentAt(short, n, segments[k], start[k])
    BY <1>0
  <2>2. PICK s \in Seq(Int), a \in 1 .. n : s = segments[k] /\ a = start[k]
    BY <2>1
  <2>3. SegmentAt(short, n, s, a)
    BY <2>1, <2>2
  <2>4. /\ from[a] \in 1 .. m
        /\ SegmentAt(long, m, s, from[a])
        /\ \A b \in 1 .. n : a + Len(s) < b => from[a] + Len(s) < from[b]
        /\ \A i \in 1 .. n : a <= i /\ i < a + Len(s)
              => from[a] <= from[i] /\ from[i] < from[a] + Len(s)
    BY <2>3, SegmentMoves
  <2> QED
    BY <2>2, <2>4
<1>2. PICK origin \in [1 .. Len(segments) -> 1 .. m] :
           \A k \in 1 .. Len(segments) : origin[k] = from[start[k]]
  <2>2. [k \in 1 .. Len(segments) |-> from[start[k]]] \in [1 .. Len(segments) -> 1 .. m]
    BY <1>1
  <2> QED
    BY <2>2
<1>3. \A k \in 1 .. Len(segments) : SegmentAt(long, m, segments[k], origin[k])
  BY <1>1, <1>2
<1>4. ASSUME NEW k \in 1 .. Len(segments) - 1
      PROVE  origin[k] + Len(segments[k]) < origin[k + 1]
  <2>1. k \in 1 .. Len(segments) /\ k + 1 \in 1 .. Len(segments)
    OBVIOUS
  <2>2. start[k] + Len(segments[k]) < start[k + 1]
    BY DEF Located
  <2> QED
    BY <1>0, <1>1, <1>2, <2>1, <2>2
<1>5. ASSUME NEW p \in 1 .. m, long[p] # Slash
      PROVE  \E k \in 1 .. Len(segments) : Lies(origin, segments, k, p)
  <2>1. PICK i \in 1 .. n : from[i] = p
    BY <1>5 DEF Thinned
  <2>2. short[i] # Slash
    BY <1>5, <2>1 DEF Thinned
  <2>3. PICK k \in 1 .. Len(segments) : Lies(start, segments, k, i)
    BY <2>2 DEF Located
  <2> QED
    BY <1>1, <1>2, <2>1, <2>3 DEF Lies
<1> QED
  BY <1>2, <1>3, <1>4, <1>5 DEF Located

(* Located segments of a whole text are its segments.                      *)
LEMMA LocatedAreSegments ==
  ASSUME NEW text \in Seq(Int), NEW segments \in Seq(Seq(Int)), NEW start,
         Located(text, Len(text), segments, start)
  PROVE  AreSegments(text, segments)
BY DEF Located, SegmentAt, AreSegments

(* A slash ends nothing and begins nothing.                                *)
LEMMA SlashBetween ==
  ASSUME NEW text, NEW n \in Nat, NEW segments \in Seq(Seq(Int)), NEW start,
         Located(text, n, segments, start), text[n + 1] = Slash
  PROVE  Located(text, n + 1, segments, start)
<1>1. start \in [1 .. Len(segments) -> 1 .. n + 1]
  BY DEF Located
<1>2. ASSUME NEW k \in 1 .. Len(segments) PROVE SegmentAt(text, n + 1, segments[k], start[k])
  <2>1. SegmentAt(text, n, segments[k], start[k])
    BY DEF Located
  <2>2. PICK a \in 1 .. n : a = start[k]
    BY DEF Located
  <2>3. PICK s \in Seq(Int) : s = segments[k]
    OBVIOUS
  <2> QED
    BY <2>1, <2>2, <2>3 DEF SegmentAt
<1>3. ASSUME NEW i \in 1 .. n + 1
      PROVE  text[i] = Slash \/ \E k \in 1 .. Len(segments) : Lies(start, segments, k, i)
  <2>1. i = n + 1 \/ i \in 1 .. n
    OBVIOUS
  <2> QED
    BY <2>1 DEF Located
<1> QED
  BY <1>1, <1>2, <1>3 DEF Located

(* One more byte and one more segment.                                     *)
LEMMA OneByteMore ==
  ASSUME NEW s \in Seq(Int), NEW b \in Int
  PROVE  \E t \in Seq(Int) :
           /\ t = Append(s, b) /\ t # <<>>
           /\ Len(t) = Len(s) + 1 /\ t[Len(s) + 1] = b
           /\ \A i \in 1 .. Len(s) : t[i] = s[i]
<1>1. Append(s, b) \in Seq(Int) /\ Append(s, b) # <<>>
  OBVIOUS
<1>2. Len(Append(s, b)) = Len(s) + 1 /\ Append(s, b)[Len(s) + 1] = b
  BY AppendProperties
<1>3. \A i \in 1 .. Len(s) : Append(s, b)[i] = s[i]
  BY AppendProperties
<1> QED
  BY <1>1, <1>2, <1>3

(* A list of segments, and one behind it.                                  *)
LEMMA OneSegmentMore ==
  ASSUME NEW segments \in Seq(Seq(Int)), NEW s \in Seq(Int), NEW N \in Nat, N = Len(segments)
  PROVE  \E longer \in Seq(Seq(Int)) :
           /\ longer = Append(segments, s)
           /\ Len(longer) = N + 1 /\ longer[N + 1] = s
           /\ \A k \in 1 .. N : longer[k] = segments[k]
<1>1. Append(segments, s) \in Seq(Seq(Int))
  BY AppendProperties
<1>2. Len(Append(segments, s)) = Len(segments) + 1
  BY AppendProperties
<1>3. Append(segments, s)[Len(segments) + 1] = s
  BY AppendProperties
<1>4. \A k \in 1 .. Len(segments) : Append(segments, s)[k] = segments[k]
  BY AppendProperties
<1> QED
  BY <1>1, <1>2, <1>3, <1>4

(* Where segments start, and where the next one does.                      *)
LEMMA OnePlaceMore ==
  ASSUME NEW N \in Nat, NEW n \in Nat, NEW f \in [1 .. N -> 1 .. n], NEW m \in Nat, m > n
  PROVE  \E g \in [1 .. N + 1 -> 1 .. m] :
           (\A k \in 1 .. N : g[k] = f[k]) /\ g[N + 1] = n + 1
<1> DEFINE g == [k \in 1 .. N + 1 |-> IF k = N + 1 THEN n + 1 ELSE f[k]]
<1>1. g \in [1 .. N + 1 -> 1 .. m] /\ (\A k \in 1 .. N : g[k] = f[k]) /\ g[N + 1] = n + 1
  OBVIOUS
<1> HIDE DEF g
<1> QED
  BY <1>1

(* What stands in a text stands in a longer one.                           *)
LEMMA SegmentStays ==
  ASSUME NEW text, NEW n \in Nat, NEW m \in Nat, n <= m,
         NEW s \in Seq(Int), NEW a \in 1 .. n, SegmentAt(text, n, s, a)
  PROVE  SegmentAt(text, m, s, a)
BY DEF SegmentAt

(* Before a slash a segment has ended.                                     *)
LEMMA EndsBefore ==
  ASSUME NEW text, NEW n \in Nat, text[n] = Slash,
         NEW s \in Seq(Int), NEW a \in 1 .. n, SegmentAt(text, n, s, a)
  PROVE  a + Len(s) < n + 1
<1>1. PICK l \in Nat : l = Len(s)
  OBVIOUS
<1>2. l >= 1 /\ a + l <= n + 1
  BY <1>1 DEF SegmentAt
<1>3. ASSUME a + l = n + 1 PROVE FALSE
  <2>1. l \in 1 .. Len(s) /\ a + l - 1 = n
    BY <1>1, <1>2, <1>3
  <2>2. s[l] = text[a + l - 1] /\ s[l] # Slash
    BY <2>1 DEF SegmentAt
  <2> QED
    BY <2>1, <2>2
<1> QED
  BY <1>1, <1>2, <1>3

(* One more segment, right behind a slash.                                 *)
LEMMA SegmentEnds ==
  ASSUME NEW text, NEW n \in Nat, NEW segments \in Seq(Seq(Int)), NEW start,
         Located(text, n, segments, start), n = 0 \/ text[n] = Slash,
         NEW s \in Seq(Int), NEW m \in Nat, m = n + Len(s), SegmentAt(text, m, s, n + 1)
  PROVE  \E at : Located(text, m, Append(segments, s), at)
<1>0. m > n
  BY DEF SegmentAt
<1>1. PICK N \in Nat : N = Len(segments)
  OBVIOUS
<1>3. PICK longer \in Seq(Seq(Int)) :
        /\ longer = Append(segments, s)
        /\ Len(longer) = N + 1 /\ longer[N + 1] = s
        /\ \A k \in 1 .. N : longer[k] = segments[k]
  BY <1>1, OneSegmentMore
<1>4. start \in [1 .. N -> 1 .. n]
  BY <1>1 DEF Located
<1>5. PICK at \in [1 .. N + 1 -> 1 .. m] :
           (\A k \in 1 .. N : at[k] = start[k]) /\ at[N + 1] = n + 1
  BY <1>0, <1>4, OnePlaceMore
<1>6. ASSUME NEW k \in 1 .. N
      PROVE  \E b \in 1 .. n, t \in Seq(Int) :
               /\ b = start[k] /\ t = segments[k] /\ b = at[k] /\ t = longer[k]
               /\ SegmentAt(text, n, t, b)
  <2>1. SegmentAt(text, n, segments[k], start[k])
    BY <1>1 DEF Located
  <2>2. start[k] \in 1 .. n
    BY <1>4
  <2>3. PICK b \in 1 .. n : b = start[k]
    BY <2>2
  <2>5. PICK t \in Seq(Int) : t = segments[k]
    BY <1>1
  <2>4. t = longer[k] /\ b = at[k]
    BY <1>3, <1>5, <2>3, <2>5
  <2> QED
    BY <2>1, <2>3, <2>4, <2>5
<1>7. ASSUME NEW k \in 1 .. N PROVE SegmentAt(text, m, longer[k], at[k])
  <2>1. PICK b \in 1 .. n, t \in Seq(Int) :
           b = at[k] /\ t = longer[k] /\ SegmentAt(text, n, t, b)
    BY <1>6
  <2>2. SegmentAt(text, m, t, b)
    BY <1>0, <2>1, SegmentStays
  <2> QED
    BY <2>1, <2>2
<1>8. SegmentAt(text, m, longer[N + 1], at[N + 1])
  BY <1>3, <1>5
<1>9. ASSUME NEW k \in 1 .. N PROVE at[k] + Len(longer[k]) < at[k + 1]
  <2>1. PICK b \in 1 .. n, t \in Seq(Int) :
           /\ b = start[k] /\ t = segments[k] /\ b = at[k] /\ t = longer[k]
           /\ SegmentAt(text, n, t, b)
    BY <1>6
  <2>2. CASE k < N
    <3>1. k \in 1 .. Len(segments) - 1 /\ k + 1 \in 1 .. N
      BY <1>1, <2>2
    <3>2. start[k] + Len(segments[k]) < start[k + 1]
      BY <3>1 DEF Located
    <3>3. start[k + 1] = at[k + 1]
      BY <1>5, <3>1
    <3> QED
      BY <2>1, <3>2, <3>3
  <2>3. CASE k = N
    <3>1. text[n] = Slash
      BY <2>1
    <3>2. b + Len(t) < n + 1
      BY <2>1, <3>1, EndsBefore
    <3>3. at[k + 1] = n + 1
      BY <1>5, <2>3
    <3> QED
      BY <2>1, <3>2, <3>3
  <2> QED
    BY <2>2, <2>3
<1>10. ASSUME NEW i \in 1 .. m, text[i] # Slash
       PROVE  \E k \in 1 .. N + 1 : Lies(at, longer, k, i)
  <2>1. CASE i > n
    <3>1. Lies(at, longer, N + 1, i)
      BY <1>3, <1>5, <2>1 DEF Lies
    <3>2. N + 1 \in 1 .. N + 1
      OBVIOUS
    <3> QED
      BY <3>1, <3>2
  <2>2. CASE i <= n
    <3>0. i \in 1 .. n
      BY <2>2
    <3>1. \E k \in 1 .. Len(segments) : Lies(start, segments, k, i)
      BY <1>10, <3>0 DEF Located
    <3>2. PICK k \in 1 .. N : Lies(start, segments, k, i)
      BY <1>1, <3>1
    <3>3. start[k] = at[k] /\ segments[k] = longer[k] /\ k \in 1 .. N + 1
      BY <1>3, <1>5
    <3>4. Lies(at, longer, k, i)
      BY <3>2, <3>3 DEF Lies
    <3> QED
      BY <3>3, <3>4
  <2> QED
    BY <2>1, <2>2
<1>11. \A k \in 1 .. N + 1 : SegmentAt(text, m, longer[k], at[k])
  <2>1. \A k \in 1 .. N + 1 : k \in 1 .. N \/ k = N + 1
    OBVIOUS
  <2> QED
    BY <1>7, <1>8, <2>1
<1>12. Located(text, m, longer, at)
  <2>1. Len(longer) = N + 1 /\ Len(longer) - 1 = N
    BY <1>3
  <2> QED
    BY <1>5, <1>9, <1>10, <1>11, <2>1 DEF Located
<1> QED
  BY <1>3, <1>12

(* Only the bytes kept so far count.                                       *)
LEMMA ThinnedStays ==
  ASSUME NEW short, NEW next, NEW n \in Nat, NEW long, NEW m \in Nat, NEW from,
         Thinned(short, n, long, m, from), \A i \in 1 .. n : next[i] = short[i]
  PROVE  Thinned(next, n, long, m, from)
<1>1. \A i \in 1 .. n : next[i] = long[from[i]]
  BY DEF Thinned
<1>2. ASSUME NEW i \in 1 .. n, NEW j \in 1 .. n, i < j, \A k \in i .. j : next[k] # Slash
      PROVE  from[j] - from[i] = j - i
  <2>1. \A k \in i .. j : k \in 1 .. n
    OBVIOUS
  <2>2. \A k \in i .. j : short[k] # Slash
    BY <1>2, <2>1
  <2> QED
    BY <1>2, <2>2 DEF Thinned
<1> QED
  BY <1>1, <1>2 DEF Thinned

(* A slash that is dropped.                                                *)
LEMMA DropsSlash ==
  ASSUME NEW short, NEW n \in Nat, NEW long, NEW m \in Nat, NEW from,
         Thinned(short, n, long, m, from), long[m + 1] = Slash
  PROVE  Thinned(short, n, long, m + 1, from)
<1>1. from \in [1 .. n -> 1 .. m + 1]
  BY DEF Thinned
<1>2. ASSUME NEW p \in 1 .. m + 1 PROVE long[p] = Slash \/ \E i \in 1 .. n : from[i] = p
  <2>1. p \in 1 .. m \/ p = m + 1
    OBVIOUS
  <2> QED
    BY <2>1 DEF Thinned
<1> QED
  BY <1>1, <1>2 DEF Thinned

(* A byte that is kept.                                                    *)
LEMMA KeepsByte ==
  ASSUME NEW short \in Seq(Int), NEW n \in Nat, NEW long \in Seq(Int), NEW m \in Nat, NEW old,
         n < Len(short), m < Len(long), Thinned(short, n, long, m, old),
         n > 0 /\ short[n] # Slash => old[n] = m,
         short[n + 1] = long[m + 1]
  PROVE  \E from : Thinned(short, n + 1, long, m + 1, from) /\ from[n + 1] = m + 1
<1>1. old \in [1 .. n -> 1 .. m]
  BY DEF Thinned
<1>2. PICK from \in [1 .. n + 1 -> 1 .. m + 1] :
           (\A i \in 1 .. n : from[i] = old[i]) /\ from[n + 1] = m + 1
  <2> DEFINE g == [i \in 1 .. n + 1 |-> IF i = n + 1 THEN m + 1 ELSE old[i]]
  <2>1. g \in [1 .. n + 1 -> 1 .. m + 1] /\ (\A i \in 1 .. n : g[i] = old[i]) /\ g[n + 1] = m + 1
    BY <1>1
  <2> HIDE DEF g
  <2> QED
    BY <2>1
<1>3. ASSUME NEW i \in 1 .. n + 1 PROVE short[i] = long[from[i]]
  <2>1. CASE i \in 1 .. n
    BY <1>2, <2>1 DEF Thinned
  <2>2. CASE i = n + 1
    BY <1>2, <2>2
  <2> QED
    BY <2>1, <2>2
<1>4. ASSUME NEW i \in 1 .. n + 1, NEW j \in 1 .. n + 1, i < j PROVE from[i] < from[j]
  <2>1. i \in 1 .. n /\ from[i] = old[i] /\ old[i] \in 1 .. m
    BY <1>1, <1>2, <1>4
  <2>2. CASE j \in 1 .. n
    BY <1>2, <1>4, <2>1, <2>2 DEF Thinned
  <2>3. CASE j = n + 1
    BY <1>2, <2>1, <2>3
  <2> QED
    BY <2>2, <2>3
<1>5. ASSUME NEW i \in 1 .. n + 1, NEW j \in 1 .. n + 1, i < j, \A k \in i .. j : short[k] # Slash
      PROVE  from[j] - from[i] = j - i
  <2>1. i \in 1 .. n /\ from[i] = old[i] /\ old[i] \in 1 .. m
    BY <1>1, <1>2, <1>5
  <2>2. CASE j \in 1 .. n
    BY <1>2, <1>5, <2>1, <2>2 DEF Thinned
  <2>3. CASE j = n + 1
    <3>1. n \in i .. j /\ n \in 1 .. n
      BY <2>1, <2>3
    <3>2. old[n] = m
      BY <1>5, <3>1
    <3>3. CASE i = n
      BY <1>2, <2>1, <2>3, <3>2, <3>3
    <3>4. CASE i < n
      <4>1. \A k \in i .. n : k \in i .. j
        BY <2>3
      <4>2. old[n] - old[i] = n - i
        BY <1>5, <2>1, <3>1, <3>4, <4>1 DEF Thinned
      <4>3. PICK x \in 1 .. m : x = old[i]
        BY <2>1
      <4>4. m - x = n - i
        BY <3>2, <4>2, <4>3
      <4>5. from[j] = m + 1 /\ from[i] = x
        BY <1>2, <2>1, <2>3, <4>3
      <4>6. m + 1 - x = j - i
        BY <2>3, <4>4
      <4> QED
        BY <4>5, <4>6
    <3> QED
      BY <2>1, <3>3, <3>4
  <2> QED
    BY <2>2, <2>3
<1>6. ASSUME NEW p \in 1 .. m + 1 PROVE long[p] = Slash \/ \E i \in 1 .. n + 1 : from[i] = p
  <2>1. CASE p = m + 1
    BY <1>2, <2>1, n + 1 \in 1 .. n + 1
  <2>2. CASE p \in 1 .. m
    <3>1. long[p] = Slash \/ \E i \in 1 .. n : old[i] = p
      BY <2>2 DEF Thinned
    <3>2. \A i \in 1 .. n : i \in 1 .. n + 1 /\ from[i] = old[i]
      BY <1>2
    <3> QED
      BY <3>1, <3>2
  <2> QED
    BY <2>1, <2>2
<1>7. Thinned(short, n + 1, long, m + 1, from)
  BY <1>3, <1>4, <1>5, <1>6 DEF Thinned
<1> QED
  BY <1>2, <1>7

(* The slash at the end.                                                   *)
LEMMA DropsLast ==
  ASSUME NEW short, NEW n \in Nat, NEW long, NEW m \in Nat, NEW old,
         Thinned(short, n + 1, long, m, old), short[n + 1] = Slash
  PROVE  \E from : Thinned(short, n, long, m, from)
<1>1. old \in [1 .. n + 1 -> 1 .. m]
  BY DEF Thinned
<1>2. PICK from \in [1 .. n -> 1 .. m] : \A i \in 1 .. n : from[i] = old[i]
  <2> DEFINE g == [i \in 1 .. n |-> old[i]]
  <2>1. g \in [1 .. n -> 1 .. m] /\ \A i \in 1 .. n : g[i] = old[i]
    BY <1>1
  <2> HIDE DEF g
  <2> QED
    BY <2>1
<1>3. \A i \in 1 .. n : i \in 1 .. n + 1
  OBVIOUS
<1>4. \A i \in 1 .. n : short[i] = long[from[i]]
  BY <1>2, <1>3 DEF Thinned
<1>5. ASSUME NEW i \in 1 .. n, NEW j \in 1 .. n, i < j PROVE from[i] < from[j]
  BY <1>2, <1>3, <1>5 DEF Thinned
<1>6. ASSUME NEW i \in 1 .. n, NEW j \in 1 .. n, i < j, \A k \in i .. j : short[k] # Slash
      PROVE  from[j] - from[i] = j - i
  BY <1>2, <1>3, <1>6 DEF Thinned
<1>7. ASSUME NEW p \in 1 .. m PROVE long[p] = Slash \/ \E i \in 1 .. n : from[i] = p
  <2>1. long[p] = Slash \/ \E i \in 1 .. n + 1 : old[i] = p
    BY DEF Thinned
  <2>2. CASE old[n + 1] = p
    <3>1. short[n + 1] = long[old[n + 1]]
      BY n + 1 \in 1 .. n + 1 DEF Thinned
    <3> QED
      BY <2>2, <3>1
  <2>3. CASE \E i \in 1 .. n : old[i] = p
    BY <1>2, <2>3
  <2>4. \A i \in 1 .. n + 1 : i \in 1 .. n \/ i = n + 1
    OBVIOUS
  <2> QED
    BY <2>1, <2>2, <2>3, <2>4
<1>8. Thinned(short, n, long, m, from)
  BY <1>4, <1>5, <1>6, <1>7 DEF Thinned
<1> QED
  BY <1>8

(* n bytes of a text, from place p, are how a player may write byte c.     *)
Spells(text, p, n, c) ==
  \/ n = 1 /\ text[p] = c /\ c # Percent /\ c # Plus
  \/ n = 1 /\ text[p] = Plus /\ c = Space
  \/ /\ n = 3 /\ text[p] = Percent /\ IsHex(text[p + 1]) /\ IsHex(text[p + 2])
     /\ c = 16 * HexValue(text[p + 1]) + HexValue(text[p + 2])

(* A hexadecimal digit is worth less than sixteen.                         *)
LEMMA HexRange ==
  ASSUME NEW d \in Int, IsHex(d)
  PROVE  HexValue(d) \in Int /\ 0 <= HexValue(d) /\ HexValue(d) <= 15
BY DEF IsHex, IsDigit, IsUpper, IsLower, HexValue

(* Every way a player may write a byte spells it.                          *)
LEMMA UnitsSpell ==
  ASSUME NEW c \in Int, 0 <= c, c <= 255, NEW unit \in Units(c)
  PROVE  /\ unit \in Seq(Int) /\ Len(unit) >= 1
         /\ Spells(unit, 1, Len(unit), c)
<1>1. CASE unit \in Escapes(c)
  <2>1. PICK high \in Int, low \in Int :
          /\ unit = <<Percent, high, low>>
          /\ IsHex(high) /\ HexValue(high) = c \div 16
          /\ IsHex(low) /\ HexValue(low) = c % 16
    BY <1>1 DEF Escapes
  <2>2. c = 16 * (c \div 16) + (c % 16)
    OBVIOUS
  <2>3. unit \in Seq(Int) /\ Len(unit) = 3 /\ unit[1] = Percent /\ unit[2] = high /\ unit[3] = low
    BY <2>1 DEF Percent
  <2> QED
    BY <2>1, <2>2, <2>3 DEF Spells
<1>2. CASE c \notin {Percent, Plus, 0} /\ unit = <<c>>
  BY <1>2 DEF Spells
<1>3. CASE c = Space /\ unit = <<Plus>>
  BY <1>3 DEF Spells, Plus
<1> QED
  BY <1>1, <1>2, <1>3 DEF Units

(* What sscanf makes of a text.                                            *)
LEMMA StartsAt ==
  ASSUME NEW text \in Seq(Int)
  PROVE  /\ Start(text) \in 1 .. Len(text) + 1
         /\ At(text, Start(text)) \notin Blanks
         /\ \A j \in 1 .. Start(text) - 1 : text[j] \in Blanks
<1>1. PICK l \in Nat : l = Len(text)
  OBVIOUS
<1> DEFINE T == {i \in Nat : i >= 1 /\ i <= l + 1 /\ At(text, i) \notin Blanks}
<1>2. l + 1 \in T
  BY <1>1 DEF At, Blanks, Space
<1>3. T \subseteq Nat /\ T # {}
  BY <1>2
<1>4. PICK i \in T : \A m \in T : i <= m
  <2> HIDE DEF T
  <2> QED
    BY <1>3, LeastNatural
<1>5. i \in 1 .. l + 1 /\ At(text, i) \notin Blanks
  BY <1>4
<1>6. ASSUME NEW j \in 1 .. i - 1 PROVE text[j] \in Blanks
  <2>1. j \notin T /\ j \in Nat /\ j >= 1 /\ j <= l
    BY <1>4, <1>5
  <2>2. At(text, j) = text[j]
    BY <1>1, <2>1 DEF At
  <2> QED
    BY <2>1, <2>2
<1>7. \E k \in 1 .. Len(text) + 1 :
        At(text, k) \notin Blanks /\ \A j \in 1 .. k - 1 : text[j] \in Blanks
  BY <1>1, <1>5, <1>6
<1> QED
  BY <1>7 DEF Start

(* What sscanf reads is a number; where at most one character is left,     *)
(* that character is a digit.                                              *)
LEMMA ScansNumbers ==
  ASSUME NEW text \in Seq(Int), NEW num \in Scanned(text)
  PROVE  num \in Int /\ (Len(text) <= 1 /\ num # -1 => Len(text) = 1 /\ IsHex(text[1]))
<1>1. PICK l \in Nat : l = Len(text)
  OBVIOUS
<1>2. PICK i \in Nat : i = Start(text) /\ i >= 1 /\ i <= l + 1
  BY <1>1, StartsAt
<1>3. PICK first \in Int, second \in Int :
        first = At(text, i) /\ second = At(text, i + 1)
  BY <1>1, <1>2 DEF At
<1>4. /\ i > l => first = 0
      /\ i + 1 > l => second = 0
      /\ i <= l => first = text[i]
  BY <1>1, <1>2, <1>3 DEF At
<1>5. num \in Int
  BY <1>2, <1>3 DEF Scanned, HexValue
<1>6. ASSUME l <= 1, num # -1 PROVE l = 1 /\ IsHex(text[1])
  <2>1. i + 1 > l \/ i = 0
    BY <1>2, <1>6
  <2>2. second = 0 /\ ~IsHex(second)
    BY <1>2, <1>4, <2>1 DEF IsHex, IsDigit, IsUpper, IsLower
  <2>3. first \notin {Plus, Minus} /\ IsHex(first)
    BY <1>2, <1>3, <1>6, <2>2 DEF Scanned
  <2>4. i <= l
    BY <1>2, <1>4, <2>3 DEF IsHex, IsDigit, IsUpper, IsLower
  <2> QED
    BY <1>2, <1>4, <1>6, <2>3, <2>4
<1> QED
  BY <1>1, <1>5, <1>6

(* Of two digits sscanf makes the byte they stand for, and nothing else.   *)
LEMMA ScansTwoDigits ==
  ASSUME NEW text \in Seq(Int), Len(text) >= 2, IsHex(text[1]), IsHex(text[2])
  PROVE  Scanned(text) = {16 * HexValue(text[1]) + HexValue(text[2])}
<1>1. PICK x \in Int, y \in Int : x = text[1] /\ y = text[2]
  OBVIOUS
<1>2. At(text, 1) = x /\ At(text, 2) = y
  BY <1>1 DEF At
<1>3. IsHex(x) /\ IsHex(y) /\ x \notin Blanks /\ x # Plus /\ x # Minus
  BY <1>1 DEF IsHex, IsDigit, IsUpper, IsLower, Blanks, Space, Plus, Minus
<1>4. Start(text) = 1
  <2>1. PICK i \in Nat : i = Start(text) /\ i >= 1 /\ \A j \in 1 .. i - 1 : text[j] \in Blanks
    BY StartsAt
  <2>2. i > 1 => 1 \in 1 .. i - 1
    BY <2>1
  <2> QED
    BY <1>1, <1>3, <2>1, <2>2
<1>5. At(text, Start(text)) = x /\ At(text, Start(text) + 1) = y
  BY <1>2, <1>4
<1> QED
  BY <1>1, <1>3, <1>5 DEF Scanned

(* A text spells another one, byte k from place pos[k].                    *)
Spelled(text, bytes, pos) ==
  /\ pos \in [1 .. Len(bytes) + 1 -> 1 .. Len(text) + 1]
  /\ pos[1] = 1 /\ pos[Len(bytes) + 1] = Len(text) + 1
  /\ \A k \in 1 .. Len(bytes) :
       pos[k] < pos[k + 1] /\ Spells(text, pos[k], pos[k + 1] - pos[k], bytes[k])

(* Only the bytes spelled from count.                                      *)
LEMMA SpellsElsewhere ==
  ASSUME NEW text, NEW p \in Int, NEW other, NEW q \in Int, NEW n \in Int, NEW c,
         other[q] = text[p],
         n = 3 => other[q + 1] = text[p + 1] /\ other[q + 2] = text[p + 2],
         Spells(text, p, n, c)
  PROVE  Spells(other, q, n, c)
BY DEF Spells

(* One more byte written at the end of a text that spells a path.          *)
LEMMA OneUnitMore ==
  ASSUME NEW text \in Seq(Int), NEW bytes \in Seq(Int), NEW old, Spelled(text, bytes, old),
         NEW c \in Int, 0 <= c, c <= 255, NEW unit \in Units(c)
  PROVE  \E pos : Spelled(text \o unit, Append(bytes, c), pos)
<1>1. PICK m \in Nat, n \in Nat : m = Len(text) /\ n = Len(bytes)
  OBVIOUS
<1>5. PICK more \in Seq(Int) :
        /\ more = Append(bytes, c) /\ Len(more) = n + 1 /\ more[n + 1] = c
        /\ \A k \in 1 .. n : more[k] = bytes[k]
  <2>1. n = Len(bytes)
    BY <1>1
  <2>2. PICK t \in Seq(Int) :
           /\ t = Append(bytes, c) /\ t # <<>>
           /\ Len(t) = Len(bytes) + 1 /\ t[Len(bytes) + 1] = c
           /\ \A i \in 1 .. Len(bytes) : t[i] = bytes[i]
    BY OneByteMore
  <2> QED
    BY <2>1, <2>2
<1>2. unit \in Seq(Int) /\ Len(unit) >= 1 /\ Spells(unit, 1, Len(unit), c)
  BY UnitsSpell
<1>3. PICK u \in Nat : u = Len(unit) /\ u >= 1
  BY <1>2
<1>4. PICK longer \in Seq(Int) :
        /\ longer = text \o unit /\ Len(longer) = m + u
        /\ \A i \in 1 .. m : longer[i] = text[i]
        /\ \A i \in 1 .. u : longer[m + i] = unit[i]
  <2>1. text \o unit \in Seq(Int) /\ Len(text \o unit) = m + u
    BY <1>1, <1>2, <1>3
  <2>2. \A i \in 1 .. m : (text \o unit)[i] = text[i]
    BY <1>1, <1>2, <1>3
  <2>3. \A i \in 1 .. u : (text \o unit)[m + i] = unit[i]
    BY <1>1, <1>2, <1>3
  <2> QED
    BY <2>1, <2>2, <2>3
<1>6. /\ old \in [1 .. n + 1 -> 1 .. m + 1] /\ old[1] = 1 /\ old[n + 1] = m + 1
      /\ \A k \in 1 .. n : old[k] < old[k + 1]
      /\ \A k \in 1 .. n : Spells(text, old[k], old[k + 1] - old[k], bytes[k])
  BY <1>1 DEF Spelled
<1>7. PICK pos \in [1 .. n + 2 -> 1 .. m + u + 1] :
           (\A k \in 1 .. n + 1 : pos[k] = old[k]) /\ pos[n + 2] = m + u + 1
  <2> DEFINE g == [k \in 1 .. n + 2 |-> IF k = n + 2 THEN m + u + 1 ELSE old[k]]
  <2>1. \A k \in 1 .. n + 1 : old[k] \in 1 .. m + u + 1
    BY <1>6
  <2>2. g \in [1 .. n + 2 -> 1 .. m + u + 1] /\ (\A k \in 1 .. n + 1 : g[k] = old[k]) /\ g[n + 2] = m + u + 1
    BY <2>1
  <2> HIDE DEF g
  <2> QED
    BY <2>2
<1>8. ASSUME NEW k \in 1 .. n
      PROVE  pos[k] < pos[k + 1] /\ Spells(longer, pos[k], pos[k + 1] - pos[k], more[k])
  <2>1. old[k] \in 1 .. m + 1 /\ old[k + 1] \in 1 .. m + 1
    BY <1>6
  <2>2. PICK p \in Nat, q \in Nat : p = old[k] /\ q = old[k + 1]
    BY <2>1
  <2>3. p >= 1 /\ p < q /\ q <= m + 1
    BY <1>6, <2>1, <2>2
  <2>4. Spells(text, p, q - p, bytes[k])
    BY <1>6, <2>2
  <2>5. p \in 1 .. m /\ (q - p = 3 => p + 1 \in 1 .. m /\ p + 2 \in 1 .. m)
    BY <2>3
  <2>6. longer[p] = text[p] /\ (q - p = 3 => longer[p + 1] = text[p + 1] /\ longer[p + 2] = text[p + 2])
    BY <1>4, <2>5
  <2>8. Spells(longer, p, q - p, bytes[k])
    <3>1. PICK w \in Int : w = q - p
      BY q - p \in Int
    <3> QED
      BY <2>4, <2>6, <3>1, SpellsElsewhere
  <2>7. pos[k] = p /\ pos[k + 1] = q /\ more[k] = bytes[k]
    BY <1>5, <1>7, <2>2
  <2> QED
    BY <2>3, <2>7, <2>8
<1>9. pos[n + 1] < pos[n + 2] /\ Spells(longer, pos[n + 1], pos[n + 2] - pos[n + 1], more[n + 1])
  <2>1. pos[n + 1] = m + 1 /\ pos[n + 2] = m + u + 1 /\ more[n + 1] = c
    BY <1>5, <1>6, <1>7
  <2>2. longer[m + 1] = unit[1] /\ (u = 3 => longer[m + 2] = unit[2] /\ longer[m + 3] = unit[3])
    <3>1. 1 \in 1 .. u /\ (u = 3 => 2 \in 1 .. u /\ 3 \in 1 .. u)
      BY <1>3
    <3>2. longer[m + 1] = unit[1]
      BY <1>4, <3>1
    <3>3. u = 3 => longer[m + 2] = unit[2]
      BY <1>4, <3>1
    <3>4. u = 3 => longer[m + 3] = unit[3]
      BY <1>4, <3>1
    <3> QED
      BY <3>2, <3>3, <3>4
  <2>3. Spells(longer, m + 1, u, c)
    <3> DEFINE q == m + 1
    <3>1. q \in Int /\ q = m + 1 /\ q + 1 = m + 2 /\ q + 2 = m + 3
      OBVIOUS
    <3> HIDE DEF q
    <3>2. longer[q] = unit[1] /\ (u = 3 => longer[q + 1] = unit[1 + 1] /\ longer[q + 2] = unit[1 + 2])
      <4>1. longer[q] = unit[1]
        BY <2>2, <3>1
      <4>2. ASSUME u = 3 PROVE longer[q + 1] = unit[1 + 1]
        <5>1. longer[m + 2] = unit[2]
          BY <2>2, <4>2
        <5> QED
          BY <3>1, <5>1
      <4>3. ASSUME u = 3 PROVE longer[q + 2] = unit[1 + 2]
        <5>1. longer[m + 3] = unit[3]
          BY <2>2, <4>3
        <5> QED
          BY <3>1, <5>1
      <4> QED
        BY <4>1, <4>2, <4>3
    <3>3. Spells(unit, 1, u, c)
      BY <1>2, <1>3
    <3>4. Spells(longer, q, u, c)
      BY <3>1, <3>2, <3>3, SpellsElsewhere
    <3> QED
      BY <3>1, <3>4
  <2>4. m + u + 1 - (m + 1) = u
    OBVIOUS
  <2> QED
    BY <1>3, <2>1, <2>3, <2>4
<1>10. pos[1] = 1
  BY <1>6, <1>7
<1>11. \A k \in 1 .. n + 1 : k \in 1 .. n \/ k = n + 1
  OBVIOUS
<1>12. \A k \in 1 .. n + 1 :
         pos[k] < pos[k + 1] /\ Spells(longer, pos[k], pos[k + 1] - pos[k], more[k])
  <2> SUFFICES ASSUME NEW k \in 1 .. n + 1
               PROVE  pos[k] < pos[k + 1] /\ Spells(longer, pos[k], pos[k + 1] - pos[k], more[k])
    OBVIOUS
  <2>1. CASE k \in 1 .. n
    BY <1>8, <2>1
  <2>2. CASE k = n + 1
    <3>1. k + 1 = n + 2
      BY <2>2
    <3> QED
      BY <1>9, <2>2, <3>1
  <2> QED
    BY <1>11, <2>1, <2>2
<1>13. Spelled(longer, more, pos)
  <2>1. Len(more) + 1 = n + 2 /\ Len(longer) + 1 = m + u + 1 /\ Len(more) = n + 1
    BY <1>4, <1>5
  <2> QED
    BY <1>7, <1>10, <1>12, <2>1 DEF Spelled
<1> QED
  BY <1>4, <1>5, <1>13

(* What one byte written, a front and a rest of a text are.                *)
LEMMA OneByteWritten ==
  ASSUME NEW s \in Seq(Int), NEW b \in Int, NEW i \in 1 .. Len(s)
  PROVE  \E t \in Seq(Int) :
           /\ t = [s EXCEPT ![i] = b] /\ Len(t) = Len(s) /\ t[i] = b
           /\ \A j \in 1 .. Len(s) : j # i => t[j] = s[j]
<1>1. [s EXCEPT ![i] = b] \in Seq(Int)
  BY ExceptSeq
<1>2. Len([s EXCEPT ![i] = b]) = Len(s)
  BY ExceptSeq
<1>3. \A j \in 1 .. Len(s) : [s EXCEPT ![i] = b][j] = IF j = i THEN b ELSE s[j]
  BY ExceptSeq
<1> QED
  BY <1>1, <1>2, <1>3

(* The first n bytes of a text.                                            *)
LEMMA FrontOf ==
  ASSUME NEW s \in Seq(Int), NEW n \in Nat, n <= Len(s)
  PROVE  \E t \in Seq(Int) :
           t = SubSeq(s, 1, n) /\ Len(t) = n /\ \A i \in 1 .. n : t[i] = s[i]
<1>1. \A i \in 1 .. n : s[i] \in Int
  OBVIOUS
<1>2. SubSeq(s, 1, n) \in Seq(Int)
  BY <1>1
<1>3. Len(SubSeq(s, 1, n)) = n
  BY <1>1
<1>4. \A i \in 1 .. n : SubSeq(s, 1, n)[i] = s[i]
  BY <1>1
<1> QED
  BY <1>2, <1>3, <1>4

(* What stands behind place p of a text.                                   *)
LEMMA RestOf ==
  ASSUME NEW s \in Seq(Int), NEW p \in 1 .. Len(s)
  PROVE  \E t \in Seq(Int) :
           /\ t = SubSeq(s, p + 1, Len(s)) /\ Len(t) = Len(s) - p
           /\ \A i \in 1 .. Len(s) - p : t[i] = s[p + i]
<1>1. \A i \in p + 1 .. Len(s) : s[i] \in Int
  OBVIOUS
<1>2. SubSeq(s, p + 1, Len(s)) \in Seq(Int)
  BY <1>1
<1>3. Len(SubSeq(s, p + 1, Len(s))) = Len(s) - p
  BY <1>1
<1>4. \A i \in 1 .. Len(s) - p : SubSeq(s, p + 1, Len(s))[i] = s[p + i]
  BY <1>1
<1> QED
  BY <1>2, <1>3, <1>4

(* Texts of one length with the same bytes are the same.                   *)
LEMMA SameBytes ==
  ASSUME NEW s \in Seq(Int), NEW t \in Seq(Int),
         Len(s) = Len(t), \A i \in 1 .. Len(t) : s[i] = t[i]
  PROVE  s = t
BY SeqEqual

-----------------------------------------------------------------------------
(* The invariant, stage by stage.                                          *)

(* What the variables hold.                                                *)
PathFields ==
  /\ meant \in Seq(Int) /\ sent \in Seq(Int) /\ val \in Seq(Int)
  /\ rpos \in Nat /\ rpos >= 1 /\ wpos \in Nat
  /\ open \in Seq(Int) /\ tokens \in Seq(Seq(Int))

(* tokenize_url has not begun.                                             *)
Fresh == open = <<>> /\ tokens = <<>>

(* The player spells the path it means, unless it errs.                    *)
AsWritten ==
  stage = "writing" =>
    /\ rpos = 1 /\ wpos = 1 /\ Fresh
    /\ proper => \E pos : Spelled(sent, meant, pos)

(* What has been decoded is what was meant, what is still to be read is as *)
(* it was sent, and the reader stands where a byte begins.                 *)
AsDecoded ==
  stage = "unescape" =>
    /\ Len(val) = Len(sent) /\ 1 <= wpos /\ wpos <= rpos /\ Fresh
    /\ \A j \in 1 .. Len(sent) : j >= rpos => val[j] = sent[j]
    /\ rpos <= Len(sent) + 1 \/ (rpos = Len(sent) + 2 /\ CutEscape(sent))
    /\ proper => \E pos :
         /\ Spelled(sent, meant, pos)
         /\ wpos <= Len(meant) + 1 /\ rpos = pos[wpos]
         /\ \A j \in 1 .. Len(meant) : j < wpos => val[j] = meant[j]

(* What has been kept is what was read, thinned.                           *)
AsThinned ==
  stage = "unique" =>
    /\ wpos < rpos /\ rpos <= Len(val) + 1 /\ Fresh
    /\ \A i \in 1 .. Len(val) : i < wpos => ~(val[i] = Slash /\ val[i + 1] = Slash)
    /\ proper =>
         /\ Len(val) = Len(meant)
         /\ \A j \in 1 .. Len(meant) : j >= rpos => val[j] = meant[j]
         /\ \E from : /\ Thinned(val, wpos, meant, rpos - 1, from)
                      /\ wpos > 0 /\ val[wpos] # Slash => from[wpos] = rpos - 1

(* What standardize_url makes is what was meant, thinned.                  *)
AsCut ==
  stage = "cut" =>
    /\ \A i \in 1 .. Len(val) - 1 : ~(val[i] = Slash /\ val[i + 1] = Slash)
    /\ Len(val) > 1 => val[Len(val)] # Slash
    /\ proper => \E from : Thinned(val, Len(val), meant, Len(meant), from)
    /\ rpos = 1 /\ Fresh

(* The tokens are the segments of what lies before the open one.           *)
AsSplit ==
  stage = "split" =>
    /\ \A i \in 1 .. Len(val) - 1 : ~(val[i] = Slash /\ val[i + 1] = Slash)
    /\ proper => \E from : Thinned(val, Len(val), meant, StrLen(meant), from)
    /\ rpos <= Len(val) + 1
    /\ \E n \in Nat :
         /\ n + Len(open) = rpos - 1
         /\ n = 0 \/ val[n] = Slash
         /\ open # <<>> => SegmentAt(val, rpos - 1, open, n + 1)
         /\ \E start : Located(val, n, tokens, start)

(* The tokens are the segments of the path that was meant, as far as its   *)
(* first zero byte.                                                        *)
AsFound == stage = "done" /\ proper => AreSegments(CString(meant), tokens)
(* Behind the string is only read if it ends in a cut escape.              *)
AsLost == stage = "astray" => ~proper /\ CutEscape(sent)

PathInv ==
  /\ PathFields
  /\ AsWritten /\ AsDecoded /\ AsThinned /\ AsCut /\ AsSplit
  /\ AsFound /\ AsLost

(* An empty path spells itself.                                            *)
LEMMA InitPathInv == PathInit => PathInv
<1> SUFFICES ASSUME PathInit PROVE PathInv
  OBVIOUS
<1>1. PathFields /\ Fresh
  BY DEF PathInit, PathFields, Fresh
<1>2. \E pos : Spelled(sent, meant, pos)
  <2> DEFINE one == [k \in 1 .. 1 |-> 1]
  <2>1. one \in [1 .. 0 + 1 -> 1 .. 0 + 1] /\ one[1] = 1 /\ one[0 + 1] = 0 + 1
    OBVIOUS
  <2>2. Len(meant) = 0 /\ Len(sent) = 0
    BY DEF PathInit
  <2> HIDE DEF one
  <2>3. Spelled(sent, meant, one)
    BY <2>1, <2>2 DEF Spelled
  <2> QED
    BY <2>3
<1> QED
  BY <1>1, <1>2 DEF PathInit, PathInv, AsWritten, AsDecoded, AsThinned, AsCut, AsSplit, AsFound, AsLost

(* The invariant says what the property asks.                              *)
LEMMA PathInvSurvives == PathInv => PathsSurvive
<1> SUFFICES ASSUME PathInv PROVE PathsSurvive
  OBVIOUS
<1>1. stage = "unique" /\ rpos = 1 /\ proper => val = meant
  <2> SUFFICES ASSUME stage = "unique", rpos = 1, proper PROVE val = meant
    OBVIOUS
  <2>1. Len(val) = Len(meant) /\ \A j \in 1 .. Len(meant) : j >= rpos => val[j] = meant[j]
    BY DEF PathInv, AsThinned
  <2>2. val \in Seq(Int) /\ meant \in Seq(Int)
    BY DEF PathInv, PathFields
  <2>3. \A j \in 1 .. Len(meant) : val[j] = meant[j]
    BY <2>1
  <2> QED
    BY <2>1, <2>2, <2>3, SameBytes
<1>2. /\ stage \in {"cut", "split"} =>
           \A i \in 1 .. Len(val) - 1 : ~(val[i] = Slash /\ val[i + 1] = Slash)
      /\ stage = "cut" /\ Len(val) > 1 => val[Len(val)] # Slash
  BY DEF PathInv, AsCut, AsSplit
<1>3. (stage = "done" /\ proper => AreSegments(CString(meant), tokens)) /\ (stage = "astray" => ~proper /\ CutEscape(sent))
  BY DEF PathInv, AsFound, AsLost
<1> QED
  BY <1>1, <1>2, <1>3 DEF PathsSurvive

-----------------------------------------------------------------------------
(* The player writes.                                                      *)

(* The player writes a byte, or leaves a percent sign as it is.            *)
LEMMA WritesKeep ==
  ASSUME PathInv, WriteByte \/ WriteStray
  PROVE  PathInv'
<1> USE DEF player, split
<1>0. PathFields /\ AsWritten
  BY DEF PathInv
<1>1. \A c \in Bytes : c \in Int /\ 0 <= c /\ c <= 255
  BY PathAssumption
<1>2. /\ stage = "writing" /\ stage' = "writing"
      /\ val' = val /\ rpos' = rpos /\ wpos' = wpos /\ open' = open /\ tokens' = tokens
  BY DEF WriteByte, WriteStray, Writes
<1>3. PathFields' /\ (proper' => \E pos : Spelled(sent, meant, pos)')
  <2>1. CASE WriteByte
    <3>0. PICK c \in Bytes : \E unit \in Units(c) : Writes(c, unit)
      BY <2>1 DEF WriteByte
    <3>1. PICK unit \in Units(c) : Writes(c, unit)
      BY <3>0
    <3>2. unit \in Seq(Int)
      BY <1>1, UnitsSpell
    <3>3. Append(meant, c) \in Seq(Int) /\ sent \o unit \in Seq(Int)
      BY <1>0, <1>1, <3>2 DEF PathFields
    <3>4. PathFields'
      BY <1>0, <1>2, <3>1, <3>3 DEF Writes, PathFields
    <3>5. ASSUME proper' PROVE \E pos : Spelled(sent, meant, pos)'
      <4>1. proper
        BY <2>1, <3>5 DEF WriteByte
      <4>2. PICK old : Spelled(sent, meant, old)
        BY <1>0, <1>2, <4>1 DEF AsWritten
      <4>3. sent \in Seq(Int) /\ meant \in Seq(Int) /\ c \in Int /\ 0 <= c /\ c <= 255
        BY <1>0, <1>1 DEF PathFields
      <4>4. PICK pos : Spelled(sent \o unit, Append(meant, c), pos)
        BY <4>2, <4>3, OneUnitMore
      <4>5. sent' = sent \o unit /\ meant' = Append(meant, c)
        BY <3>1 DEF Writes
      <4>6. Spelled(sent', meant', pos)
        BY <4>4, <4>5
      <4> QED
        BY <4>6
    <3> QED
      BY <3>4, <3>5
  <2>2. CASE WriteStray
    <3>1. Append(meant, Percent) \in Seq(Int) /\ sent \o <<Percent>> \in Seq(Int)
      BY <1>0 DEF PathFields, Percent
    <3>2. PathFields'
      BY <1>0, <1>2, <2>2, <3>1 DEF WriteStray, Writes, PathFields
    <3> QED
      BY <2>2, <3>2 DEF WriteStray
  <2> QED
    BY <2>1, <2>2
<1>4. AsWritten'
  BY <1>0, <1>2, <1>3 DEF AsWritten, Fresh
<1> QED
  BY <1>2, <1>3, <1>4 DEF PathInv, AsDecoded, AsThinned, AsCut, AsSplit, AsFound, AsLost

(* The web server begins to decode what was sent.                          *)
LEMMA ReceiveKeeps ==
  ASSUME PathInv, Receive
  PROVE  PathInv'
<1> USE DEF player, split
<1>0. PathFields /\ AsWritten
  BY DEF PathInv
<1>1. /\ stage = "writing" /\ stage' = "unescape" /\ val' = sent
      /\ meant' = meant /\ sent' = sent /\ proper' = proper
      /\ rpos' = rpos /\ wpos' = wpos /\ open' = open /\ tokens' = tokens
  BY DEF Receive
<1>2. PathFields'
  BY <1>0, <1>1 DEF PathFields
<1>3. rpos = 1 /\ wpos = 1 /\ Fresh
  BY <1>0, <1>1 DEF AsWritten
<1>4. PICK m \in Nat, n \in Nat : m = Len(sent) /\ n = Len(meant)
  BY <1>0 DEF PathFields
<1>5. ASSUME proper
      PROVE  \E pos : /\ Spelled(sent, meant, pos)
                      /\ 1 <= Len(meant) + 1 /\ 1 = pos[1]
                      /\ \A j \in 1 .. Len(meant) : j < 1 => sent[j] = meant[j]
  <2>1. PICK pos : Spelled(sent, meant, pos)
    BY <1>0, <1>1, <1>5 DEF AsWritten
  <2>2. pos[1] = 1
    BY <2>1 DEF Spelled
  <2>3. \A j \in 1 .. Len(meant) : j < 1 => sent[j] = meant[j]
    BY <1>4
  <2> QED
    BY <1>4, <2>1, <2>2, <2>3
<1>6. AsDecoded'
  <2>1. /\ Len(val') = Len(sent') /\ 1 <= wpos' /\ wpos' <= rpos' /\ Fresh'
        /\ rpos' <= Len(sent') + 1
    BY <1>1, <1>3, <1>4 DEF Fresh
  <2>2. \A j \in 1 .. Len(sent') : j >= rpos' => val'[j] = sent'[j]
    BY <1>1
  <2>3. wpos' = 1 /\ rpos' = 1
    BY <1>1, <1>3
  <2>4. ASSUME proper'
        PROVE  \E pos : /\ Spelled(sent', meant', pos)
                        /\ wpos' <= Len(meant') + 1 /\ rpos' = pos[wpos']
                        /\ \A j \in 1 .. Len(meant') : j < wpos' => val'[j] = meant'[j]
    <3>1. proper
      BY <1>1, <2>4
    <3>2. PICK pos : /\ Spelled(sent, meant, pos)
                     /\ 1 <= Len(meant) + 1 /\ 1 = pos[1]
                     /\ \A j \in 1 .. Len(meant) : j < 1 => sent[j] = meant[j]
      BY <1>5, <3>1
    <3>3. \A j \in 1 .. Len(meant') : j < wpos' => val'[j] = meant'[j]
      BY <1>1, <2>3, <3>2
    <3>4. Spelled(sent', meant', pos) /\ wpos' <= Len(meant') + 1 /\ rpos' = pos[wpos']
      BY <1>1, <2>3, <3>2
    <3> QED
      BY <3>3, <3>4
  <2> QED
    BY <2>1, <2>2, <2>4 DEF AsDecoded
<1> QED
  BY <1>1, <1>2, <1>6 DEF PathInv, AsWritten, AsThinned, AsCut, AsSplit, AsFound, AsLost

-----------------------------------------------------------------------------
(* The path is decoded.                                                    *)

(* A byte decoded from what the player wrote for it.                       *)
LEMMA DecodesKeeps ==
  ASSUME PathInv, Unescapes, NEW byte \in Int, NEW width \in Nat, width >= 1, Decodes(byte, width),
         \/ rpos + width <= Len(sent) + 1
         \/ rpos + width = Len(sent) + 2 /\ CutEscape(sent),
         proper => \A n \in Nat : \A c \in Int :
           rpos + n <= Len(sent) + 1 /\ Spells(sent, rpos, n, c) => c = byte /\ n = width
  PROVE  PathInv'
<1> USE DEF player, split
<1>0. PathFields /\ AsDecoded
  BY DEF PathInv
<1>1. /\ stage = "unescape" /\ stage' = "unescape"
      /\ meant' = meant /\ sent' = sent /\ proper' = proper
      /\ rpos' = rpos + width /\ wpos' = wpos + 1 /\ open' = open /\ tokens' = tokens
      /\ val' = [val EXCEPT ![wpos] = byte] /\ rpos <= Len(val)
  BY DEF Unescapes, Decodes
<1>2. /\ Len(val) = Len(sent) /\ 1 <= wpos /\ wpos <= rpos /\ Fresh
      /\ \A j \in 1 .. Len(sent) : j >= rpos => val[j] = sent[j]
  BY <1>0, <1>1 DEF AsDecoded
<1>3. PICK r \in Nat, w \in Nat : r = rpos /\ w = wpos
  BY <1>0 DEF PathFields
<1>4. PICK m \in Nat, n \in Nat : m = Len(sent) /\ n = Len(meant)
  BY <1>0 DEF PathFields
<1>5. PICK next \in Seq(Int) :
        /\ next = val' /\ Len(next) = m /\ next[w] = byte
        /\ \A j \in 1 .. m : j # w => next[j] = val[j]
  <2>1. val \in Seq(Int) /\ w \in 1 .. Len(val)
    BY <1>0, <1>1, <1>2, <1>3 DEF PathFields
  <2>2. PICK t \in Seq(Int) :
           /\ t = [val EXCEPT ![w] = byte] /\ Len(t) = Len(val) /\ t[w] = byte
           /\ \A j \in 1 .. Len(val) : j # w => t[j] = val[j]
    BY <2>1, OneByteWritten
  <2> QED
    BY <1>1, <1>2, <1>3, <1>4, <2>2
<1>6. PathFields'
  BY <1>0, <1>1, <1>5 DEF PathFields
<1>7. /\ Len(val') = Len(sent') /\ 1 <= wpos' /\ wpos' <= rpos' /\ Fresh'
      /\ rpos' <= Len(sent') + 1 \/ (rpos' = Len(sent') + 2 /\ CutEscape(sent'))
  <2>1. Len(val') = Len(sent') /\ 1 <= wpos' /\ wpos' <= rpos' /\ Fresh'
    BY <1>1, <1>2, <1>3, <1>4, <1>5 DEF Fresh
  <2>2. rpos' <= Len(sent') + 1 \/ (rpos' = Len(sent') + 2 /\ CutEscape(sent))
    BY <1>1
  <2>3. CutEscape(sent) => CutEscape(sent')
    BY <1>1
  <2> QED
    BY <2>1, <2>2, <2>3
<1>8. \A j \in 1 .. Len(sent') : j >= rpos' => val'[j] = sent'[j]
  <2> SUFFICES ASSUME NEW j \in 1 .. m, j >= r + width PROVE next[j] = sent[j]
    BY <1>1, <1>3, <1>4, <1>5
  <2>1. j # w /\ j >= r
    BY <1>2, <1>3
  <2> QED
    BY <1>2, <1>3, <1>4, <1>5, <2>1
<1>9. ASSUME proper'
      PROVE  \E pos : /\ Spelled(sent', meant', pos)
                      /\ wpos' <= Len(meant') + 1 /\ rpos' = pos[wpos']
                      /\ \A j \in 1 .. Len(meant') : j < wpos' => val'[j] = meant'[j]
  <2>0. proper
    BY <1>1, <1>9
  <2>1. PICK pos : /\ Spelled(sent, meant, pos)
                   /\ wpos <= Len(meant) + 1 /\ rpos = pos[wpos]
                   /\ \A j \in 1 .. Len(meant) : j < wpos => val[j] = meant[j]
    BY <1>0, <1>1, <2>0 DEF AsDecoded
  <2>2. /\ pos \in [1 .. n + 1 -> 1 .. m + 1] /\ pos[n + 1] = m + 1
        /\ \A k \in 1 .. n : pos[k] < pos[k + 1]
        /\ \A k \in 1 .. n : Spells(sent, pos[k], pos[k + 1] - pos[k], meant[k])
    BY <1>4, <2>1 DEF Spelled
  <2>3. w \in 1 .. n /\ w + 1 \in 1 .. n + 1
    BY <1>1, <1>2, <1>3, <1>4, <2>1, <2>2
  <2>4. PICK q \in Nat : q = pos[w + 1] /\ q <= m + 1
    BY <2>2, <2>3
  <2>5. pos[w] = r /\ r < q /\ Spells(sent, r, q - r, meant[w]) /\ meant[w] \in Int
    BY <1>0, <1>3, <1>4, <2>1, <2>2, <2>3, <2>4 DEF PathFields
  <2>6. PICK u \in Nat, c \in Int : u = q - r /\ c = meant[w]
    BY <2>4, <2>5, q - r \in Nat
  <2>7. c = byte /\ u = width
    <3>1. rpos + u <= Len(sent) + 1 /\ Spells(sent, rpos, u, c)
      BY <1>3, <1>4, <2>4, <2>5, <2>6
    <3> QED
      BY <2>0, <3>1
  <2>8. rpos' = pos[wpos'] /\ wpos' <= Len(meant') + 1
    <3>1. rpos' = q
      BY <1>1, <1>3, <2>6, <2>7
    <3>2. wpos' = w + 1
      BY <1>1, <1>3
    <3>3. wpos' <= Len(meant') + 1
      BY <1>1, <1>4, <2>3, <3>2
    <3> QED
      BY <2>4, <3>1, <3>2, <3>3
  <2>9. ASSUME NEW j \in 1 .. Len(meant'), j < wpos' PROVE val'[j] = meant'[j]
    <3>1. j \in 1 .. n /\ j \in 1 .. m /\ (j < w \/ j = w)
      BY <1>1, <1>2, <1>3, <1>4, <2>9
    <3>2. CASE j < w
      BY <1>1, <1>3, <1>4, <1>5, <2>1, <3>1, <3>2
    <3>3. CASE j = w
      BY <1>1, <1>5, <2>6, <2>7, <3>3
    <3> QED
      BY <3>1, <3>2, <3>3
  <2>10. Spelled(sent', meant', pos)
    BY <1>1, <2>1
  <2> QED
    BY <2>8, <2>9, <2>10
<1>10. AsDecoded'
  BY <1>7, <1>8, <1>9 DEF AsDecoded
<1> QED
  BY <1>1, <1>6, <1>10 DEF PathInv, AsWritten, AsThinned, AsCut, AsSplit, AsFound, AsLost

(* A turn of the loop of http_unescape, whatever it reads.                 *)
LEMMA UnescapesKeep ==
  ASSUME PathInv, UnescapePlus \/ UnescapeHex \/ UnescapeOther
  PROVE  PathInv'
<1>0. /\ PathFields /\ stage = "unescape" /\ Unescapes /\ rpos <= Len(val)
      /\ Len(val) = Len(sent) /\ \A j \in 1 .. Len(sent) : j >= rpos => val[j] = sent[j]
  BY DEF PathInv, AsDecoded, UnescapePlus, UnescapeHex, UnescapeOther, Unescapes
<1>a. rpos \in Nat /\ rpos >= 1 /\ sent \in Seq(Int)
  BY <1>0 DEF PathFields
<1>b. PICK r \in Nat, m \in Nat : r = rpos /\ m = Len(sent)
  BY <1>a
<1>1. r = rpos /\ r >= 1 /\ m = Len(sent) /\ r <= m
  BY <1>0, <1>a, <1>b
<1>2. val[rpos] = sent[rpos] /\ sent[rpos] \in Int
  BY <1>0, <1>1 DEF PathFields
<1>3. PICK b \in Int : b = sent[rpos]
  BY <1>2
<1>4. PICK rest \in Seq(Int) :
        /\ rest = SubSeq(val, rpos + 1, Len(val)) /\ Len(rest) = m - r
        /\ \A i \in 1 .. m - r : rest[i] = sent[r + i]
  <2>1. val \in Seq(Int) /\ r \in 1 .. Len(val)
    BY <1>0, <1>1 DEF PathFields
  <2>2. PICK t \in Seq(Int) :
           /\ t = SubSeq(val, r + 1, Len(val)) /\ Len(t) = Len(val) - r
           /\ \A i \in 1 .. Len(val) - r : t[i] = val[r + i]
    BY <2>1, RestOf
  <2>3. ASSUME NEW i \in 1 .. m - r PROVE val[r + i] = sent[r + i]
    <3>1. r + i \in 1 .. m /\ r + i >= r
      BY <1>1
    <3> QED
      BY <1>0, <1>1, <3>1
  <2>4. Len(val) = m
    BY <1>0, <1>1
  <2>5. t = SubSeq(val, rpos + 1, Len(val)) /\ Len(t) = m - r
    BY <1>1, <2>2, <2>4
  <2>6. \A i \in 1 .. m - r : t[i] = sent[r + i]
    BY <2>2, <2>3, <2>4
  <2> QED
    BY <2>5, <2>6
<1>5. \A n \in Nat : \A c \in Int : rpos + n <= Len(sent) + 1 /\ Spells(sent, rpos, n, c) /\ b = Percent
        => n = 3 /\ Scanned(rest) = {c} /\ c >= 0
  <2> SUFFICES ASSUME NEW n \in Nat, NEW c \in Int, rpos + n <= Len(sent) + 1,
                      Spells(sent, rpos, n, c), b = Percent
               PROVE  n = 3 /\ Scanned(rest) = {c} /\ c >= 0
    OBVIOUS
  <2>1. /\ n = 3 /\ IsHex(sent[r + 1]) /\ IsHex(sent[r + 2])
        /\ c = 16 * HexValue(sent[r + 1]) + HexValue(sent[r + 2])
    BY <1>1, <1>3 DEF Spells, Percent, Plus
  <2>2. Len(rest) >= 2 /\ 1 \in 1 .. m - r /\ 2 \in 1 .. m - r
    BY <1>1, <1>4, <2>1
  <2>a. rest[1] = sent[r + 1]
    BY <1>4, <2>2
  <2>b. rest[2] = sent[r + 2]
    BY <1>4, <2>2
  <2>c. rest[1] \in Int /\ rest[2] \in Int
    BY <2>2
  <2>3. rest[1] = sent[r + 1] /\ rest[2] = sent[r + 2] /\ rest[1] \in Int /\ rest[2] \in Int
    BY <2>a, <2>b, <2>c
  <2>4. Scanned(rest) = {16 * HexValue(rest[1]) + HexValue(rest[2])}
    BY <2>1, <2>2, <2>3, ScansTwoDigits
  <2>5. PICK x \in Int, y \in Int : x = HexValue(rest[1]) /\ y = HexValue(rest[2]) /\ 0 <= x /\ 0 <= y
    BY <2>1, <2>3, HexRange
  <2> QED
    BY <2>1, <2>3, <2>4, <2>5
<1>6. Numbers = Scanned(rest)
  BY <1>4 DEF Numbers
<1>7. CASE UnescapePlus
  <2>1. Decodes(Space, 1) /\ b = Plus
    BY <1>2, <1>3, <1>7 DEF UnescapePlus
  <2>2. \A n \in Nat : \A c \in Int :
           rpos + n <= Len(sent) + 1 /\ Spells(sent, rpos, n, c) => c = Space /\ n = 1
    BY <1>3, <2>1 DEF Spells, Percent, Plus
  <2>3. Space \in Int /\ rpos + 1 <= Len(sent) + 1
    BY <1>1 DEF Space
  <2> QED
    BY <1>0, <2>1, <2>2, <2>3, DecodesKeeps
<1>8. CASE UnescapeHex
  <2>1. b = Percent
    BY <1>2, <1>3, <1>8 DEF UnescapeHex
  <2>2. PICK num \in Scanned(rest) : num # -1 /\ Decodes(num, 3)
    BY <1>6, <1>8 DEF UnescapeHex, EscapeWidth
  <2>3. num \in Int /\ (Len(rest) <= 1 => Len(rest) = 1 /\ IsHex(rest[1]))
    BY <2>2, ScansNumbers
  <2>4. \A n \in Nat : \A c \in Int :
           rpos + n <= Len(sent) + 1 /\ Spells(sent, rpos, n, c) => c = num /\ n = 3
    BY <1>5, <2>1
  <2>5. CASE m - r >= 2
    <3>1. rpos + 3 <= Len(sent) + 1
      BY <1>1, <2>5
    <3> QED
      BY <1>0, <2>2, <2>3, <2>4, <3>1, DecodesKeeps
  <2>6. CASE m - r < 2
    <3>1. Len(rest) = 1 /\ IsHex(rest[1]) /\ m = r + 1
      BY <1>1, <1>4, <2>3, <2>6
    <3>a. 1 \in 1 .. m - r
      BY <3>1
    <3>b. rest[1] = sent[r + 1]
      BY <1>4, <3>a
    <3>2. r + 1 = Len(sent) /\ Len(sent) - 1 = r /\ Len(sent) >= 2
      BY <1>1, <3>1
    <3>c. sent[Len(sent) - 1] = Percent
      BY <1>1, <1>3, <2>1, <3>2
    <3>d. IsHex(sent[Len(sent)])
      BY <3>1, <3>2, <3>b
    <3>3. CutEscape(sent)
      BY <3>2, <3>c, <3>d DEF CutEscape
    <3>4. rpos + 3 = Len(sent) + 2
      BY <1>1, <3>1
    <3> QED
      BY <1>0, <2>2, <2>3, <2>4, <3>3, <3>4, DecodesKeeps
  <2> QED
    BY <1>1, <2>5, <2>6
<1>9. CASE UnescapeOther
  <2>1. Decodes(b, 1) /\ b # Plus /\ (b = Percent => -1 \in Scanned(rest))
    BY <1>2, <1>3, <1>6, <1>9 DEF UnescapeOther
  <2>2. ASSUME NEW n \in Nat, NEW c \in Int, rpos + n <= Len(sent) + 1, Spells(sent, rpos, n, c)
        PROVE  c = b /\ n = 1
    <3>1. b # Percent
      <4> SUFFICES ASSUME b = Percent PROVE FALSE
        OBVIOUS
      <4>1. Scanned(rest) = {c} /\ c >= 0
        BY <1>5, <2>2
      <4> QED
        BY <2>1, <4>1
    <3> QED
      BY <1>3, <2>1, <2>2, <3>1 DEF Spells
  <2>3. rpos + 1 <= Len(sent) + 1
    BY <1>1
  <2> QED
    BY <1>0, <2>1, <2>2, <2>3, DecodesKeeps
<1> QED
  BY <1>7, <1>8, <1>9

(* Of no bytes none are kept.                                              *)
LEMMA NoneThinned ==
  ASSUME NEW short, NEW long
  PROVE  \E from : Thinned(short, 0, long, 0, from)
<1> DEFINE none == [i \in 1 .. 0 |-> i]
<1>1. none \in [1 .. 0 -> 1 .. 0]
  OBVIOUS
<1> HIDE DEF none
<1>2. Thinned(short, 0, long, 0, none)
  BY <1>1 DEF Thinned
<1> QED
  BY <1>2

(* The decoded path is cut where the writer stands.                        *)
LEMMA TerminateKeeps ==
  ASSUME PathInv, Terminate
  PROVE  PathInv'
<1> USE DEF player, split
<1>0. PathFields /\ AsDecoded
  BY DEF PathInv
<1>1. /\ stage = "unescape" /\ stage' = "unique" /\ rpos = Len(val) + 1
      /\ meant' = meant /\ sent' = sent /\ proper' = proper
      /\ val' = SubSeq(val, 1, wpos - 1) /\ rpos' = 1 /\ wpos' = 0
      /\ open' = open /\ tokens' = tokens
  BY DEF Terminate
<1>2. Len(val) = Len(sent) /\ 1 <= wpos /\ wpos <= rpos /\ Fresh
  BY <1>0, <1>1 DEF AsDecoded
<1>3. wpos \in Nat /\ val \in Seq(Int) /\ meant \in Seq(Int) /\ sent \in Seq(Int)
  BY <1>0 DEF PathFields
<1>4. PICK w \in Nat : w = wpos - 1
  BY <1>2, <1>3, wpos - 1 \in Nat
<1>5. PICK next \in Seq(Int) :
        next = val' /\ Len(next) = w /\ \A i \in 1 .. w : next[i] = val[i]
  <2>1. w <= Len(val)
    BY <1>1, <1>2, <1>3, <1>4
  <2>2. PICK t \in Seq(Int) :
           t = SubSeq(val, 1, w) /\ Len(t) = w /\ \A i \in 1 .. w : t[i] = val[i]
    BY <1>3, <2>1, FrontOf
  <2> QED
    BY <1>1, <1>4, <2>2
<1>6. PathFields'
  BY <1>0, <1>1, <1>5 DEF PathFields
<1>7. /\ wpos' < rpos' /\ rpos' <= Len(val') + 1 /\ Fresh'
      /\ \A i \in 1 .. Len(val') : i < wpos' => ~(val'[i] = Slash /\ val'[i + 1] = Slash)
  BY <1>1, <1>2, <1>5 DEF Fresh
<1>8. ASSUME proper'
      PROVE  /\ Len(val') = Len(meant')
             /\ \A j \in 1 .. Len(meant') : j >= rpos' => val'[j] = meant'[j]
  <2>0. proper
    BY <1>1, <1>8
  <2>1. PICK pos : /\ Spelled(sent, meant, pos)
                   /\ wpos <= Len(meant) + 1 /\ rpos = pos[wpos]
                   /\ \A j \in 1 .. Len(meant) : j < wpos => val[j] = meant[j]
    BY <1>0, <1>1, <2>0 DEF AsDecoded
  <2>a. PICK m \in Nat, n \in Nat : m = Len(sent) /\ n = Len(meant)
    BY <1>3
  <2>2. /\ pos \in [1 .. n + 1 -> 1 .. m + 1]
        /\ \A k \in 1 .. n : pos[k] < pos[k + 1]
    BY <2>1, <2>a DEF Spelled
  <2>3. w = n
    <3> SUFFICES ASSUME w # n PROVE FALSE
      OBVIOUS
    <3>1. wpos \in 1 .. n /\ wpos + 1 \in 1 .. n + 1
      BY <1>2, <1>3, <1>4, <2>1, <2>a
    <3>2. pos[wpos + 1] \in 1 .. m + 1 /\ pos[wpos] < pos[wpos + 1]
      BY <2>2, <3>1
    <3> QED
      BY <1>1, <1>2, <2>1, <2>a, <3>2
  <2>4. \A j \in 1 .. n : next[j] = meant[j]
    BY <1>3, <1>4, <1>5, <2>1, <2>3, <2>a
  <2> QED
    BY <1>1, <1>5, <2>3, <2>4, <2>a
<1>9. \E from : /\ Thinned(val', wpos', meant', rpos' - 1, from)
                /\ wpos' > 0 /\ val'[wpos'] # Slash => from[wpos'] = rpos' - 1
  <2>1. PICK from : Thinned(val', 0, meant', 0, from)
    BY NoneThinned
  <2>2. wpos' = 0 /\ rpos' - 1 = 0
    BY <1>1
  <2>3. Thinned(val', wpos', meant', rpos' - 1, from)
    BY <2>1, <2>2
  <2>4. ~(wpos' > 0)
    BY <2>2
  <2> QED
    BY <2>3, <2>4
<1>10. AsThinned'
  BY <1>7, <1>8, <1>9 DEF AsThinned
<1> QED
  BY <1>1, <1>6, <1>10 DEF PathInv, AsWritten, AsDecoded, AsCut, AsSplit, AsFound, AsLost

(* Once the reader is behind the string it stays lost.                     *)
LEMMA GoAstrayKeeps ==
  ASSUME PathInv, GoAstray
  PROVE  PathInv'
<1> USE DEF player, split
<1>0. PathFields /\ AsDecoded
  BY DEF PathInv
<1>1. /\ stage = "unescape" /\ stage' = "astray" /\ rpos > Len(val) + 1
      /\ meant' = meant /\ sent' = sent /\ proper' = proper /\ val' = val
      /\ rpos' = rpos /\ wpos' = wpos /\ open' = open /\ tokens' = tokens
  BY DEF GoAstray
<1>2. PathFields'
  BY <1>0, <1>1 DEF PathFields
<1>a. rpos \in Nat /\ sent \in Seq(Int)
  BY <1>0 DEF PathFields
<1>3. PICK r \in Nat, m \in Nat : r = rpos /\ m = Len(sent)
  BY <1>a
<1>4. r > m + 1 /\ CutEscape(sent)
  BY <1>0, <1>1, <1>3 DEF AsDecoded
<1>5. ~proper
  <2> SUFFICES ASSUME proper PROVE FALSE
    OBVIOUS
  <2>1. PICK pos : Spelled(sent, meant, pos) /\ wpos <= Len(meant) + 1 /\ rpos = pos[wpos] /\ wpos >= 1
    BY <1>0, <1>1 DEF AsDecoded
  <2>2. wpos \in 1 .. Len(meant) + 1
    BY <1>0, <2>1 DEF PathFields
  <2>3. pos[wpos] \in 1 .. m + 1
    BY <1>3, <2>1, <2>2 DEF Spelled
  <2> QED
    BY <1>3, <1>4, <2>1, <2>3
<1>6. AsLost'
  <2>1. CutEscape(sent')
    BY <1>1, <1>4
  <2> QED
    BY <1>1, <1>5, <2>1 DEF AsLost
<1> QED
  BY <1>1, <1>2, <1>6 DEF PathInv, AsWritten, AsDecoded, AsThinned, AsCut, AsSplit, AsFound

-----------------------------------------------------------------------------
(* Slashes are removed.                                                    *)

(* A byte that std::unique keeps.                                          *)
LEMMA KeepByteKeeps ==
  ASSUME PathInv, KeepByte
  PROVE  PathInv'
<1> USE DEF player, split
<1>0. PathFields /\ AsThinned
  BY DEF PathInv
<1>1. /\ stage = "unique" /\ stage' = "unique" /\ rpos <= Len(val) /\ ~Repeated
      /\ meant' = meant /\ sent' = sent /\ proper' = proper
      /\ val' = [val EXCEPT ![wpos + 1] = val[rpos]] /\ rpos' = rpos + 1 /\ wpos' = wpos + 1
      /\ open' = open /\ tokens' = tokens
  BY DEF KeepByte
<1>2. /\ wpos < rpos /\ Fresh
      /\ \A i \in 1 .. Len(val) : i < wpos => ~(val[i] = Slash /\ val[i + 1] = Slash)
  BY <1>0, <1>1 DEF AsThinned
<1>3. wpos \in Nat /\ rpos \in Nat /\ rpos >= 1 /\ val \in Seq(Int) /\ meant \in Seq(Int)
  BY <1>0 DEF PathFields
<1>4. PICK w \in Nat, r \in Nat : w = wpos /\ r = rpos
  BY <1>3
<1>5. PICK m \in Nat, l \in Nat : m = r - 1 /\ l = Len(val)
  <2>1. r - 1 \in Nat /\ Len(val) \in Nat
    BY <1>3, <1>4
  <2> QED
    BY <2>1
<1>6. PICK b \in Int : b = val[rpos]
  BY <1>1, <1>3
<1>7. PICK next \in Seq(Int) :
        /\ next = val' /\ Len(next) = l /\ next[w + 1] = b
        /\ \A j \in 1 .. l : j # w + 1 => next[j] = val[j]
  <2>1. w + 1 \in 1 .. Len(val)
    BY <1>1, <1>2, <1>3, <1>4
  <2>a. PICK i \in 1 .. Len(val) : i = w + 1
    BY <2>1
  <2>2. PICK t \in Seq(Int) :
           /\ t = [val EXCEPT ![i] = b] /\ Len(t) = Len(val) /\ t[i] = b
           /\ \A j \in 1 .. Len(val) : j # i => t[j] = val[j]
    BY <1>3, OneByteWritten
  <2> QED
    BY <1>1, <1>4, <1>5, <1>6, <2>a, <2>2
<1>8. PathFields'
  BY <1>0, <1>1, <1>7 DEF PathFields
<1>9. \A i \in 1 .. Len(val') : i < wpos' => ~(val'[i] = Slash /\ val'[i + 1] = Slash)
  <2> SUFFICES ASSUME NEW i \in 1 .. l, i < w + 1, next[i] = Slash, next[i + 1] = Slash PROVE FALSE
    BY <1>1, <1>4, <1>7
  <2>1. val[i] = Slash
    BY <1>7
  <2>2. CASE i = w
    BY <1>1, <1>4, <1>6, <1>7, <2>1, <2>2 DEF Repeated
  <2>3. CASE i < w
    <3>1. i + 1 \in 1 .. l /\ i + 1 # w + 1
      BY <1>1, <1>2, <1>4, <1>5, <2>3
    <3>2. val[i + 1] = Slash
      BY <1>7, <3>1
    <3> QED
      BY <1>2, <1>4, <1>5, <2>1, <2>3, <3>2
  <2> QED
    BY <2>2, <2>3
<1>10. ASSUME proper'
      PROVE  /\ Len(val') = Len(meant')
             /\ \A j \in 1 .. Len(meant') : j >= rpos' => val'[j] = meant'[j]
             /\ \E from : /\ Thinned(val', wpos', meant', rpos' - 1, from)
                          /\ wpos' > 0 /\ val'[wpos'] # Slash => from[wpos'] = rpos' - 1
  <2>0. proper
    BY <1>1, <1>10
  <2>1. /\ Len(val) = Len(meant)
        /\ \A j \in 1 .. Len(meant) : j >= rpos => val[j] = meant[j]
    BY <1>0, <1>1, <2>0 DEF AsThinned
  <2>2. PICK old : /\ Thinned(val, wpos, meant, rpos - 1, old)
                   /\ wpos > 0 /\ val[wpos] # Slash => old[wpos] = rpos - 1
    BY <1>0, <1>1, <2>0 DEF AsThinned
  <2>3. \A i \in 1 .. w : next[i] = val[i]
    <3>1. \A i \in 1 .. w : i \in 1 .. l /\ i # w + 1
      BY <1>1, <1>2, <1>4, <1>5
    <3> QED
      BY <1>7, <3>1
  <2>4. Thinned(val, w, meant, m, old)
    BY <1>4, <1>5, <2>2
  <2>5. Thinned(next, w, meant, m, old)
    BY <2>3, <2>4, ThinnedStays
  <2>6. w > 0 /\ next[w] # Slash => old[w] = m
    BY <1>4, <1>5, <2>2, <2>3
  <2>7. next[w + 1] = meant[m + 1]
    <3>1. r \in 1 .. Len(meant) /\ m + 1 = r
      BY <1>1, <1>3, <1>4, <1>5, <2>1
    <3> QED
      BY <1>4, <1>6, <1>7, <2>1, <3>1
  <2>8. PICK from : Thinned(next, w + 1, meant, m + 1, from) /\ from[w + 1] = m + 1
    <3>1. w < Len(next) /\ m < Len(meant) /\ meant \in Seq(Int)
      BY <1>1, <1>2, <1>3, <1>4, <1>5, <1>7, <2>1
    <3> QED
      BY <2>5, <2>6, <2>7, <3>1, KeepsByte
  <2>9. wpos' = w + 1 /\ rpos' - 1 = m + 1 /\ val' = next /\ meant' = meant
    BY <1>1, <1>4, <1>5, <1>7
  <2>10. \A j \in 1 .. Len(meant') : j >= rpos' => val'[j] = meant'[j]
    <3> SUFFICES ASSUME NEW j \in 1 .. Len(meant), j >= r + 1 PROVE next[j] = meant[j]
      BY <1>1, <1>4, <2>9
    <3>1. j \in 1 .. l /\ j # w + 1 /\ j >= rpos
      BY <1>2, <1>4, <1>5, <2>1
    <3> QED
      BY <1>7, <2>1, <3>1
  <2>11. Len(val') = Len(meant')
    BY <1>1, <1>5, <1>7, <2>1
  <2>12. Thinned(val', wpos', meant', rpos' - 1, from) /\ from[wpos'] = rpos' - 1
    BY <2>8, <2>9
  <2> QED
    BY <2>10, <2>11, <2>12
<1>11. wpos' < rpos' /\ rpos' <= Len(val') + 1 /\ Fresh'
  BY <1>1, <1>2, <1>4, <1>5, <1>7 DEF Fresh
<1>12. AsThinned'
  BY <1>9, <1>10, <1>11 DEF AsThinned
<1> QED
  BY <1>1, <1>8, <1>12 DEF PathInv, AsWritten, AsDecoded, AsCut, AsSplit, AsFound, AsLost

(* A slash behind a slash.                                                 *)
LEMMA DropSlashKeeps ==
  ASSUME PathInv, DropSlash
  PROVE  PathInv'
<1> USE DEF player, split
<1>0. PathFields /\ AsThinned
  BY DEF PathInv
<1>1. /\ stage = "unique" /\ stage' = "unique" /\ rpos <= Len(val)
      /\ wpos > 0 /\ val[wpos] = Slash /\ val[rpos] = Slash
      /\ meant' = meant /\ sent' = sent /\ proper' = proper
      /\ val' = val /\ rpos' = rpos + 1 /\ wpos' = wpos
      /\ open' = open /\ tokens' = tokens
  BY DEF DropSlash, Repeated
<1>2. wpos \in Nat /\ rpos \in Nat /\ rpos >= 1 /\ val \in Seq(Int) /\ meant \in Seq(Int)
  BY <1>0 DEF PathFields
<1>3. PathFields'
  BY <1>0, <1>1, <1>2 DEF PathFields
<1>4. PICK r \in Nat, m \in Nat : r = rpos /\ m = r - 1
  BY <1>2, rpos - 1 \in Nat
<1>5. /\ wpos' < rpos' /\ rpos' <= Len(val') + 1 /\ Fresh'
      /\ \A i \in 1 .. Len(val') : i < wpos' => ~(val'[i] = Slash /\ val'[i + 1] = Slash)
  <2>1. Fresh' = Fresh
    BY <1>1 DEF Fresh
  <2>2. wpos < rpos /\ Fresh /\ \A i \in 1 .. Len(val) : i < wpos => ~(val[i] = Slash /\ val[i + 1] = Slash)
    BY <1>0, <1>1 DEF AsThinned
  <2> QED
    BY <1>1, <1>2, <2>1, <2>2
<1>6. ASSUME proper'
      PROVE  /\ Len(val') = Len(meant')
             /\ \A j \in 1 .. Len(meant') : j >= rpos' => val'[j] = meant'[j]
             /\ \E from : /\ Thinned(val', wpos', meant', rpos' - 1, from)
                          /\ wpos' > 0 /\ val'[wpos'] # Slash => from[wpos'] = rpos' - 1
  <2>0. proper
    BY <1>1, <1>6
  <2>1. /\ Len(val) = Len(meant)
        /\ \A j \in 1 .. Len(meant) : j >= rpos => val[j] = meant[j]
    BY <1>0, <1>1, <2>0 DEF AsThinned
  <2>2. PICK from : Thinned(val, wpos, meant, rpos - 1, from)
    BY <1>0, <1>1, <2>0 DEF AsThinned
  <2>3. meant[m + 1] = Slash
    <3>1. m + 1 = rpos /\ rpos \in 1 .. Len(meant) /\ rpos >= rpos
      BY <1>1, <1>2, <1>4, <2>1
    <3> QED
      BY <1>1, <2>1, <3>1
  <2>4. Thinned(val, wpos, meant, m, from)
    BY <1>4, <2>2
  <2>5. Thinned(val, wpos, meant, m + 1, from)
    BY <1>2, <2>3, <2>4, DropsSlash
  <2>6. rpos' - 1 = m + 1
    BY <1>1, <1>4
  <2>a. Thinned(val', wpos', meant', rpos' - 1, from)
    BY <1>1, <2>5, <2>6
  <2>b. ~(val'[wpos'] # Slash)
    BY <1>1
  <2>7. Thinned(val', wpos', meant', rpos' - 1, from) /\ ~(val'[wpos'] # Slash)
    BY <2>a, <2>b
  <2>8. \A j \in 1 .. Len(meant') : j >= rpos' => val'[j] = meant'[j]
    <3> SUFFICES ASSUME NEW j \in 1 .. Len(meant), j >= rpos + 1 PROVE val[j] = meant[j]
      BY <1>1
    <3> QED
      BY <1>2, <2>1
  <2> QED
    BY <1>1, <2>1, <2>7, <2>8
<1>7. AsThinned'
  BY <1>5, <1>6 DEF AsThinned
<1> QED
  BY <1>1, <1>3, <1>7 DEF PathInv, AsWritten, AsDecoded, AsCut, AsSplit, AsFound, AsLost

(* Before the first byte there is no segment.                              *)
LEMMA NoneLocated ==
  ASSUME NEW text, NEW segments, segments = <<>>
  PROVE  \E start : Located(text, 0, segments, start)
<1> DEFINE none == [k \in 1 .. 0 |-> k]
<1>1. none \in [1 .. 0 -> 1 .. 0] /\ Len(segments) = 0
  OBVIOUS
<1> HIDE DEF none
<1>2. Located(text, 0, segments, none)
  BY <1>1 DEF Located
<1> QED
  BY <1>2

(* standardize_url erases what std::unique has left behind, and a slash at *)
(* the end.                                                                *)
LEMMA EraseKeeps ==
  ASSUME PathInv, EraseRest
  PROVE  PathInv'
<1> USE DEF player, split
<1>0. PathFields /\ AsThinned
  BY DEF PathInv
<1>1. /\ stage = "unique" /\ stage' = "cut" /\ rpos > Len(val)
      /\ meant' = meant /\ sent' = sent /\ proper' = proper
      /\ val' = SubSeq(val, 1, IF wpos > 1 /\ val[wpos] = Slash THEN wpos - 1 ELSE wpos)
      /\ rpos' = 1 /\ wpos' = wpos /\ open' = open /\ tokens' = tokens
  BY DEF EraseRest
<1>2. /\ wpos < rpos /\ rpos <= Len(val) + 1 /\ Fresh
      /\ \A i \in 1 .. Len(val) : i < wpos => ~(val[i] = Slash /\ val[i + 1] = Slash)
  BY <1>0, <1>1 DEF AsThinned
<1>3. wpos \in Nat /\ rpos \in Nat /\ val \in Seq(Int) /\ meant \in Seq(Int)
  BY <1>0 DEF PathFields
<1>4. PICK w \in Nat : w = wpos
  BY <1>3
<1>5. PICK l \in Nat : l = Len(val)
  BY <1>3
<1>6. PICK e \in Nat :
        /\ e <= w /\ val' = SubSeq(val, 1, e)
        /\ w > 1 /\ val[w] = Slash => e = w - 1
        /\ ~(w > 1 /\ val[w] = Slash) => e = w
  <2>1. CASE w > 1 /\ val[w] = Slash
    BY <1>1, <1>4, <2>1, w - 1 \in Int
  <2>2. CASE ~(w > 1 /\ val[w] = Slash)
    BY <1>1, <1>4, <2>2
  <2> QED
    BY <2>1, <2>2
<1>7. PICK next \in Seq(Int) :
        next = val' /\ Len(next) = e /\ \A i \in 1 .. e : next[i] = val[i]
  <2>1. e <= Len(val)
    BY <1>1, <1>2, <1>3, <1>4, <1>6
  <2>2. PICK t \in Seq(Int) :
           t = SubSeq(val, 1, e) /\ Len(t) = e /\ \A i \in 1 .. e : t[i] = val[i]
    BY <1>3, <2>1, FrontOf
  <2> QED
    BY <1>6, <2>2
<1>8. PathFields'
  BY <1>0, <1>1, <1>7 DEF PathFields
<1>9. \A i \in 1 .. Len(val') - 1 : ~(val'[i] = Slash /\ val'[i + 1] = Slash)
  <2> SUFFICES ASSUME NEW i \in 1 .. e - 1 PROVE ~(next[i] = Slash /\ next[i + 1] = Slash)
    BY <1>7
  <2>1. i \in 1 .. e /\ i + 1 \in 1 .. e /\ i \in 1 .. Len(val) /\ i < wpos
    BY <1>1, <1>2, <1>3, <1>4, <1>6
  <2>2. next[i] = val[i] /\ next[i + 1] = val[i + 1]
    BY <1>7, <2>1
  <2> QED
    BY <1>2, <2>1, <2>2
<1>10. Len(val') > 1 => val'[Len(val')] # Slash
  <2> SUFFICES ASSUME e > 1, next[e] = Slash PROVE FALSE
    BY <1>7
  <2>1. val[e] = Slash
    BY <1>7
  <2>2. CASE e = w
    BY <1>6, <2>1, <2>2
  <2>3. CASE e = w - 1 /\ val[w] = Slash
    <3>1. e \in 1 .. Len(val) /\ e < wpos /\ e + 1 = w
      BY <1>1, <1>2, <1>3, <1>4, <2>3
    <3> QED
      BY <1>2, <2>1, <2>3, <3>1
  <2> QED
    BY <1>6, <2>2, <2>3
<1>11. ASSUME proper'
       PROVE  \E from : Thinned(val', Len(val'), meant', Len(meant'), from)
  <2>0. proper
    BY <1>1, <1>11
  <2>1. Len(val) = Len(meant)
    BY <1>0, <1>1, <2>0 DEF AsThinned
  <2>2. PICK old : Thinned(val, wpos, meant, rpos - 1, old)
    BY <1>0, <1>1, <2>0 DEF AsThinned
  <2>3. rpos - 1 = l /\ Len(meant) = l
    BY <1>1, <1>2, <1>3, <1>5, <2>1
  <2>4. Thinned(val, w, meant, l, old)
    BY <1>4, <2>2, <2>3
  <2>5. PICK from : Thinned(val, e, meant, l, from)
    <3>1. CASE e = w
      BY <2>4, <3>1
    <3>2. CASE e = w - 1 /\ val[w] = Slash
      <4>1. w = e + 1
        BY <3>2
      <4>2. Thinned(val, e + 1, meant, l, old) /\ val[e + 1] = Slash
        BY <2>4, <3>2, <4>1
      <4> QED
        BY <4>2, DropsLast
    <3> QED
      BY <1>6, <3>1, <3>2
  <2>6. Thinned(next, e, meant, l, from)
    BY <1>7, <2>5, ThinnedStays
  <2> QED
    BY <1>1, <1>7, <2>3, <2>6
<1>12. rpos' = 1 /\ Fresh'
  BY <1>1, <1>2 DEF Fresh
<1>13. AsCut'
  BY <1>9, <1>10, <1>11, <1>12 DEF AsCut
<1> QED
  BY <1>1, <1>8, <1>13 DEF PathInv, AsWritten, AsDecoded, AsThinned, AsSplit, AsFound, AsLost

-----------------------------------------------------------------------------
(* The path is handed on as far as its first zero byte.                    *)

LEMMA StrLenIs ==
  ASSUME NEW text \in Seq(Int)
  PROVE  /\ StrLen(text) \in Nat /\ StrLen(text) <= Len(text)
         /\ \A i \in 1 .. StrLen(text) : text[i] # 0
         /\ StrLen(text) < Len(text) => text[StrLen(text) + 1] = 0
<1> DEFINE Is(n) == /\ \A i \in 1 .. n : text[i] # 0
                    /\ n < Len(text) => text[n + 1] = 0
           T == {n \in 0 .. Len(text) : n < Len(text) => text[n + 1] = 0}
<1>1. Len(text) \in Nat
  OBVIOUS
<1>2. T \subseteq Nat /\ T # {}
  BY <1>1
<1>3. PICK n \in T : \A k \in T : n <= k
  <2> HIDE DEF T
  <2> QED
    BY <1>2, LeastNatural
<1>4. n \in 0 .. Len(text) /\ (n < Len(text) => text[n + 1] = 0)
  OBVIOUS
<1>5. ASSUME NEW i \in 1 .. n, text[i] = 0 PROVE FALSE
  <2>1. i - 1 \in 0 .. Len(text) /\ (i - 1) + 1 = i /\ i - 1 < n
    BY <1>1, <1>4
  <2>2. i - 1 \in T
    BY <1>5, <2>1
  <2>3. n <= i - 1
    <3> HIDE DEF T
    <3> QED
      BY <1>3, <2>2
  <2> QED
    BY <1>1, <1>4, <2>1, <2>3
<1>6. n \in 0 .. Len(text) /\ Is(n)
  BY <1>4, <1>5
<1>7. StrLen(text) \in 0 .. Len(text) /\ Is(StrLen(text))
  BY <1>6 DEF StrLen
<1> QED
  BY <1>1, <1>7

(* A text that is cut at its first zero has come from one that is cut      *)
(* where that zero was.                                                    *)
LEMMA CutThinned ==
  ASSUME NEW short \in Seq(Int), NEW long \in Seq(Int), NEW old,
         Thinned(short, Len(short), long, Len(long), old)
  PROVE  \E from : Thinned(short, StrLen(short), long, StrLen(long), from)
<1>1. PICK n \in Nat, m \in Nat, k \in Nat, l \in Nat :
        /\ n = Len(short) /\ m = Len(long)
        /\ k = StrLen(short) /\ l = StrLen(long)
  BY StrLenIs
<1>2. /\ k <= n /\ (\A i \in 1 .. k : short[i] # 0) /\ (k < n => short[k + 1] = 0)
      /\ l <= m /\ (\A i \in 1 .. l : long[i] # 0) /\ (l < m => long[l + 1] = 0)
  BY <1>1, StrLenIs
<1>3. /\ old \in [1 .. n -> 1 .. m]
      /\ \A i \in 1 .. n : short[i] = long[old[i]]
      /\ \A i \in 1 .. n : \A j \in 1 .. n : i < j => old[i] < old[j]
      /\ \A i \in 1 .. n : \A j \in 1 .. n :
           i < j /\ (\A h \in i .. j : short[h] # Slash) => old[j] - old[i] = j - i
      /\ \A p \in 1 .. m : long[p] = Slash \/ \E i \in 1 .. n : old[i] = p
  BY <1>1 DEF Thinned
<1>4. \A i \in 1 .. n : old[i] \in 1 .. m
  BY <1>3
<1>5. ASSUME l < m PROVE \E i \in 1 .. n : old[i] = l + 1 /\ i > k
  <2>1. l + 1 \in 1 .. m /\ long[l + 1] = 0
    BY <1>2, <1>5
  <2>2. PICK i \in 1 .. n : old[i] = l + 1
    <3>1. long[l + 1] # Slash
      BY <2>1 DEF Slash
    <3>2. \A p \in 1 .. m : long[p] = Slash \/ \E i \in 1 .. n : old[i] = p
      BY <1>3
    <3> QED
      BY <2>1, <3>1, <3>2
  <2>3. short[i] = 0
    BY <1>3, <2>1, <2>2
  <2>4. ~(i \in 1 .. k)
    BY <1>2, <2>3
  <2> QED
    BY <2>2, <2>4
(* What is kept comes from what is kept, and what is not from the rest.    *)
<1>6. ASSUME NEW i \in 1 .. n PROVE i <= k <=> old[i] <= l
  <2>1. PICK o \in 1 .. m : o = old[i]
    BY <1>4
  <2>2. CASE i <= k /\ ~(o <= l)
    <3>1. l < m
      BY <2>1, <2>2
    <3>2. PICK j \in 1 .. n : old[j] = l + 1 /\ j > k
      BY <1>5, <3>1
    <3>3. old[i] < old[j]
      BY <1>3, <2>2, <3>2
    <3> QED
      BY <2>1, <2>2, <3>2, <3>3
  <2>3. CASE ~(i <= k) /\ o <= l
    <3>1. k < n /\ k + 1 \in 1 .. n /\ short[k + 1] = 0
      BY <1>2, <2>3
    <3>2. PICK z \in 1 .. m : z = old[k + 1]
      BY <1>4, <3>1
    <3>3. long[z] = 0
      BY <1>3, <3>1, <3>2
    <3>4. ~(z \in 1 .. l)
      BY <1>2, <3>3
    <3>5. k + 1 = i \/ old[k + 1] < old[i]
      BY <1>3, <2>3, <3>1
    <3>6. z <= o
      BY <2>1, <3>2, <3>5
    <3> QED
      BY <2>3, <3>4, <3>6
  <2> QED
    BY <2>1, <2>2, <2>3
<1>7. \A i \in 1 .. k : i \in 1 .. n /\ old[i] \in 1 .. l
  <2> SUFFICES ASSUME NEW i \in 1 .. k PROVE i \in 1 .. n /\ old[i] \in 1 .. l
    OBVIOUS
  <2>1. i \in 1 .. n /\ i <= k
    BY <1>2
  <2>2. old[i] \in 1 .. m /\ old[i] <= l
    BY <1>4, <1>6, <2>1
  <2> QED
    BY <2>1, <2>2
<1>8. PICK from \in [1 .. k -> 1 .. l] : \A i \in 1 .. k : from[i] = old[i]
  <2> DEFINE g == [i \in 1 .. k |-> old[i]]
  <2>1. g \in [1 .. k -> 1 .. l] /\ \A i \in 1 .. k : g[i] = old[i]
    BY <1>7
  <2> HIDE DEF g
  <2> QED
    BY <2>1
<1>9. \A i \in 1 .. k : short[i] = long[from[i]]
  BY <1>3, <1>7, <1>8
<1>10. ASSUME NEW i \in 1 .. k, NEW j \in 1 .. k, i < j PROVE from[i] < from[j]
  BY <1>3, <1>7, <1>8, <1>10
<1>11. ASSUME NEW i \in 1 .. k, NEW j \in 1 .. k, i < j, \A h \in i .. j : short[h] # Slash
       PROVE  from[j] - from[i] = j - i
  BY <1>3, <1>7, <1>8, <1>11
<1>12. ASSUME NEW p \in 1 .. l PROVE long[p] = Slash \/ \E i \in 1 .. k : from[i] = p
  <2>1. p \in 1 .. m /\ p <= l
    BY <1>2
  <2>2. CASE \E i \in 1 .. n : old[i] = p
    <3>1. PICK i \in 1 .. n : old[i] = p
      BY <2>2
    <3>2. i <= k
      BY <1>6, <2>1, <3>1
    <3>3. i \in 1 .. k
      BY <3>2
    <3> QED
      BY <1>8, <3>1, <3>3
  <2> QED
    BY <1>3, <2>1, <2>2
<1>13. Thinned(short, k, long, l, from)
  BY <1>9, <1>10, <1>11, <1>12 DEF Thinned
<1> QED
  BY <1>1, <1>13

(* Segments that lie in front of a cut are those of what is cut.           *)
LEMMA LocatedInFront ==
  ASSUME NEW text, NEW next, NEW n \in Nat, \A i \in 1 .. n : next[i] = text[i],
         NEW segments \in Seq(Seq(Int)), NEW start, Located(text, n, segments, start)
  PROVE  Located(next, n, segments, start)
<1>1. \A k \in 1 .. Len(segments) : segments[k] \in Seq(Int) /\ start[k] \in 1 .. n
  <2>1. start \in [1 .. Len(segments) -> 1 .. n]
    BY DEF Located
  <2> QED
    BY <2>1
<1>2. ASSUME NEW k \in 1 .. Len(segments) PROVE SegmentAt(next, n, segments[k], start[k])
  <2>1. SegmentAt(text, n, segments[k], start[k])
    BY DEF Located
  <2>2. PICK s \in Seq(Int) : s = segments[k]
    BY <1>1
  <2>a. PICK a \in 1 .. n : a = start[k]
    BY <1>1
  <2>b. PICK l \in Nat : l = Len(s)
    OBVIOUS
  <2>3. s # <<>> /\ a + l <= n + 1
    BY <2>1, <2>2, <2>a, <2>b DEF SegmentAt
  <2>4. ASSUME NEW i \in 1 .. l PROVE s[i] = next[a + i - 1] /\ s[i] # Slash
    <3>1. s[i] = text[a + i - 1] /\ s[i] # Slash
      BY <2>1, <2>2, <2>a, <2>b DEF SegmentAt
    <3>2. a + i - 1 \in 1 .. n
      BY <2>3
    <3> QED
      BY <3>1, <3>2
  <2>5. SegmentAt(next, n, s, a)
    BY <2>b, <2>3, <2>4 DEF SegmentAt
  <2> QED
    BY <2>2, <2>a, <2>5
<1>3. \A i \in 1 .. n :
        next[i] = Slash \/ \E k \in 1 .. Len(segments) : Lies(start, segments, k, i)
  BY DEF Located
<1> QED
  BY <1>2, <1>3 DEF Located

(* The lookup takes c_str().                                               *)
LEMMA PassKeeps ==
  ASSUME PathInv, PassCString
  PROVE  PathInv'
<1> USE DEF player, split
<1>0. PathFields /\ AsCut
  BY DEF PathInv
<1>1. /\ stage = "cut" /\ stage' = "split" /\ val' = CString(val)
      /\ meant' = meant /\ sent' = sent /\ proper' = proper
      /\ rpos' = rpos /\ wpos' = wpos /\ open' = open /\ tokens' = tokens
  BY DEF PassCString
<1>2. /\ \A i \in 1 .. Len(val) - 1 : ~(val[i] = Slash /\ val[i + 1] = Slash)
      /\ proper => \E from : Thinned(val, Len(val), meant, Len(meant), from)
      /\ rpos = 1 /\ Fresh
  BY <1>0, <1>1 DEF AsCut
<1>3. val \in Seq(Int) /\ meant \in Seq(Int) /\ Len(val) \in Nat
  BY <1>0 DEF PathFields
<1>4. PICK e \in Nat : e = StrLen(val) /\ e <= Len(val)
  BY <1>3, StrLenIs
<1>5. PICK next \in Seq(Int) :
        next = val' /\ Len(next) = e /\ \A i \in 1 .. e : next[i] = val[i]
  BY <1>1, <1>3, <1>4, FrontOf DEF CString
<1>6. PathFields'
  BY <1>0, <1>1, <1>5 DEF PathFields
<1>7. \A i \in 1 .. Len(val') - 1 : ~(val'[i] = Slash /\ val'[i + 1] = Slash)
  <2> SUFFICES ASSUME NEW i \in 1 .. e - 1 PROVE ~(next[i] = Slash /\ next[i + 1] = Slash)
    BY <1>5
  <2>1. i \in 1 .. e /\ i + 1 \in 1 .. e /\ i \in 1 .. Len(val) - 1
    BY <1>3, <1>4
  <2>2. next[i] = val[i] /\ next[i + 1] = val[i + 1]
    BY <1>5, <2>1
  <2> QED
    BY <1>2, <2>1, <2>2
<1>8. ASSUME proper'
      PROVE  \E from : Thinned(val', Len(val'), meant', StrLen(meant'), from)
  <2>1. PICK old : Thinned(val, Len(val), meant, Len(meant), old)
    BY <1>1, <1>2, <1>8
  <2>2. PICK from : Thinned(val, StrLen(val), meant, StrLen(meant), from)
    BY <1>3, <2>1, CutThinned
  <2>3. PICK m \in Nat : m = StrLen(meant)
    BY <1>3, StrLenIs
  <2>4. Thinned(val, e, meant, m, from)
    BY <1>4, <2>2, <2>3
  <2>5. Thinned(next, e, meant, m, from)
    BY <1>5, <2>4, ThinnedStays
  <2> QED
    BY <1>1, <1>5, <2>3, <2>5
<1>9. rpos' = 1 /\ open' = <<>> /\ tokens' = <<>>
  BY <1>1, <1>2 DEF Fresh
<1>10. PICK start : Located(val', 0, tokens', start)
  BY <1>9, NoneLocated
<1>11. \E n \in Nat :
         /\ n + Len(open') = rpos' - 1
         /\ n = 0 \/ val'[n] = Slash
         /\ open' # <<>> => SegmentAt(val', rpos' - 1, open', n + 1)
         /\ \E at : Located(val', n, tokens', at)
  <2>1. 0 + Len(open') = rpos' - 1
    BY <1>9
  <2>2. 0 \in Nat
    OBVIOUS
  <2> QED
    BY <1>9, <1>10, <2>1, <2>2
<1>12. rpos' <= Len(val') + 1
  BY <1>5, <1>9
<1>13. AsSplit'
  BY <1>7, <1>8, <1>11, <1>12 DEF AsSplit
<1> QED
  BY <1>1, <1>6, <1>13 DEF PathInv, AsWritten, AsDecoded, AsThinned, AsCut, AsFound, AsLost

-----------------------------------------------------------------------------
(* The path is split.                                                      *)

(* A byte that is no slash lengthens the segment before it.                *)
LEMMA SegmentGrows ==
  ASSUME NEW text \in Seq(Int), NEW m \in Nat, m < Len(text),
         NEW s \in Seq(Int), NEW a \in Nat, a >= 1, a + Len(s) = m + 1,
         s # <<>> => SegmentAt(text, m, s, a),
         NEW b \in Int, b = text[m + 1], b # Slash
  PROVE  SegmentAt(text, m + 1, Append(s, b), a)
<1>1. PICK l \in Nat : l = Len(s)
  OBVIOUS
<1>2. PICK more \in Seq(Int) :
        /\ more = Append(s, b) /\ more # <<>>
        /\ Len(more) = Len(s) + 1 /\ more[Len(s) + 1] = b
        /\ \A i \in 1 .. Len(s) : more[i] = s[i]
  BY OneByteMore
<1>3. ASSUME NEW i \in 1 .. l + 1 PROVE more[i] = text[a + i - 1] /\ more[i] # Slash
  <2>1. CASE i = l + 1
    <3>1. a + i - 1 = m + 1
      BY <1>1, <2>1
    <3> QED
      BY <1>1, <1>2, <2>1, <3>1
  <2>2. CASE i \in 1 .. l
    <3>1. s # <<>>
      BY <1>1, <2>2
    <3>2. s[i] = text[a + i - 1] /\ s[i] # Slash
      BY <1>1, <2>2, <3>1 DEF SegmentAt
    <3> QED
      BY <1>1, <1>2, <2>2, <3>2
  <2> QED
    BY <2>1, <2>2
<1>4. a + Len(more) <= m + 1 + 1 /\ Len(more) = l + 1
  BY <1>1, <1>2
<1>5. SegmentAt(text, m + 1, more, a)
  BY <1>2, <1>3, <1>4 DEF SegmentAt
<1> QED
  BY <1>2, <1>5

(* What has been read, as segments: the tokens and the open one.           *)
LEMMA EndedLocated ==
  ASSUME PathInv, stage = "split"
  PROVE  Ended \in Seq(Seq(Int)) /\ \E start : Located(val, rpos - 1, Ended, start)
<1>0. open \in Seq(Int) /\ tokens \in Seq(Seq(Int)) /\ rpos \in Nat /\ rpos >= 1
  BY DEF PathInv, PathFields
<1>1. Ended \in Seq(Seq(Int))
  BY <1>0 DEF Ended
<1>2. PICK n \in Nat :
        /\ n + Len(open) = rpos - 1
        /\ n = 0 \/ val[n] = Slash
        /\ open # <<>> => SegmentAt(val, rpos - 1, open, n + 1)
        /\ \E start : Located(val, n, tokens, start)
  BY DEF PathInv, AsSplit
<1>3. PICK start : Located(val, n, tokens, start)
  BY <1>2
<1>4. CASE open = <<>>
  <2>1. n = rpos - 1
    BY <1>0, <1>2, <1>4
  <2>2. Ended = tokens
    BY <1>4 DEF Ended
  <2> QED
    BY <1>1, <1>3, <2>1, <2>2
<1>5. CASE open # <<>>
  <2>1. PICK m \in Nat : m = rpos - 1
    BY <1>0, rpos - 1 \in Nat
  <2>2. m = n + Len(open) /\ SegmentAt(val, m, open, n + 1)
    BY <1>2, <1>5, <2>1
  <2>3. PICK at : Located(val, m, Append(tokens, open), at)
    BY <1>0, <1>2, <1>3, <2>2, SegmentEnds
  <2>4. Ended = Append(tokens, open)
    BY <1>5 DEF Ended
  <2> QED
    BY <1>1, <2>1, <2>3, <2>4
<1> QED
  BY <1>4, <1>5

(* tokenize_url takes a byte into the open token.                          *)
LEMMA TakeByteKeeps ==
  ASSUME PathInv, TakeByte
  PROVE  PathInv'
<1> USE DEF player, split
<1>0. PathFields /\ AsSplit
  BY DEF PathInv
<1>1. /\ stage = "split" /\ stage' = "split" /\ rpos <= Len(val) /\ val[rpos] # Slash
      /\ meant' = meant /\ sent' = sent /\ proper' = proper
      /\ val' = val /\ wpos' = wpos /\ tokens' = tokens
      /\ open' = Append(open, val[rpos]) /\ rpos' = rpos + 1
  BY DEF TakeByte
<1>2. rpos \in Nat /\ rpos >= 1 /\ val \in Seq(Int) /\ open \in Seq(Int)
  BY <1>0 DEF PathFields
<1>3. PICK b \in Int : b = val[rpos]
  BY <1>1, <1>2
<1>4. PICK m \in Nat : m = rpos - 1
  BY <1>2, rpos - 1 \in Int
<1>5. PICK more \in Seq(Int) :
        more = open' /\ more = Append(open, b) /\ Len(more) = Len(open) + 1
  <2>1. PICK t \in Seq(Int) :
           /\ t = Append(open, b) /\ t # <<>>
           /\ Len(t) = Len(open) + 1 /\ t[Len(open) + 1] = b
           /\ \A i \in 1 .. Len(open) : t[i] = open[i]
    BY <1>2, OneByteMore
  <2> QED
    BY <1>1, <1>3, <2>1
<1>6. PathFields'
  BY <1>0, <1>1, <1>5 DEF PathFields
<1>7. PICK n \in Nat :
        /\ n + Len(open) = rpos - 1
        /\ n = 0 \/ val[n] = Slash
        /\ open # <<>> => SegmentAt(val, rpos - 1, open, n + 1)
        /\ \E start : Located(val, n, tokens, start)
  BY <1>0, <1>1 DEF AsSplit
<1>8. SegmentAt(val, m + 1, Append(open, b), n + 1)
  <2>1. m < Len(val) /\ (n + 1) + Len(open) = m + 1
    BY <1>1, <1>2, <1>4, <1>7
  <2>2. open # <<>> => SegmentAt(val, m, open, n + 1)
    BY <1>4, <1>7
  <2>3. b = val[m + 1] /\ b # Slash
    BY <1>1, <1>2, <1>3, <1>4
  <2>4. PICK a \in Nat : a = n + 1 /\ a >= 1
    BY n + 1 \in Nat
  <2> QED
    BY <1>2, <2>1, <2>2, <2>3, <2>4, SegmentGrows
<1>9. \E k \in Nat :
         /\ k + Len(open') = rpos' - 1
         /\ k = 0 \/ val'[k] = Slash
         /\ open' # <<>> => SegmentAt(val', rpos' - 1, open', k + 1)
         /\ \E start : Located(val', k, tokens', start)
  <2>1. n + Len(open') = rpos' - 1 /\ rpos' - 1 = m + 1
    BY <1>1, <1>2, <1>4, <1>5, <1>7
  <2>2. SegmentAt(val', rpos' - 1, open', n + 1)
    BY <1>1, <1>5, <1>8, <2>1
  <2>3. n = 0 \/ val'[n] = Slash
    BY <1>1, <1>7
  <2>4. \E start : Located(val', n, tokens', start)
    BY <1>1, <1>7
  <2> QED
    BY <2>1, <2>2, <2>3, <2>4
<1>10. /\ \A i \in 1 .. Len(val') - 1 : ~(val'[i] = Slash /\ val'[i + 1] = Slash)
       /\ rpos' <= Len(val') + 1
  BY <1>0, <1>1, <1>2 DEF AsSplit
<1>11. proper' => \E from : Thinned(val', Len(val'), meant', StrLen(meant'), from)
  BY <1>0, <1>1 DEF AsSplit
<1>12. AsSplit'
  BY <1>9, <1>10, <1>11 DEF AsSplit
<1> QED
  BY <1>1, <1>6, <1>12 DEF PathInv, AsWritten, AsDecoded, AsThinned, AsCut, AsFound, AsLost

(* A slash ends a token.                                                   *)
LEMMA EndTokenKeeps ==
  ASSUME PathInv, EndToken
  PROVE  PathInv'
<1> USE DEF player, split
<1>0. PathFields /\ AsSplit
  BY DEF PathInv
<1>1. /\ stage = "split" /\ stage' = "split" /\ rpos <= Len(val) /\ val[rpos] = Slash
      /\ meant' = meant /\ sent' = sent /\ proper' = proper
      /\ val' = val /\ wpos' = wpos /\ tokens' = Ended
      /\ open' = <<>> /\ rpos' = rpos + 1
  BY DEF EndToken
<1>2. rpos \in Nat /\ rpos >= 1 /\ val \in Seq(Int)
  BY <1>0 DEF PathFields
<1>3. PICK m \in Nat : m = rpos - 1
  BY <1>2, rpos - 1 \in Int
<1>4. Ended \in Seq(Seq(Int)) /\ \E start : Located(val, m, Ended, start)
  BY <1>1, <1>3, EndedLocated
<1>5. PathFields'
  BY <1>0, <1>1, <1>4 DEF PathFields
<1>6. PICK start : Located(val, m + 1, Ended, start)
  <2>1. PICK start : Located(val, m, Ended, start)
    BY <1>4
  <2>2. val[m + 1] = Slash
    BY <1>1, <1>2, <1>3
  <2>3. Located(val, m + 1, Ended, start)
    BY <1>4, <2>1, <2>2, SlashBetween
  <2> QED
    BY <2>3
<1>7. \E k \in Nat :
         /\ k + Len(open') = rpos' - 1
         /\ k = 0 \/ val'[k] = Slash
         /\ open' # <<>> => SegmentAt(val', rpos' - 1, open', k + 1)
         /\ \E at : Located(val', k, tokens', at)
  <2>1. rpos + Len(open') = rpos' - 1 /\ m + 1 = rpos
    BY <1>1, <1>2, <1>3
  <2>2. Located(val', rpos, tokens', start)
    BY <1>1, <1>6, <2>1
  <2> QED
    BY <1>1, <1>2, <2>1, <2>2
<1>8. /\ \A i \in 1 .. Len(val') - 1 : ~(val'[i] = Slash /\ val'[i + 1] = Slash)
      /\ rpos' <= Len(val') + 1
  BY <1>0, <1>1, <1>2 DEF AsSplit
<1>9. proper' => \E from : Thinned(val', Len(val'), meant', StrLen(meant'), from)
  BY <1>0, <1>1 DEF AsSplit
<1>10. AsSplit'
  BY <1>7, <1>8, <1>9 DEF AsSplit
<1> QED
  BY <1>1, <1>5, <1>10 DEF PathInv, AsWritten, AsDecoded, AsThinned, AsCut, AsFound, AsLost

(* The end of the path ends the last token.                                *)
LEMMA EndPathKeeps ==
  ASSUME PathInv, EndPath
  PROVE  PathInv'
<1> USE DEF player, split
<1>0. PathFields /\ AsSplit
  BY DEF PathInv
<1>1. /\ stage = "split" /\ stage' = "done" /\ rpos > Len(val)
      /\ meant' = meant /\ sent' = sent /\ proper' = proper
      /\ val' = val /\ rpos' = rpos /\ wpos' = wpos /\ tokens' = Ended /\ open' = <<>>
  BY DEF EndPath
<1>2. rpos \in Nat /\ val \in Seq(Int) /\ meant \in Seq(Int)
  BY <1>0 DEF PathFields
<1>3. Ended \in Seq(Seq(Int)) /\ \E start : Located(val, rpos - 1, Ended, start)
  BY <1>1, EndedLocated
<1>4. PathFields'
  BY <1>0, <1>1, <1>3 DEF PathFields
<1>5. ASSUME proper PROVE AreSegments(CString(meant), Ended)
  <2>1. PICK n \in Nat, m \in Nat : n = Len(val) /\ m = StrLen(meant) /\ m <= Len(meant)
    <3>1. Len(val) \in Nat /\ StrLen(meant) \in Nat /\ StrLen(meant) <= Len(meant)
      BY <1>2, StrLenIs
    <3> QED
      BY <3>1
  <2>2. rpos - 1 = n
    BY <1>0, <1>1, <1>2, <2>1 DEF AsSplit
  <2>3. PICK start : Located(val, n, Ended, start)
    BY <1>3, <2>2
  <2>4. PICK from : Thinned(val, n, meant, m, from)
    BY <1>0, <1>1, <1>5, <2>1 DEF AsSplit
  <2>5. PICK origin : Located(meant, m, Ended, origin)
    BY <1>3, <2>3, <2>4, ThinnedHasSegments
  <2>6. PICK cut \in Seq(Int) :
          cut = CString(meant) /\ Len(cut) = m /\ \A i \in 1 .. m : cut[i] = meant[i]
    BY <1>2, <2>1, FrontOf DEF CString
  <2>7. Located(cut, Len(cut), Ended, origin)
    BY <1>3, <2>5, <2>6, LocatedInFront
  <2>8. AreSegments(cut, Ended)
    BY <1>3, <2>7, LocatedAreSegments
  <2> QED
    BY <2>6, <2>8
<1>6. AsFound'
  <2>1. AreSegments(CString(meant), Ended) => AreSegments(CString(meant'), tokens')
    BY <1>1
  <2> QED
    BY <1>1, <1>5, <2>1 DEF AsFound
<1> QED
  BY <1>1, <1>4, <1>6 DEF PathInv, AsWritten, AsDecoded, AsThinned, AsCut, AsSplit, AsLost

(* Every step keeps the invariant.                                         *)
LEMMA NextPathInv == PathInv /\ [PathNext]_pathVars => PathInv'
<1> SUFFICES ASSUME PathInv, [PathNext]_pathVars PROVE PathInv'
  OBVIOUS
<1>1. CASE UNCHANGED pathVars
  BY <1>1 DEF pathVars, player, split, PathInv, PathFields, Fresh,
              AsWritten, AsDecoded, AsThinned, AsCut, AsSplit, AsFound, AsLost
<1>2. CASE PathNext
  BY <1>2, WritesKeep, ReceiveKeeps, UnescapesKeep, TerminateKeeps, GoAstrayKeeps,
     KeepByteKeeps, DropSlashKeeps, EraseKeeps, PassKeeps, TakeByteKeeps, EndTokenKeeps, EndPathKeeps
     DEF PathNext
<1> QED
  BY <1>1, <1>2

(* The path of a request comes through http_unescape, standardize_url and  *)
(* tokenize_url with the segments it had before its first zero byte, where *)
(* c_str() ends it.                                                        *)
THEOREM PathComesThrough == PathSpec => []PathsSurvive
<1>1. PathSpec => []PathInv
  BY InitPathInv, NextPathInv, PTL DEF PathSpec
<1> QED
  BY <1>1, PathInvSurvives, PTL
=============================================================================
