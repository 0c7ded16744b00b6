------------------------------ MODULE MCTables ------------------------------
(* Six small components in one run.  They share nothing, so one of them    *)
(* moves and the others rest.                                              *)
EXTENDS Registry, AccessPolicy, FrameQueue, Config, HttpPath, IpAddress, SequencesExt

VARIABLE moves

tableVars == <<regVars, polVars, queueVars>>
inputVars == <<configVars, pathVars, addressVars>>
vars == <<moves, tableVars, inputVars>>

Gap == [kind |-> "empty"]

Init ==
  /\ moves \in {"registry", "policy", "queue", "config", "path", "address"}
  /\ (moves # "registry" => mode = "plain") /\ RegInit
  /\ (moves # "policy" => default_policy = "ACCEPT" /\ ban_system_enabled = TRUE)
  /\ PolInit
  /\ (moves # "queue" => /\ aIsFrameInUse = [f \in Frames |-> FALSE]
                         /\ wanted = [w \in Waiters |-> CHOOSE f \in Frames : TRUE])
  /\ QueueInit
  /\ (moves # "config" => argv = <<>> /\ cwd = CHOOSE d \in Cwds : TRUE)
  /\ ConfigInit
  /\ PathInit
  /\ (moves # "address" => address = <<Gap>>) /\ AddressInit

Next ==
  /\ UNCHANGED moves
  /\ \/ moves = "registry" /\ RegNext /\ UNCHANGED <<polVars, queueVars, inputVars>>
     \/ moves = "policy" /\ PolNext /\ UNCHANGED <<regVars, queueVars, inputVars>>
     \/ moves = "queue" /\ QueueNext /\ UNCHANGED <<regVars, polVars, inputVars>>
     \/ moves = "config" /\ ConfigNext /\ UNCHANGED <<tableVars, pathVars, addressVars>>
     \/ moves = "path" /\ PathNext /\ UNCHANGED <<tableVars, configVars, addressVars>>
     \/ moves = "address" /\ AddressNext /\ UNCHANGED <<tableVars, configVars, pathVars>>

Spec == Init /\ [][Next]_vars /\ QueueFairness

MCParams == {"{x}", "{y}"}
MCPatterns == {<<>>, <<"a">>, <<"A">>, <<"audio">>, <<"{x}">>, <<"a", "{x}">>,
               <<"{y}", "audio">>, <<"a", "audio">>}
MCPaths == {<<>>, <<"a">>, <<"A">>, <<"audio">>, <<"a", "audio">>, <<"audio", "A">>,
            <<"A", "audio">>, <<"a", "audio", "a">>}
MCFold == [p \in {"a", "A", "audio", "{x}", "{y}"} |->
             CASE p \in {"a", "A"} -> "a" [] p = "audio" -> "audio" [] OTHER -> "{}"]
MCRank == [p \in {"a", "audio", "{}"} |-> CASE p = "{}" -> 0 [] p = "a" -> 1 [] p = "audio" -> 2]
MCWidth == [p \in {"a", "A", "audio", "{x}", "{y}", "{}"} |->
              CASE p \in {"a", "A"} -> 1 [] p = "audio" -> 5
                [] p \in {"{x}", "{y}"} -> 3 [] p = "{}" -> 9]

MCAddresses == {<<1, 0, 0, 0>>, <<0, 1, 0, 1>>, <<0, 0, 0, 1>>, <<255, 0, 0, 0>>}
MCIpPatterns == MCAddresses \cup {<<1, 0, Star, Star>>}

MCOption == [a \in {"-i", "-o", "-d", "-p", "-t", "x", "/data/", "/srv/www",
                    "", "/128/", "/132", "/144", "0", "8000", "66000"} |->
               IF a \in {"-i", "-o", "-d", "-p", "-t"} THEN a ELSE "none"]
MCNumber == [a \in DOMAIN MCOption |->
               CASE a = "0" -> 0 [] a = "8000" -> 8000 [] a = "66000" -> 66000
                 [] OTHER -> -1]
APath(name, length, slashes) == [name |-> name, length |-> length, slashes |-> slashes]
MCPath == [a \in DOMAIN MCOption |->
             CASE a = "/data/" -> APath("/data", 6, 1)
               [] a = "/srv/www" -> APath(a, 8, 0)
               [] a = "" -> APath(a, 0, 0)
               [] a = "/128/" -> APath("/128", 128, 1)
               [] a = "/132" -> APath(a, 132, 0)
               [] a = "/144" -> APath(a, 144, 0)
               [] OTHER -> APath(a, 5, 0)]
MCCwds == {APath("/root/run", 9, 0), APath("/", 1, 1), APath("/far", 128, 0)}

(* An option and its value, or an argument that stands alone.              *)
MCPieces ==
  {<<"-i", "x">>, <<"-o", "x">>, <<"-o", "8000">>, <<"-i">>, <<"x">>}
    \cup ({"-d"} \X {"", "/data/", "/srv/www", "/128/", "/132", "/144"})
    \cup ({"-p", "-t"} \X {"0", "8000", "66000", "x"})
(* Up to three of them, and four of which two bring the service up.        *)
MCCommandLines ==
  LET lines(n) == [1 .. n -> MCPieces]
      comesUp(line) == \E j, k \in 1 .. 4 : /\ j < k
                                            /\ line[j] = <<"-i", "x">> /\ line[k] = <<"-o", "x">>
  IN  {FlattenSeq(line) : line \in UNION {lines(n) : n \in 0 .. 3} \cup {l \in lines(4) : comesUp(l)}}

(* Addresses of up to five fields of every kind; of up to eight without    *)
(* the rarer ones; of nine; and long ones that end in an IPv4 address.     *)
AnyField == [kind |-> "any"]
Hex(n) == [kind |-> "hex", value |-> n]
Dec(n) == [kind |-> "dec", value |-> n]
Dotted == [kind |-> "dotted", value |-> <<Dec(1), Dec(2), AnyField, Dec(255)>>]
MCFields ==
  {Gap, AnyField, Hex(65535), [kind |-> "long"], Dotted,
   [kind |-> "dotted", value |-> <<Dec(0), Dec(65537), Dec(0), Dec(0)>>]}
MCAddressTexts ==
  UNION {[1 .. n -> MCFields] : n \in 1 .. 5}
    \cup UNION {[1 .. n -> {Gap, AnyField, Hex(258)}] : n \in 6 .. 8}
    \cup [1 .. 9 -> {Gap, Hex(258)}]
    \cup UNION {{text \in [1 .. n -> {Gap, Hex(0), Dotted}] :
                   /\ \A k \in 1 .. n : text[k] = Dotted <=> k = n
                   /\ Cardinality(Empties(text)) <= 2} : n \in 6 .. 9}
=============================================================================
