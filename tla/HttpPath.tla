------------------------------ MODULE HttpPath ------------------------------
(***************************************************************************)
(* The path of a request: a player writes it with escapes, and the web     *)
(* server takes it apart before it looks for a resource.  http_unescape    *)
(* decodes it in place, standardize_url removes slashes, c_str() hands it  *)
(* on as far as its first zero byte, tokenize_url splits it.  A text is a  *)
(* sequence of bytes; the terminating zero is the position after the last. *)
(***************************************************************************)
EXTENDS Integers, Sequences

CONSTANTS
  Bytes,    (* the bytes of paths                                          *)
  MaxPath   (* bound: bytes of a path                                      *)

ASSUME PathAssumption ==
  /\ Bytes \subseteq 0 .. 255
  /\ MaxPath \in Nat

VARIABLES
  meant,    (* history: the path the player means                          *)
  sent,     (* how it writes it                                            *)
  proper,   (* history: no percent sign was left unescaped                 *)
  stage,    (* "writing", "unescape", "unique", "cut", "split", "done" or  *)
            (* "astray"                                                    *)
  val,      (* the string                                                  *)
  rpos, wpos,  (* where a loop reads and writes it                         *)
  open, tokens (* the token begun, and those ended                         *)

player == <<meant, sent, proper>>
split == <<open, tokens>>
pathVars == <<player, stage, val, rpos, wpos, split>>

Slash == 47
Space == 32
Plus == 43
Percent == 37
Minus == 45
Zero == 48
Blanks == {9, 10, 11, 12, 13, Space}

IsDigit(c) == c >= 48 /\ c <= 57
IsUpper(c) == c >= 65 /\ c <= 70
IsLower(c) == c >= 97 /\ c <= 102
IsHex(c) == IsDigit(c) \/ IsUpper(c) \/ IsLower(c)
HexValue(c) == IF IsDigit(c) THEN c - 48 ELSE IF IsUpper(c) THEN c - 55 ELSE c - 87

PathInit ==
  /\ meant = <<>> /\ sent = <<>> /\ proper = TRUE
  /\ stage = "writing"
  /\ val = <<>> /\ rpos = 1 /\ wpos = 1
  /\ open = <<>> /\ tokens = <<>>

-----------------------------------------------------------------------------
(* The player.  A byte may always be escaped and must be if it is a        *)
(* percent sign, a plus or zero.                                           *)

Escapes(c) ==
  {<<Percent, high, low>> :
     high \in {d \in 48 .. 102 : IsHex(d) /\ HexValue(d) = c \div 16},
     low \in {d \in 48 .. 102 : IsHex(d) /\ HexValue(d) = c % 16}}
Units(c) ==
  Escapes(c) \cup (IF c \in {Percent, Plus, 0} THEN {} ELSE {<<c>>})
             \cup (IF c = Space THEN {<<Plus>>} ELSE {})

Writes(c, unit) ==
  /\ stage = "writing" /\ Len(meant) < MaxPath
  /\ meant' = Append(meant, c)
  /\ sent' = sent \o unit
  /\ UNCHANGED <<stage, val, rpos, wpos, split>>

WriteByte ==
  /\ \E c \in Bytes : \E unit \in Units(c) : Writes(c, unit)
  /\ UNCHANGED proper

(* A percent sign as it is.                                                *)
WriteStray == Writes(Percent, <<Percent>>) /\ proper' = FALSE

Receive ==
  /\ stage = "writing"
  /\ stage' = "unescape"
  /\ val' = sent
  /\ UNCHANGED <<player, rpos, wpos, split>>

-----------------------------------------------------------------------------
(* http_unescape *)

(* What sscanf("%2x") may make of a text: blanks are skipped, then at most *)
(* two characters are read, a sign among them; -1 when there is no digit.  *)
(* Of "0x" some C libraries say zero and others that no digit follows.     *)
At(text, i) == IF i <= Len(text) THEN text[i] ELSE 0
Start(text) ==
  CHOOSE i \in 1 .. Len(text) + 1 :
    At(text, i) \notin Blanks /\ \A j \in 1 .. i - 1 : text[j] \in Blanks
Scanned(text) ==
  LET first == At(text, Start(text))
      second == At(text, Start(text) + 1)
      n == HexValue(first)
  IN  IF first \in {Plus, Minus}
      THEN {IF ~IsHex(second) THEN -1
            ELSE IF first = Plus THEN HexValue(second) ELSE (256 - HexValue(second)) % 256}
      ELSE IF ~IsHex(first) THEN {-1}
      ELSE IF IsHex(second) THEN {16 * n + HexValue(second)}
      ELSE IF first = Zero /\ second \in {88, 120} THEN {0, -1}
      ELSE {n}

(* Mutant: an escape is taken for two characters.                          *)
EscapeWidthTwo == 2

(* rpos += 3, however many characters sscanf has read.                     *)
EscapeWidth == 3

Unescapes == stage = "unescape" /\ rpos <= Len(val)
Numbers == Scanned(SubSeq(val, rpos + 1, Len(val)))

Decodes(byte, width) ==
  /\ val' = [val EXCEPT ![wpos] = byte]
  /\ wpos' = wpos + 1
  /\ rpos' = rpos + width
  /\ UNCHANGED <<player, stage, split>>

UnescapePlus == Unescapes /\ val[rpos] = Plus /\ Decodes(Space, 1)

UnescapeHex ==
  /\ Unescapes /\ val[rpos] = Percent
  /\ \E num \in Numbers \ {-1} : Decodes(num, EscapeWidth)

UnescapeOther ==
  /\ Unescapes /\ val[rpos] # Plus
  /\ val[rpos] = Percent => -1 \in Numbers
  /\ Decodes(val[rpos], 1)

Terminate ==
  /\ stage = "unescape" /\ rpos = Len(val) + 1
  /\ stage' = "unique"
  /\ val' = SubSeq(val, 1, wpos - 1)
  /\ rpos' = 1 /\ wpos' = 0
  /\ UNCHANGED <<player, split>>

(* rpos has stepped over the terminating zero: what is read from here on   *)
(* lies behind the string.                                                 *)
GoAstray ==
  /\ stage = "unescape" /\ rpos > Len(val) + 1
  /\ stage' = "astray"
  /\ UNCHANGED <<player, val, rpos, wpos, split>>

-----------------------------------------------------------------------------
(* standardize_url: std::unique on slashes, and one at the end; wpos is    *)
(* the last byte kept.                                                     *)

Repeated == wpos > 0 /\ val[wpos] = Slash /\ val[rpos] = Slash

KeepByte ==
  /\ stage = "unique" /\ rpos <= Len(val) /\ ~Repeated
  /\ val' = [val EXCEPT ![wpos + 1] = val[rpos]]
  /\ wpos' = wpos + 1 /\ rpos' = rpos + 1
  /\ UNCHANGED <<player, stage, split>>

DropSlash ==
  /\ stage = "unique" /\ rpos <= Len(val) /\ Repeated
  /\ rpos' = rpos + 1
  /\ UNCHANGED <<player, stage, val, wpos, split>>

EraseRest ==
  /\ stage = "unique" /\ rpos > Len(val)
  /\ stage' = "cut"
  /\ val' = SubSeq(val, 1, IF wpos > 1 /\ val[wpos] = Slash THEN wpos - 1 ELSE wpos)
  /\ rpos' = 1
  /\ UNCHANGED <<player, wpos, split>>

-----------------------------------------------------------------------------
(* The lookup and set_path take the string's c_str().                      *)

(* strlen                                                                  *)
StrLen(text) ==
  CHOOSE n \in 0 .. Len(text) :
    /\ \A i \in 1 .. n : text[i] # 0
    /\ n < Len(text) => text[n + 1] = 0
CString(text) == SubSeq(text, 1, StrLen(text))

PassCString ==
  /\ stage = "cut"
  /\ stage' = "split"
  /\ val' = CString(val)
  /\ UNCHANGED <<player, rpos, wpos, split>>

-----------------------------------------------------------------------------
(* tokenize_url, which leaves empty tokens out *)

Ended == IF open = <<>> THEN tokens ELSE Append(tokens, open)

TakeByte ==
  /\ stage = "split" /\ rpos <= Len(val) /\ val[rpos] # Slash
  /\ open' = Append(open, val[rpos])
  /\ rpos' = rpos + 1
  /\ UNCHANGED <<player, stage, val, wpos, tokens>>

EndToken ==
  /\ stage = "split" /\ rpos <= Len(val) /\ val[rpos] = Slash
  /\ tokens' = Ended /\ open' = <<>>
  /\ rpos' = rpos + 1
  /\ UNCHANGED <<player, stage, val, wpos>>

EndPath ==
  /\ stage = "split" /\ rpos > Len(val)
  /\ tokens' = Ended /\ open' = <<>>
  /\ stage' = "done"
  /\ UNCHANGED <<player, val, rpos, wpos>>

PathNext ==
  \/ WriteByte \/ WriteStray \/ Receive
  \/ UnescapePlus \/ UnescapeHex \/ UnescapeOther \/ Terminate \/ GoAstray
  \/ KeepByte \/ DropSlash \/ EraseRest \/ PassCString
  \/ TakeByte \/ EndToken \/ EndPath

-----------------------------------------------------------------------------
(* Properties *)

(* The segments of a text, in order: runs of bytes without a slash, each   *)
(* at its start, with something between two of them, and no byte but a     *)
(* slash outside.                                                          *)
Lies(start, segments, k, i) == start[k] <= i /\ i < start[k] + Len(segments[k])
AreSegments(text, segments) ==
  \E start \in [1 .. Len(segments) -> 1 .. Len(text)] :
    /\ \A k \in 1 .. Len(segments) :
         /\ segments[k] # <<>>
         /\ start[k] + Len(segments[k]) <= Len(text) + 1
         /\ \A i \in 1 .. Len(segments[k]) :
              /\ segments[k][i] = text[start[k] + i - 1]
              /\ segments[k][i] # Slash
    /\ \A k \in 1 .. Len(segments) - 1 :
         start[k] + Len(segments[k]) < start[k + 1]
    /\ \A i \in 1 .. Len(text) :
         text[i] = Slash \/ \E k \in 1 .. Len(segments) : Lies(start, segments, k, i)

(* A percent sign and a digit, where the text ends.                        *)
CutEscape(text) ==
  Len(text) >= 2 /\ text[Len(text) - 1] = Percent /\ IsHex(text[Len(text)])

(* A path comes through the loops with the segments it had before its      *)
(* first zero byte, however it was escaped and however many slashes stand  *)
(* in a row: decoding in place overwrites nothing that is still to be      *)
(* read.  What is looked up has no empty piece, and what standardize_url   *)
(* makes does not end in a slash; a zero byte may still cut it behind one. *)
(* Nothing is read behind the string unless it ends in an escape cut off   *)
(* after its first digit.                                                  *)
PathsSurvive ==
  /\ stage = "unique" /\ rpos = 1 /\ proper => val = meant
  /\ stage \in {"cut", "split"} =>
       \A i \in 1 .. Len(val) - 1 : ~(val[i] = Slash /\ val[i + 1] = Slash)
  /\ stage = "cut" /\ Len(val) > 1 => val[Len(val)] # Slash
  /\ stage = "done" /\ proper => AreSegments(CString(meant), tokens)
  /\ stage = "astray" => ~proper /\ CutEscape(sent)
=============================================================================
