------------------------------ MODULE InfoCodec ------------------------------
(***************************************************************************)
(* AppInfo as text: what ToString prints, the UTF-8 trip through a payload *)
(* (EncodeMsg, DecodeMsg), and what ParseFrom reads.  ConduitInfo has the  *)
(* same code.                                                              *)
(*                                                                         *)
(* A text is a sequence of tokens: the key words, the delimiters ";" and   *)
(* "=", numbers of a version, white space, and characters with a meaning   *)
(* of their own to the code.  An exception is the result NoInfo.           *)
(***************************************************************************)
EXTENDS Integers, Sequences

CONSTANT LongestName   (* how long a value may be: 200 characters          *)

ASSUME LongestNameAssumption == LongestName \in Nat

Numbers == {"1.0", "2.0"}

(* What separates the pairs of a text.                                     *)
Delimiter == ";"

(* control stands for the control characters and for the braces; lone for  *)
(* half a surrogate pair, which UTF-8 cannot say, and replaced for what    *)
(* takes its place.                                                        *)
Tokens == {"name", "Name", "version", "letter", "blank", "control",
           "lone", "replaced", "=", Delimiter} \cup Numbers

NoInfo == [name |-> <<>>, version |-> <<>>]

Blank(text) == \A i \in DOMAIN text : text[i] = "blank"

(* 0-based, and -1 when there is none.                                     *)
IndexOf(text, t) ==
  IF \E i \in DOMAIN text : text[i] = t
  THEN (CHOOSE i \in DOMAIN text :
          text[i] = t /\ \A j \in 1 .. (i - 1) : text[j] # t) - 1
  ELSE -1

(* ValidInput throws on anything else.                                     *)
ValidInput(text) ==
  /\ ~Blank(text)
  /\ Len(text) <= LongestName
  /\ \A i \in DOMAIN text : text[i] \notin {"control", Delimiter, "="}

(* Version.Parse: white space around the numbers is skipped.               *)
Trimmed(text) ==
  LET solid == {i \in DOMAIN text : text[i] # "blank"}
  IN  IF solid = {} THEN <<>>
      ELSE SubSeq(text, CHOOSE i \in solid : \A j \in solid : i <= j,
                        CHOOSE i \in solid : \A j \in solid : j <= i)

ValidVersion(text) ==
  /\ Len(Trimmed(text)) \in 1 .. 3
  /\ \A i \in DOMAIN Trimmed(text) : Trimmed(text)[i] \in Numbers

-----------------------------------------------------------------------------
(* ParseFrom.                                                              *)

Started(input) ==
  [rest |-> input, delim |-> IndexOf(input, Delimiter),
   name |-> <<>>, version |-> <<>>, failed |-> Blank(input)]

(* Mutant: keys are compared as they are written.                          *)
AssignCaseSensitive(st, pair) ==
  LET eq    == IndexOf(pair, "=")
      key   == SubSeq(pair, 1, eq)
      value == SubSeq(pair, eq + 2, Len(pair))
  IN  IF key = <<"name">>
      THEN [st EXCEPT !.name = value, !.failed = @ \/ ~ValidInput(value)]
      ELSE IF key = <<"version">>
      THEN [st EXCEPT !.version = Trimmed(value), !.failed = @ \/ ~ValidVersion(value)]
      ELSE st

(* What one pair adds to the parse so far.                                 *)
Assign(st, pair) ==
  LET eq    == IndexOf(pair, "=")
      key   == SubSeq(pair, 1, eq)
      value == SubSeq(pair, eq + 2, Len(pair))
  IN  IF eq = -1 THEN st
      ELSE IF key \in {<<"name">>, <<"Name">>}
      THEN [st EXCEPT !.name = value, !.failed = @ \/ ~ValidInput(value)]
      ELSE IF key = <<"version">>
      THEN [st EXCEPT !.version = Trimmed(value), !.failed = @ \/ ~ValidVersion(value)]
      ELSE st

(* Mutant: the next ";" is not looked for.                                 *)
RoundForgettingDelim(st) ==
  IF st.rest = <<>> THEN st
  ELSE IF st.delim = -1
  THEN Assign([st EXCEPT !.rest = <<>>], st.rest)
  ELSE Assign([st EXCEPT !.rest = SubSeq(st.rest, st.delim + 2, Len(st.rest)),
                         !.delim = -1],
              SubSeq(st.rest, 1, st.delim))

(* One round of the loop over the pairs.  delimPos is found anew only when *)
(* a pair was cut off at it.                                               *)
Round(st) ==
  IF st.rest = <<>> THEN st
  ELSE IF st.delim = -1
  THEN Assign([st EXCEPT !.rest = <<>>], st.rest)
  ELSE LET rest == SubSeq(st.rest, st.delim + 2, Len(st.rest))
       IN  Assign([st EXCEPT !.rest = rest, !.delim = IndexOf(rest, Delimiter)],
                  SubSeq(st.rest, 1, st.delim))

(* A round consumes at least one token, so Len(input) rounds are enough.   *)
ParseFrom(input) ==
  LET after[n \in 0 .. Len(input)] ==
        IF n = 0 THEN Started(input) ELSE Round(after[n - 1])
      end == after[Len(input)]
  IN  IF end.failed \/ end.name = <<>> \/ end.version = <<>> THEN NoInfo
      ELSE [name |-> end.name, version |-> end.version]

(* AppInfo.ToString: neither a missing name nor a missing version shows.   *)
ToText(info) ==
  <<"Name", "=">> \o info.name \o <<Delimiter, "version", "=">> \o info.version

(* DecodeMsg of EncodeMsg: a lone surrogate does not survive.              *)
ThroughPayload(text) ==
  [i \in DOMAIN text |-> IF text[i] = "lone" THEN "replaced" ELSE text[i]]

-----------------------------------------------------------------------------
(* What a text means, with no parser: its pieces lie between the ";"; a    *)
(* piece binds its key, all before its first "=", to the rest of it; the   *)
(* last binding of a key counts, and one bad value spoils the whole.       *)

Pieces(input) ==
  {p \in (1 .. Len(input) + 1) \X (0 .. Len(input)) :
     /\ p[1] <= p[2] + 1
     /\ p[1] = 1 \/ input[p[1] - 1] = Delimiter
     /\ p[2] = Len(input) \/ input[p[2] + 1] = Delimiter
     /\ \A i \in p[1] .. p[2] : input[i] # Delimiter}

Bindings(input, keys) ==
  {b \in Pieces(input) :
     b[1] + 1 <= b[2] /\ input[b[1]] \in keys /\ input[b[1] + 1] = "="}

ValueOf(input, b) == SubSeq(input, b[1] + 2, b[2])

LastOf(bindings) == CHOOSE b \in bindings : \A c \in bindings : c[1] <= b[1]

Meaning(input) ==
  LET names    == Bindings(input, {"name", "Name"})
      versions == Bindings(input, {"version"})
  IN  IF \/ names = {} \/ \E b \in names : ~ValidInput(ValueOf(input, b))
         \/ versions = {} \/ \E b \in versions : ~ValidVersion(ValueOf(input, b))
      THEN NoInfo
      ELSE [name    |-> ValueOf(input, LastOf(names)),
            version |-> Trimmed(ValueOf(input, LastOf(versions)))]

=============================================================================
