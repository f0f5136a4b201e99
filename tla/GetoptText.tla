------------------------------- MODULE GetoptText -------------------------------
(***************************************************************************)
(* What the complex getopt of LibUtils reads from one argument. A command  *)
(* line is a sequence of arguments: words (with "-" alone), "--", groups   *)
(* of letters behind one dash, and names behind two, with or without "=".  *)
(***************************************************************************)
EXTENDS Integers, Sequences, SequencesExt

CONSTANTS
  ShortOptions,    (* for each letter of optstring "none", "required" or     *)
                   (* "optional": the argument it takes                      *)
  LongOptions      (* the array longopts: records with name, takes and val   *)

(* The host gives no option the value -1, by which the end is told.         *)
ASSUME OptionsAssumption ==
  /\ LongOptions \in Seq([name : Seq(STRING), takes : {"none", "required", "optional"},
                          val : STRING])
  /\ \A i \in DOMAIN LongOptions : LongOptions[i].val # "end"
  /\ "end" \notin DOMAIN ShortOptions

(* getopt_a has no longopts; getopt_long_only_a allows names behind a single*)
(* dash.                                                                    *)
Functions == {"getopt", "getopt_long", "getopt_long_only"}

Argument(kind, letters, value) == [kind |-> kind, letters |-> letters, value |-> value]
Word == Argument("word", <<>>, FALSE)
Dashes == Argument("dashes", <<>>, FALSE)
Short(letters) == Argument("short", letters, FALSE)
Long(letters) == Argument("long", letters, FALSE)
LongWith(letters) == Argument("long", letters, TRUE)

(* What nextchar walks over: without longopts all of it counts as letters.  *)
Characters(function, argument) ==
  IF argument.kind = "long" /\ function = "getopt"
  THEN <<"-">> \o argument.letters \o (IF argument.value THEN <<"=">> ELSE <<>>)
  ELSE argument.letters

Null == 0
NotFound == 0
Ambiguous == -1
Unknown == "?"

(* The option whose name is given or abbreviated. The first of several that *)
(* may be meant is taken when they are the same option under other names.   *)
LongOption(function, name) ==
  LET matches == {i \in DOMAIN LongOptions : IsPrefix(name, LongOptions[i].name)}
      exact == {i \in matches : LongOptions[i].name = name}
      FirstOf(S) == CHOOSE i \in S : \A j \in S : i <= j
      Differs(i, j) == \/ function = "getopt_long_only"
                       \/ LongOptions[i].takes # LongOptions[j].takes
                       \/ LongOptions[i].val # LongOptions[j].val
  IN  IF exact # {} THEN FirstOf(exact)
      ELSE IF matches = {} THEN NotFound
      ELSE IF \E i \in matches \ {FirstOf(matches)} : Differs(i, FirstOf(matches))
           THEN Ambiguous ELSE FirstOf(matches)

(* The result of a call: the option, where its argument is (the position in *)
(* argv and the first character), and where the next call goes on.          *)
Result(option, arg, optind, nextchar) ==
  [option |-> option, arg |-> arg, optind |-> optind, nextchar |-> nextchar]
NoArg == <<>>

(* An option that takes the next argument, if there is one.                 *)
TakesNext(option, i, argc) ==
  IF i + 1 < argc THEN Result(option, <<i + 1, 0>>, i + 2, Null)
  ELSE Result(Unknown, NoArg, i + 1, Null)

LongResult(found, argument, i, argc) ==
  IF found \in {NotFound, Ambiguous} THEN Result(Unknown, NoArg, i + 1, Null)
  ELSE LET option == LongOptions[found].val
           takes == LongOptions[found].takes
       IN  IF argument.value
           THEN IF takes = "none" THEN Result(Unknown, NoArg, i + 1, Null)
                ELSE Result(option, <<i, Len(argument.letters) + 1>>, i + 1, Null)
           ELSE IF takes = "required" THEN TakesNext(option, i, argc)
                ELSE Result(option, NoArg, i + 1, Null)

ShortResult(letters, i, k, argc) ==
  LET c == letters[k]
      last == k = Len(letters)
      Next(option) == Result(option, NoArg, IF last THEN i + 1 ELSE i,
                             IF last THEN Null ELSE k + 1)
  IN  IF c \notin DOMAIN ShortOptions THEN Next(Unknown)
      ELSE IF ShortOptions[c] = "none" THEN Next(c)
      ELSE IF ~last THEN Result(c, <<i, k + 1>>, i + 1, Null)
      ELSE IF ShortOptions[c] = "required" THEN TakesNext(c, i, argc)
      ELSE Result(c, NoArg, i + 1, Null)

(* A name is tried first, by getopt_long_only_a in the middle of a group too*)
TriesName(function, argument) ==
  \/ function # "getopt" /\ argument.kind = "long"
  \/ /\ function = "getopt_long_only" /\ argument.kind = "short"
     /\ \/ Len(argument.letters) > 1
        \/ argument.letters[1] \notin DOMAIN ShortOptions

OptionAt(function, argument, i, k, argc) ==
  LET letters == Characters(function, argument)
      found == LongOption(function, SubSeq(letters, k, Len(letters)))
      FallsBack == /\ found = NotFound /\ argument.kind = "short"
                   /\ letters[k] \in DOMAIN ShortOptions
  IN  IF TriesName(function, argument) /\ ~FallsBack
      THEN LongResult(found, argument, i, argc)
      ELSE ShortResult(letters, i, k, argc)
=============================================================================
