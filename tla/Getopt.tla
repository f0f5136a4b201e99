--------------------------------- MODULE Getopt ---------------------------------
(***************************************************************************)
(* The complex getopt of LibUtils: a scan of argv that moves the words     *)
(* behind the options while it goes, with three indexes and the place in a *)
(* group of letters kept between calls. Every loop round of the permutation*)
(* is a step. An argument is known by its place in the line as it was given*)
(* to the scan; argv[0] is left out.                                       *)
(***************************************************************************)
EXTENDS GetoptText

CONSTANTS
  CommandLines,    (* the lines the host scans; "--" with "=" at once is left*)
                   (* out                                                    *)
  Orderings,       (* the orderings it asks for, out of all three            *)
  MaxScans         (* bound: how often it scans the line                     *)

ASSUME LinesAssumption ==
  \A l \in CommandLines :
    /\ l \in Seq([kind : {"word", "dashes", "short", "long"},
                  letters : Seq(STRING), value : BOOLEAN])
    /\ \A i \in DOMAIN l : l[i].kind \in {"short", "long"} => l[i].letters # <<>>
ASSUME OrderingsAssumption == Orderings \subseteq {"PERMUTE", "REQUIRE_ORDER", "RETURN_IN_ORDER"}
ASSUME MaxScansAssumption == MaxScans \in Nat

VARIABLES
  line,            (* the arguments                                          *)
  function,        (* which getopt is called                                 *)
  argv,            (* the places of the arguments, as they were given        *)
  optind, nextchar, first_nonopt, last_nonopt, ordering,
  pc,              (* where in a call the process is                         *)
  block,           (* the indexes of exchange_a, and what follows it         *)
  returned,        (* what the calls of this scan returned                   *)
  given,           (* argv when this scan began                              *)
  aside,           (* the words this scan has passed, in order               *)
  before,          (* what the calls of the scan before returned             *)
  scans            (* the number of scans                                    *)

setting == <<line, function, ordering>>
indexes == <<optind, nextchar, first_nonopt, last_nonopt>>
history == <<returned, given, aside, before, scans>>
vars == <<setting, argv, indexes, pc, block, history>>

argc == Len(line) + 1
At(i) == line[argv[i]]
IsWord(i) == At(i).kind = "word"
Lower(i, j) == IF i < j THEN i ELSE j
NoBlock == [bottom |-> 1, middle |-> 1, top |-> 1, after |-> "host"]
From(i, j) == [k \in 1..j - i |-> i + k - 1]
In(places) == [k \in DOMAIN places |-> argv[places[k]]]

(* What the host sees: an option with its argument, a word, or the end with *)
(* the arguments from optind on.                                            *)
Answer(option, arg, operands) == [option |-> option, arg |-> arg, operands |-> operands]
Returns(option, arg, operands) == returned' = Append(returned, Answer(option, arg, operands))

Init ==
  /\ line \in CommandLines /\ function \in Functions /\ ordering \in Orderings
  /\ argv = [i \in 1..Len(line) |-> i]
  /\ optind = 1 /\ nextchar = Null
  /\ first_nonopt = 1 /\ last_nonopt = 1
  /\ pc = "host" /\ block = NoBlock
  /\ returned = <<>> /\ given = argv /\ aside = <<>> /\ before = <<>> /\ scans = 1

-----------------------------------------------------------------------------
(* The host calls until it is told the end, and may then scan again: it sets*)
(* optind to 0, which starts all over, or to 1.                             *)

ScanAgain(index) ==
  /\ pc = "done" /\ scans < MaxScans
  /\ IF index = 0
     THEN nextchar' = Null /\ first_nonopt' = 1 /\ last_nonopt' = 1
     ELSE UNCHANGED <<nextchar, first_nonopt, last_nonopt>>
  /\ optind' = 1 /\ pc' = "host"
  /\ scans' = scans + 1
  /\ before' = returned /\ returned' = <<>> /\ given' = argv /\ aside' = <<>>
  /\ UNCHANGED <<setting, argv, block>>

(* A call in the middle of a group goes on there.                           *)
NextLetter ==
  /\ pc = "host" /\ nextchar # Null
  /\ pc' = "option"
  /\ UNCHANGED <<setting, argv, indexes, block, history>>

NextArgument ==
  /\ pc = "host" /\ nextchar = Null
  /\ last_nonopt' = Lower(last_nonopt, optind)
  /\ first_nonopt' = Lower(first_nonopt, optind)
  /\ pc' = IF ordering = "PERMUTE" THEN "permute" ELSE "dashes"
  /\ UNCHANGED <<setting, argv, optind, nextchar, block, history>>

-----------------------------------------------------------------------------
(* The words that were passed are moved behind the options since then.      *)
Exchange(top, after) ==
  /\ block' = [bottom |-> first_nonopt, middle |-> last_nonopt, top |-> top, after |-> after]
  /\ pc' = "exchange"

Permute ==
  /\ pc = "permute"
  /\ IF first_nonopt # last_nonopt /\ last_nonopt # optind
     THEN Exchange(optind, "skip") /\ UNCHANGED first_nonopt
     ELSE /\ first_nonopt' = IF last_nonopt # optind THEN optind ELSE first_nonopt
          /\ pc' = "skip" /\ UNCHANGED block
  /\ UNCHANGED <<setting, argv, optind, nextchar, last_nonopt, history>>

(* Mutant: the arguments are copied, not swapped.                           *)
SwappedOneWay(i, j, len) ==
  [k \in DOMAIN argv |-> IF k \in i..i + len - 1 THEN argv[k + (j - i)] ELSE argv[k]]

(* Mutant: the options arrive in the opposite order.                        *)
SwappedReversed(i, j, len) ==
  [k \in DOMAIN argv |-> IF k \in i..i + len - 1 THEN argv[j + len - 1 - (k - i)]
                         ELSE IF k \in j..j + len - 1 THEN argv[k - (j - i)]
                         ELSE argv[k]]

(* len arguments from i on change places with those from j on.              *)
Swapped(i, j, len) ==
  [k \in DOMAIN argv |-> IF k \in i..i + len - 1 THEN argv[k + (j - i)]
                         ELSE IF k \in j..j + len - 1 THEN argv[k - (j - i)]
                         ELSE argv[k]]

(* Mutant: a round that moves all options goes one too far.                 *)
ExchangeRoundTooFar ==
  /\ pc = "exchange" /\ block.top > block.middle /\ block.middle > block.bottom
  /\ LET words == block.middle - block.bottom
         options == block.top - block.middle
     IN  IF options > words
         THEN /\ argv' = Swapped(block.bottom, block.top - words, words)
              /\ block' = [block EXCEPT !.top = @ - words]
         ELSE /\ argv' = Swapped(block.bottom, block.middle, options)
              /\ block' = [block EXCEPT !.bottom = @ + options + 1]
  /\ UNCHANGED <<setting, indexes, pc, history>>

(* Mutant: a round that moves all words does not give up their place.       *)
ExchangeRoundStays ==
  /\ pc = "exchange" /\ block.top > block.middle /\ block.middle > block.bottom
  /\ LET words == block.middle - block.bottom
         options == block.top - block.middle
     IN  IF options > words
         THEN /\ argv' = Swapped(block.bottom, block.top - words, words)
              /\ UNCHANGED block
         ELSE /\ argv' = Swapped(block.bottom, block.middle, options)
              /\ block' = [block EXCEPT !.bottom = @ + options]
  /\ UNCHANGED <<setting, indexes, pc, history>>

(* A round of exchange_a.                                                   *)
ExchangeRound ==
  /\ pc = "exchange" /\ block.top > block.middle /\ block.middle > block.bottom
  /\ LET words == block.middle - block.bottom
         options == block.top - block.middle
     IN  IF options > words
         THEN /\ argv' = Swapped(block.bottom, block.top - words, words)
              /\ block' = [block EXCEPT !.top = @ - words]
         ELSE /\ argv' = Swapped(block.bottom, block.middle, options)
              /\ block' = [block EXCEPT !.bottom = @ + options]
  /\ UNCHANGED <<setting, indexes, pc, history>>

(* Mutant: the words are thought to be where the options went.              *)
ExchangedForgets ==
  /\ pc = "exchange" /\ ~(block.top > block.middle /\ block.middle > block.bottom)
  /\ first_nonopt' = last_nonopt
  /\ last_nonopt' = optind
  /\ pc' = block.after
  /\ UNCHANGED <<setting, argv, optind, nextchar, block, history>>

Exchanged ==
  /\ pc = "exchange" /\ ~(block.top > block.middle /\ block.middle > block.bottom)
  /\ first_nonopt' = first_nonopt + (optind - last_nonopt)
  /\ last_nonopt' = optind
  /\ pc' = block.after
  /\ UNCHANGED <<setting, argv, optind, nextchar, block, history>>

-----------------------------------------------------------------------------

(* Mutant: "--" is passed like a word.                                      *)
SkipWordOrDashes ==
  /\ pc = "skip" /\ optind # argc /\ At(optind).kind \in {"word", "dashes"}
  /\ optind' = optind + 1
  /\ aside' = Append(aside, argv[optind])
  /\ UNCHANGED <<setting, argv, nextchar, first_nonopt, last_nonopt, pc, block,
                 returned, given, before, scans>>

SkipWord ==
  /\ pc = "skip" /\ optind # argc /\ IsWord(optind)
  /\ optind' = optind + 1
  /\ aside' = Append(aside, argv[optind])
  /\ UNCHANGED <<setting, argv, nextchar, first_nonopt, last_nonopt, pc, block,
                 returned, given, before, scans>>

SkipEnds ==
  /\ pc = "skip"
  /\ optind # argc => ~IsWord(optind)
  /\ last_nonopt' = optind
  /\ pc' = "dashes"
  /\ UNCHANGED <<setting, argv, optind, nextchar, first_nonopt, block, history>>

(* "--" ends the options: all that follows is taken as words.               *)
AtDashes == optind # argc /\ At(optind).kind = "dashes"

DashesSeen ==
  /\ pc = "dashes" /\ AtDashes
  /\ optind' = optind + 1
  /\ IF first_nonopt # last_nonopt /\ last_nonopt # optind + 1
     THEN Exchange(optind + 1, "rest") /\ UNCHANGED first_nonopt
     ELSE /\ first_nonopt' = IF first_nonopt = last_nonopt THEN optind + 1 ELSE first_nonopt
          /\ pc' = "rest" /\ UNCHANGED block
  /\ aside' = aside \o In(From(optind + 1, argc))
  /\ UNCHANGED <<setting, argv, nextchar, last_nonopt, returned, given, before, scans>>

RestAreWords ==
  /\ pc = "rest"
  /\ last_nonopt' = argc /\ optind' = argc
  /\ pc' = "end"
  /\ UNCHANGED <<setting, argv, nextchar, first_nonopt, block, history>>

(* The end: optind goes back to the first word.                             *)
Ends(index) ==
  /\ optind' = index /\ pc' = "done"
  /\ Returns("end", NoArg, In(From(index, argc)))
  /\ UNCHANGED <<setting, argv, nextchar, first_nonopt, last_nonopt, block, given, aside, before, scans>>

ScanEnds ==
  \/ /\ pc = "dashes" /\ optind = argc /\ pc' = "end"
     /\ UNCHANGED <<setting, argv, indexes, block, history>>
  \/ /\ pc = "end"
     /\ Ends(IF first_nonopt # last_nonopt THEN first_nonopt ELSE optind)

(* A word where an option could be, without permutation.                    *)
WordMet ==
  /\ pc = "dashes" /\ optind # argc /\ IsWord(optind)
  /\ IF ordering = "REQUIRE_ORDER" THEN Ends(optind)
     ELSE /\ Returns("word", <<argv[optind], 0>>, <<>>)
          /\ optind' = optind + 1 /\ pc' = "host"
          /\ UNCHANGED <<setting, argv, nextchar, first_nonopt, last_nonopt, block,
                         given, aside, before, scans>>

OptionMet ==
  /\ pc = "dashes" /\ optind # argc /\ ~IsWord(optind) /\ ~AtDashes
  /\ nextchar' = 1 /\ pc' = "option"
  /\ UNCHANGED <<setting, argv, optind, first_nonopt, last_nonopt, block, history>>

(* The argument of a result, by the place of its text in the line.          *)
Placed(arg) == IF arg = NoArg THEN NoArg ELSE <<argv[arg[1]], arg[2]>>

OptionRead ==
  /\ pc = "option"
  /\ \E r \in {OptionAt(function, At(optind), optind, nextchar, argc)} :
       /\ Returns(r.option, Placed(r.arg), <<>>)
       /\ optind' = r.optind /\ nextchar' = r.nextchar
  /\ pc' = "host"
  /\ UNCHANGED <<setting, argv, first_nonopt, last_nonopt, block, given, aside, before, scans>>

Scan ==
  \/ NextLetter \/ NextArgument \/ Permute \/ ExchangeRound \/ Exchanged \/ SkipWord \/ SkipEnds
  \/ DashesSeen \/ RestAreWords \/ ScanEnds \/ WordMet \/ OptionMet \/ OptionRead

Next == Scan \/ \E index \in {0, 1} : ScanAgain(index)

(* getopt is called until it tells the end.                                 *)
Spec == Init /\ [][Next]_vars /\ WF_vars(Scan)

-----------------------------------------------------------------------------
(* Properties.                                                              *)

(* The variables keep their types, the indexes stay between 1 and argc and, *)
(* once a call has cut them back to optind, in order, and a place in a group*)
(* is a place in the argument at optind: no access is outside argv.         *)
TypeOK ==
  /\ argv \in [1..Len(line) -> 1..Len(line)]
  /\ optind \in 1..argc /\ first_nonopt \in 1..argc /\ last_nonopt \in 1..argc
  /\ nextchar # Null => /\ optind < argc /\ ~IsWord(optind)
                        /\ nextchar \in 1..Len(Characters(function, At(optind)))
  /\ pc \in {"host", "permute", "exchange", "skip", "dashes", "rest", "end", "option", "done"}
  /\ pc = "permute" => (first_nonopt <= last_nonopt /\ last_nonopt <= optind)
  /\ pc = "exchange" => /\ first_nonopt <= block.bottom /\ block.bottom <= block.middle
                        /\ block.middle <= block.top /\ block.top <= optind
                        /\ block.middle = last_nonopt /\ block.after \in {"skip", "rest"}

(* The permutation loses and doubles no argument, and leaves those alone    *)
(* that the scan has not reached.                                           *)
NothingLost ==
  /\ {argv[i] : i \in DOMAIN argv} = 1..Len(line)
  /\ pc # "done" => \A i \in optind..Len(line) : argv[i] = given[i]

(* Between first_nonopt and last_nonopt are the words that were passed, in  *)
(* their order, and at the end all of them are behind optind.               *)
OperandsKept ==
  /\ pc \in {"permute", "dashes", "option"} =>
       In(From(first_nonopt, last_nonopt)) = aside
  /\ (pc = "done" /\ ordering = "PERMUTE") => In(From(optind, argc)) = aside

(* A scan without a mistake in the line can be repeated on what it has left *)
(* of argv, and returns the same again.                                     *)
RescanAgrees ==
  (pc = "done" /\ scans > 1 /\ \A i \in DOMAIN before : before[i].option # Unknown)
    => returned = before

(* A host that calls until it is told the end is told so.                   *)
ScanFinishes == pc = "host" ~> pc = "done"

(* A scan that moves arguments returns what a reader of the unmoved line    *)
(* does, and leaves the words behind the rest.                              *)
Reading ==
  INSTANCE GetoptReading
    WITH next <- IF pc \in {"rest", "done"} \/ (pc = "exchange" /\ block.after = "rest")
                 THEN argc ELSE optind
ReadingImplemented == Reading!Spec
=============================================================================
