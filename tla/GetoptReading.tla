------------------------------ MODULE GetoptReading ------------------------------
(***************************************************************************)
(* What the complex getopt promises: it reads a command line from left to  *)
(* right and moves nothing. Words are set aside, returned or the end of the*)
(* scan, as the ordering says; at the end the host has all words that were *)
(* set aside and all arguments that were not read. A further scan reads the*)
(* options first and then those words.                                     *)
(***************************************************************************)
EXTENDS GetoptText

VARIABLES line, function, given, ordering, next, nextchar, aside, returned, scans, before

setting == <<line, function, ordering>>
vars == <<setting, given, next, nextchar, aside, returned, scans, before>>

argc == Len(line) + 1
At(i) == line[given[i]]
Kind(i) == At(i).kind
Rest(i) == SubSeq(given, i, Len(line))
Answer(option, arg, operands) == [option |-> option, arg |-> arg, operands |-> operands]
Returns(option, arg, operands) == returned' = Append(returned, Answer(option, arg, operands))
Scanning == \A i \in DOMAIN returned : returned[i].option # "end"

Init ==
  /\ given = [i \in 1..Len(line) |-> i]
  /\ next = 1 /\ nextchar = Null
  /\ aside = <<>> /\ returned = <<>> /\ before = <<>> /\ scans = 1

SetAside ==
  /\ ordering = "PERMUTE" /\ Scanning /\ nextchar = Null
  /\ next < argc /\ Kind(next) = "word"
  /\ next' = next + 1 /\ aside' = Append(aside, given[next])
  /\ UNCHANGED <<setting, given, nextchar, returned, scans, before>>

ReturnWord ==
  /\ ordering = "RETURN_IN_ORDER" /\ Scanning /\ nextchar = Null
  /\ next < argc /\ Kind(next) = "word"
  /\ Returns("word", <<given[next], 0>>, <<>>)
  /\ next' = next + 1
  /\ UNCHANGED <<setting, given, nextchar, aside, scans, before>>

BeginOption ==
  /\ Scanning /\ nextchar = Null /\ next < argc /\ Kind(next) \in {"short", "long"}
  /\ nextchar' = 1
  /\ UNCHANGED <<setting, given, next, aside, returned, scans, before>>

ReadOption ==
  /\ Scanning /\ nextchar # Null
  /\ LET r == OptionAt(function, At(next), next, nextchar, argc)
     IN  /\ Returns(r.option, IF r.arg = NoArg THEN NoArg ELSE <<given[r.arg[1]], r.arg[2]>>, <<>>)
         /\ next' = r.optind /\ nextchar' = r.nextchar
  /\ UNCHANGED <<setting, given, aside, scans, before>>

(* All arguments behind "--" are words.                                     *)
PassDashes ==
  /\ Scanning /\ nextchar = Null /\ next < argc /\ Kind(next) = "dashes"
  /\ next' = argc /\ aside' = aside \o Rest(next + 1)
  /\ UNCHANGED <<setting, given, nextchar, returned, scans, before>>

End ==
  /\ Scanning /\ nextchar = Null
  /\ next # argc => ordering = "REQUIRE_ORDER" /\ Kind(next) = "word"
  /\ Returns("end", NoArg, aside \o Rest(next))
  /\ next' = argc
  /\ UNCHANGED <<setting, given, nextchar, aside, scans, before>>

(* The arguments that were not handed over come first, in their order.      *)
Earlier(p, q) == \E k, l \in DOMAIN given : k < l /\ given[k] = p /\ given[l] = q
Moved(operands) ==
  LET read == Len(line) - Len(operands)
  IN  /\ {given'[i] : i \in DOMAIN given'} = {given[i] : i \in DOMAIN given}
      /\ \A i, j \in 1..read : i < j => Earlier(given'[i], given'[j])
      /\ \A i \in DOMAIN operands : given'[read + i] = operands[i]

ScanAgain ==
  /\ ~Scanning
  /\ given' \in [DOMAIN given -> DOMAIN given]
  /\ Moved(returned[Len(returned)].operands)
  /\ next' = 1 /\ aside' = <<>>
  /\ before' = returned /\ returned' = <<>> /\ scans' = scans + 1
  /\ UNCHANGED <<setting, nextchar>>

Next == SetAside \/ ReturnWord \/ BeginOption \/ ReadOption \/ PassDashes \/ End \/ ScanAgain

Spec == Init /\ [][Next]_vars
=============================================================================
