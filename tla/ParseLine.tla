------------------------------- MODULE ParseLine -------------------------------
(***************************************************************************)
(* How the shells of project 2 take a line apart: parseline of the three     *)
(* phases, the split at | of phases 2 and 3, and of phase 3 the command line *)
(* of a job and the job id of a builtin.  A character is a string of length  *)
(* one, a line a sequence of them without its newline.                       *)
(*                                                                           *)
(* The specification types lines character by character, so that its states  *)
(* are the lines and its invariants say what every line is taken for.        *)
(***************************************************************************)
EXTENDS Integers, SequencesExt

CONSTANTS
    MAXARGS, MAXCMDS,
    LineChars,      \* the characters of command lines
    IdChars,        \* the characters of job ids
    MaxLine, MaxId, \* bound the lengths
    INT_MAX, LONG_MAX

ASSUME ParseLineAssumption ==
    /\ MAXARGS \in Nat \ {0, 1} /\ MAXCMDS \in Nat \ {0}
    /\ MaxLine \in Nat /\ MaxId \in Nat
    /\ INT_MAX \in Nat /\ LONG_MAX \in Nat /\ INT_MAX <= LONG_MAX
    /\ {"between", "word", "overflow"} \intersect LineChars = {}   \* which are no characters

Quotes == {"'", "''"}     \* the second stands for the double quote

\* What phase 1 splits at, and the blanks of isspace; CR stands for \r, \v and \f.
Separators == {" ", "\t"}
Blanks == Separators \union {"CR"}
isspace(c) == c \in Blanks

VARIABLES
    line,       \* a command line
    arg         \* the argument of bg, fg or kill

vars == <<line, arg>>

\* A token is a run of characters that are not delimiters.
strtok(s, delims) ==
    LET Take(t, c) == IF c \in delims THEN [t EXCEPT !.open = FALSE]
                      ELSE IF t.open THEN [t EXCEPT !.toks[Len(t.toks)] = Append(@, c)]
                      ELSE [toks |-> Append(t.toks, <<c>>), open |-> TRUE]
    IN  FoldLeft(Take, [toks |-> << >>, open |-> FALSE], s).toks

\* Plausible bug: either quote ends what one of them began.
Scan_AnyQuote(p, c, limit) ==
    IF p.mode = "between"
    THEN IF isspace(c) \/ Len(p.argv) >= limit THEN p
         ELSE IF c \in Quotes THEN [argv |-> Append(p.argv, << >>), mode |-> c]
         ELSE [argv |-> Append(p.argv, <<c>>), mode |-> "word"]
    ELSE IF (p.mode \in Quotes /\ c \in Quotes) \/ (p.mode = "word" /\ isspace(c))
    THEN [p EXCEPT !.mode = "between"]
    ELSE [p EXCEPT !.argv[Len(p.argv)] = Append(@, c)]

\* Between words, inside one, or inside quotes, which begin a word only between words.
Scan(p, c, limit) ==
    IF p.mode = "between"
    THEN IF isspace(c) \/ Len(p.argv) >= limit THEN p
         ELSE IF c \in Quotes THEN [argv |-> Append(p.argv, << >>), mode |-> c]
         ELSE [argv |-> Append(p.argv, <<c>>), mode |-> "word"]
    ELSE IF p.mode = c \/ (p.mode = "word" /\ isspace(c)) THEN [p EXCEPT !.mode = "between"]
    ELSE [p EXCEPT !.argv[Len(p.argv)] = Append(@, c)]

\* Plausible bug: an empty argument is not one.
ParseUpTo_DropsEmpty(s, limit) ==
    SelectSeq(FoldLeft(LAMBDA p, c : Scan(p, c, limit), [argv |-> << >>, mode |-> "between"], s).argv,
              LAMBDA a : a # << >>)

ParseUpTo(s, limit) ==
    FoldLeft(LAMBDA p, c : Scan(p, c, limit), [argv |-> << >>, mode |-> "between"], s).argv

\* argv has room for MAXARGS pointers, the last one NULL.  Phases 1 and 2 write on behind it,
\* which is undefined; nothing is said here of what comes of it.
Overflow == << <<"overflow">> >>
InArgv(words) == IF Len(words) < MAXARGS THEN words ELSE Overflow

\* parseline of phases 1, 2 and 3.  Only the last one stops when argv is full.
parseline1(s) == InArgv(strtok(s, Separators))
parseline2(s) == InArgv(ParseUpTo(s, Len(s)))
parseline3(s) == ParseUpTo(s, MAXARGS - 1)

\* The commands of a line with a |, eval of phase 2.  The newline is still there; behind a |
\* it is a command of its own, from which parseline takes it away.
Commands2(s) ==
    LET cmds == strtok(s, {"|"}) \o (IF Last(s) = "|" THEN << << >> >> ELSE << >>)
    IN  SubSeq(cmds, 1, Min({Len(cmds), MAXCMDS}))

trim_ws(s) ==
    LET text == {k \in DOMAIN s : ~isspace(s[k])}
    IN  IF text = {} THEN << >> ELSE SubSeq(s, Min(text), Max(text))

\* Plausible bug: the & is looked for before the blanks behind it are gone.
normalize_jobcmd_TrimsLast(s) ==
    IF s # << >> /\ Last(s) = "&" THEN trim_ws(Front(s)) ELSE trim_ws(s)

normalize_jobcmd(s) ==
    LET t == trim_ws(s)
    IN  IF t # << >> /\ Last(t) = "&" THEN trim_ws(Front(t)) ELSE t

NoQuote == "none"

\* The state of the loop of parse_line: the segment that has begun, those before it,
\* the quote that is open if one is, and whether -1 was returned.
Begin == [start |-> << >>, segments |-> << >>, quote |-> NoQuote, failed |-> FALSE]

\* Plausible bug: one kind of quote ends the other.
ToggleQuote_Any(p, c) == IF p.quote = NoQuote THEN c ELSE NoQuote

\* in_single and in_double; a quote inside the other kind is an ordinary character.
ToggleQuote(p, c) == IF p.quote = NoQuote THEN c ELSE IF p.quote = c THEN NoQuote ELSE p.quote

\* Plausible bug: the bound is tested with > instead of >=.
SegmentEnds_OneMore(p) ==
    LET seg == trim_ws(p.start)
    IN  [p EXCEPT !.start = << >>, !.segments = Append(@, seg),
                  !.failed = seg = << >> \/ Contains(seg, "&") \/ Len(p.segments) + 1 > MAXCMDS]

\* At a | outside of quotes.
SegmentEnds(p) ==
    LET seg == trim_ws(p.start)
    IN  [p EXCEPT !.start = << >>, !.segments = Append(@, seg),
                  !.failed = seg = << >> \/ Contains(seg, "&") \/ Len(p.segments) + 1 >= MAXCMDS]

LoopBody(p, c) ==
    IF p.failed THEN p
    ELSE IF c \in Quotes THEN [p EXCEPT !.quote = ToggleQuote(p, c), !.start = Append(@, c)]
    ELSE IF c = "|" /\ p.quote = NoQuote THEN SegmentEnds(p)
    ELSE [p EXCEPT !.start = Append(@, c)]

Error == [ok |-> FALSE, segments |-> << >>, bg |-> FALSE]
Read(segments, bg) == [ok |-> TRUE, segments |-> segments, bg |-> bg]

parse_line(s) ==
    LET p == FoldLeft(LoopBody, Begin, s)
        rest == trim_ws(p.start)
        bg == rest # << >> /\ Last(rest) = "&"
        start == IF bg THEN trim_ws(Front(rest)) ELSE rest
    IN  IF p.failed THEN Error
        ELSE IF rest = << >> THEN IF p.segments = << >> THEN Read(<< >>, FALSE) ELSE Error
        ELSE IF start = << >> \/ Contains(start, "&") THEN Error
        ELSE Read(Append(p.segments, start), bg)

Digits ==
    LET chars == <<"0", "1", "2", "3", "4", "5", "6", "7", "8", "9">>
    IN  [c \in Range(chars) |-> CHOOSE d \in 0..9 : chars[d + 1] = c]

\* The number that digits are read as, one after the other.
Decimal(s) == FoldLeft(LAMBDA v, c : 10 * v + Digits[c], 0, s)

\* strtol: blanks, a sign, digits as long as there are any, and where it stopped.  Without a
\* digit it stops at the beginning.
strtol(s) ==
    LET skip == CHOOSE k \in 0..Len(s) : /\ \A m \in 1..k : isspace(s[m])
                                         /\ k < Len(s) => ~isspace(s[k + 1])
        sign == IF skip < Len(s) /\ s[skip + 1] \in {"+", "-"} THEN 1 ELSE 0
        from == skip + sign
        to == CHOOSE k \in from..Len(s) : /\ \A m \in (from + 1)..k : s[m] \in DOMAIN Digits
                                          /\ k < Len(s) => s[k + 1] \notin DOMAIN Digits
        n == Decimal(SubSeq(s, from + 1, to))
        signed == IF sign = 1 /\ s[from] = "-" THEN -n ELSE n
    IN  [n |-> Max({-LONG_MAX - 1, Min({LONG_MAX, signed})}),
         end |-> IF to = from THEN 0 ELSE to]

\* The conversion to int keeps the lower bits.
AsInt(n) == ((n + INT_MAX + 1) % (2 * INT_MAX + 2)) - (INT_MAX + 1)

NoJobId == 0

\* Plausible bug: characters after the number are not noticed.
parse_job_id_AnyEnd(s) ==
    IF s = << >> \/ s[1] # "%" THEN NoJobId
    ELSE LET r == strtol(Tail(s))
         IN  IF s = <<"%">> \/ AsInt(r.n) <= 0 THEN NoJobId ELSE AsInt(r.n)

\* The job id, or NoJobId if it returns -1.
parse_job_id(s) ==
    IF s = << >> \/ s[1] # "%" THEN NoJobId
    ELSE LET r == strtol(Tail(s))
         IN  IF s = <<"%">> \/ r.end # Len(s) - 1 \/ AsInt(r.n) <= 0 THEN NoJobId ELSE AsInt(r.n)

-----------------------------------------------------------------------------
Init == line = << >> /\ arg = << >>

Type(c) == arg = << >> /\ Len(line) < MaxLine /\ line' = Append(line, c) /\ UNCHANGED arg
TypeId(c) == line = << >> /\ Len(arg) < MaxId /\ arg' = Append(arg, c) /\ UNCHANGED line

Next == (\E c \in LineChars : Type(c)) \/ (\E c \in IdChars : TypeId(c))

Spec == Init /\ [][Next]_vars

-----------------------------------------------------------------------------
(* What a command line means, said without a scanner.                       *)

\* Quotes come in pairs, with anything but themselves between them.
Balanced[s \in Seq(LineChars)] ==
    \/ s = << >>
    \/ s[1] \notin Quotes /\ Balanced[Tail(s)]
    \/ \E k \in 2..Len(s) : /\ s[1] \in Quotes /\ s[k] = s[1]
                            /\ \A m \in 2..(k - 1) : s[m] # s[1]
                            /\ Balanced[SubSeq(s, k + 1, Len(s))]

Bars(s) == {k \in DOMAIN s : s[k] = "|" /\ Balanced[SubSeq(s, 1, k - 1)]}

\* What is between the places in at.
Cut(s, at) ==
    LET ends == at \union {0, Len(s) + 1}
        cut == [n \in 1..Cardinality(ends) |->
                   CHOOSE k \in ends : Cardinality({m \in ends : m < k}) = n - 1]
    IN  [n \in 1..(Cardinality(ends) - 1) |-> SubSeq(s, cut[n] + 1, cut[n + 1] - 1)]

Pieces(s) == [n \in DOMAIN Cut(s, Bars(s)) |-> trim_ws(Cut(s, Bars(s))[n])]

\* A pipeline in the background has an & at the end and nowhere else, the quotes do not matter.
InBackground(s) == \E k \in DOMAIN s : s[k] = "&" /\ \A m \in (k + 1)..Len(s) : isspace(s[m])

Pipeline(s) ==
    LET text == trim_ws(s)
        bg == InBackground(s)
        segments == Pieces(IF bg THEN Front(text) ELSE text)
    IN  IF text = << >> THEN Read(<< >>, FALSE)
        ELSE IF \/ << >> \in Range(segments)
                \/ Contains(IF bg THEN Front(text) ELSE text, "&")
                \/ Len(segments) > MAXCMDS
             THEN Error
        ELSE Read(segments, bg)

\* parse_line reads in every line the pipeline that is written there, and finds every
\* error: quotes of either kind, open to the end of the line too, bars and an & in any
\* places, and one command more than there is room for.
ParseLineReadsThePipeline == parse_line(line) = Pipeline(line)

\* What parse_line accepts has a command in each segment: parseline, which has other rules
\* for quotes, finds one, so that no stage of a launch comes out empty.
EverySegmentHasACommand ==
    \A k \in DOMAIN parse_line(line).segments : parseline3(parse_line(line).segments[k]) # << >>

\* The command line that jobs shows, typed again, is the same pipeline in the foreground.
JobCommandReadsTheSame ==
    parse_line(line).ok =>
        parse_line(normalize_jobcmd(line)) = Read(parse_line(line).segments, FALSE)

\* An argument as it has to be typed; one with both kinds of quotes need not exist.
Written(a) ==
    IF a # << >> /\ Range(a) \intersect (Quotes \union Blanks) = {} THEN a
    ELSE LET q == CHOOSE q \in Quotes : ~Contains(a, q) IN <<q>> \o a \o <<q>>

\* Any arguments can be given to a command: whatever strings are written one after the
\* other, in quotes where they need them, parseline of phases 2 and 3 makes the same of them
\* if argv holds them.  Of more, phase 3 has those that argv holds; phase 2 overflows it.
\* Here they are what is between the bars of the line.
ArgumentsSurvive ==
    LET argv == Cut(line, {k \in DOMAIN line : line[k] = "|"})
        typed == FoldLeft(LAMBDA s, a : s \o Written(a) \o <<" ">>, << >>, argv)
    IN  (\A k \in DOMAIN argv : ~ Quotes \subseteq Range(argv[k])) =>
           /\ Len(argv) < MAXARGS => parseline2(typed) = argv
           /\ parseline3(typed) = SubSeq(argv, 1, Min({Len(argv), MAXARGS - 1}))

\* Each phase extends the one before it.  A line without quotes, if it has neither a | nor
\* other blanks than those that phase 1 splits at, is the same words to phases 1 and 2; a
\* pipeline without & that phase 3 accepts has the same commands with the same arguments in
\* phase 2.  All where argv of the earlier phase does not overflow.
LaterPhasesExtendEarlier ==
    Range(line) \intersect (Quotes \union {"&"}) = {} =>
       LET p == parse_line(line)
           cmds == IF Contains(line, "|") THEN Commands2(line) ELSE <<line>>
           others == Blanks \ Separators
       IN  /\ /\ ~Contains(line, "|") /\ Range(line) \intersect others = {}
              /\ parseline1(line) # Overflow
              => parseline2(line) = parseline1(line)
           /\ p.ok /\ p.segments # << >> /\ (\A k \in DOMAIN cmds : parseline2(cmds[k]) # Overflow) =>
                 [k \in DOMAIN cmds |-> parseline2(cmds[k])]
                     = [k \in DOMAIN p.segments |-> parseline3(p.segments[k])]

\* Powers of ten.
TenTo[k \in Nat] == IF k = 0 THEN 1 ELSE 10 * TenTo[k - 1]

\* The digits at the end of an argument, as a number.
NumberTyped(s) ==
    LET first == CHOOSE k \in 1..(Len(s) + 1) : /\ \A m \in k..Len(s) : s[m] \in DOMAIN Digits
                                                /\ k > 1 => s[k - 1] \notin DOMAIN Digits
    IN  [before |-> SubSeq(s, 1, first - 1),
         n |-> MapThenSumSet(LAMBDA m : Digits[s[m]] * TenTo[Len(s) - m], first..Len(s))]

\* Whatever job id is accepted is the number that was typed after the %, with blanks and +
\* before it and nothing behind it; and every positive number is accepted.  All as long as the number
\* is that of an int.
JobIdsAreWhatWasTyped ==
    LET t == NumberTyped(arg)
    IN  t.n <= INT_MAX =>
           /\ parse_job_id(arg) # NoJobId => /\ parse_job_id(arg) = t.n
                                             /\ arg[1] = "%"
                                             /\ Range(Tail(t.before)) \subseteq Blanks \union {"+"}
           /\ t.before = <<"%">> /\ t.n > 0 => parse_job_id(arg) = t.n
=============================================================================
