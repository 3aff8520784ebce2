--------------------------------- MODULE Log ---------------------------------
(***************************************************************************)
(* The log pattern: compilePattern turns it into formatters, each literal  *)
(* text or a flag with padding, and logImpl lets them format a message.    *)
(*                                                                         *)
(* A character of the pattern is a one-letter string; of what a formatter  *)
(* writes only the length matters.                                         *)
(***************************************************************************)
EXTENDS Integers, Sequences, SequencesExt

CONSTANTS Patterns,   \* sequences of characters, to compile
          Digit,      \* a function from the digits among them to their values
          Builtin,    \* flags that registerFlagFormatters adds itself, "#" for the line
          UserFlags,  \* flags the user may register formatters for
          Lengths,    \* of what other flags than "#" stand for
          Lines       \* source lines

VARIABLES pattern,    \* the argument of makeLogSystem
          map,        \* flagFormatterMap: "builtin", "user" or, once moved from, "null"
          i,          \* lex.i
          formatters,
          result,     \* of compilePattern; "none" until it returns
          out         \* the fields of the message so far

vars == <<pattern, map, i, formatters, result, out>>

kU8Max == 255

\* registerFlagFormatters: the user's formatters come first.
Registered(user) ==
  [f \in Builtin \cup user |-> IF f \in user THEN "user" ELSE "builtin"]

Init ==
  /\ pattern \in Patterns
  /\ \E user \in SUBSET UserFlags : map = Registered(user)
  /\ i = 0 /\ formatters = <<>> /\ result = "none" /\ out = <<>>
-----------------------------------------------------------------------------
(* compilePattern: one action per turn of its loop *)

\* lex.pattern[j]; indices count from 0.
At(j) == pattern[j + 1]

\* Where the run of such characters that starts at j ends.
RunEnd(j, chars) ==
  CHOOSE e \in j .. Len(pattern) :
    /\ \A k \in j .. e - 1 : At(k) \in chars
    /\ e < Len(pattern) => At(e) \notin chars

Digits == DOMAIN Digit

Text == Range(pattern) \ {"%"}

Value(digits) == FoldLeft(LAMBDA count, c : count * 10 + Digit[c], 0, digits)

Running == result = "none" /\ i < Len(pattern)

\* (mutant of LexFlagFormatter) The formatter is not moved out of the map.
LexFlagFormatterAgain(j, pad) ==
  IF At(j) \notin DOMAIN map
  THEN result' = "eInvalidParam" /\ UNCHANGED <<map, i, formatters>>
  ELSE /\ formatters' = Append(formatters, [kind |-> map[At(j)], flag |-> At(j), pad |-> pad])
       /\ i' = j + 1
       /\ UNCHANGED <<map, result>>

\* No formatter for a flag, or it was moved out for the same flag before.
LexFlagFormatter(j, pad) ==
  IF At(j) \notin DOMAIN map \/ map[At(j)] = "null"
  THEN result' = "eInvalidParam" /\ UNCHANGED <<map, i, formatters>>
  ELSE /\ formatters' = Append(formatters, [kind |-> map[At(j)], flag |-> At(j), pad |-> pad])
       /\ map' = [map EXCEPT ![At(j)] = "null"]
       /\ i' = j + 1
       /\ UNCHANGED result

\* "%", lexPadding and the flag. The assert of operator[] fails where the
\* pattern ends before the flag.
Directive ==
  LET left == i + 1 < Len(pattern) /\ At(i + 1) = "-"
      first == IF left THEN i + 2 ELSE i + 1
      last == RunEnd(first, Digits)
      count == Value(SubSeq(pattern, first + 1, last))
      Stop(r) == result' = r /\ UNCHANGED <<map, i, formatters>>
  IN  /\ Running /\ At(i) = "%"
      /\ IF count > kU8Max THEN Stop("eOutOfRange")
         ELSE IF last = Len(pattern) THEN Stop("assert")
         ELSE LexFlagFormatter(last, [count |-> count,
                                      direction |-> IF left THEN "eLeft" ELSE "eRight"])
      /\ UNCHANGED <<pattern, out>>

\* lexLiteralFormatter
Literal ==
  LET e == RunEnd(i, Text)
  IN  /\ Running /\ At(i) # "%"
      /\ formatters' = Append(formatters,
                              [kind |-> "literal", text |-> SubSeq(pattern, i + 1, e)])
      /\ i' = e
      /\ UNCHANGED <<pattern, map, result, out>>

Compiled ==
  /\ result = "none" /\ i = Len(pattern)
  /\ result' = "eOk"
  /\ UNCHANGED <<pattern, map, i, formatters, out>>
-----------------------------------------------------------------------------
(* logImpl: one action per formatter *)

NumDigits(n, base) == CHOOSE d \in 1 .. 5 : base ^ d > n /\ (d > 1 => base ^ (d - 1) <= n)

\* The length of the text a flag stands for, and the one that ScopedPadder is
\* told: the line's is counted in hexadecimal.
Texts(flag) ==
  IF flag = "#" THEN {[len |-> NumDigits(n, 10), told |-> NumDigits(n, 16)] : n \in Lines}
  ELSE {[len |-> n, told |-> n] : n \in Lengths}

\* ScopedPadder around the text.
Padded(pad, text) ==
  LET spaces == IF pad.count > text.told THEN pad.count - text.told ELSE 0
  IN  [before |-> IF pad.direction = "eLeft" THEN spaces ELSE 0, text |-> text.len,
       after |-> IF pad.direction = "eRight" THEN spaces ELSE 0]

Format ==
  LET f == formatters[Len(out) + 1]
      Plain(n) == [before |-> 0, text |-> n, after |-> 0]
  IN  /\ result = "eOk" /\ Len(out) < Len(formatters)
      /\ \/ /\ f.kind = "literal"
            /\ out' = Append(out, Plain(Len(f.text)))
         \/ /\ f.kind = "builtin"
            /\ \E text \in Texts(f.flag) : out' = Append(out, Padded(f.pad, text))
         \/ /\ f.kind = "user"
            /\ \E n \in Lengths : out' = Append(out, Plain(n))
      /\ UNCHANGED <<pattern, map, i, formatters, result>>

Done ==
  /\ IF result = "eOk" THEN Len(out) = Len(formatters) ELSE result # "none"
  /\ UNCHANGED vars

Next == Directive \/ Literal \/ Compiled \/ Format \/ Done

Spec == Init /\ [][Next]_vars
-----------------------------------------------------------------------------
TypeOK ==
  /\ pattern \in Patterns
  /\ Range(map) \subseteq {"builtin", "user", "null"}
  /\ i \in 0 .. Len(pattern)
  /\ result \in {"none", "eOk", "eInvalidParam", "eOutOfRange", "assert"}
  /\ Len(out) <= Len(formatters)

\* How patterns spell numbers, as long as "0" is not among the digits.
Spelling(n) ==
  CHOOSE s \in UNION {[1 .. l -> DOMAIN Digit] : l \in 0 .. 3} : Value(s) = n

Spelled(f) ==
  IF f.kind = "literal" THEN f.text
  ELSE <<"%">> \o (IF f.pad.direction = "eLeft" THEN <<"-">> ELSE <<>>)
         \o Spelling(f.pad.count) \o <<f.flag>>

\* A padding: an optional "-" and digits.
PadDigits(s) == IF s # <<>> /\ s[1] = "-" THEN Tail(s) ELSE s

IsPad(s) == Range(PadDigits(s)) \subseteq Digits

\* The formatters spell what was read of the pattern, without two literals side
\* by side and with each flag at most once.  Success means that all of it was
\* read.  A failure is that of the directive that comes next: padding over 255,
\* or else a flag without a formatter, or one used before, or else no flag.
PatternCompiled ==
  LET done == FlattenSeq([k \in DOMAIN formatters |-> Spelled(formatters[k])])
      rest == SubSeq(pattern, Len(done) + 1, Len(pattern))
      used == {k \in DOMAIN formatters : formatters[k].kind # "literal"}
      free == DOMAIN map \ {formatters[k].flag : k \in used}
      next == {n \in 2 .. Len(rest) : /\ IsPad(SubSeq(rest, 2, n - 1))
                                      /\ ~IsPad(SubSeq(rest, 2, n))}
      number == PadDigits(SubSeq(rest, 2, IF next = {} THEN Len(rest)
                                          ELSE (CHOOSE n \in next : TRUE) - 1))
  IN  /\ IsPrefix(done, pattern)
      /\ \A k, l \in used : formatters[k].flag = formatters[l].flag => k = l
      /\ \A k \in DOMAIN formatters : k \notin used /\ k > 1 => k - 1 \in used
      /\ result = "eOk" => rest = <<>>
      /\ result = "eOutOfRange" => rest[1] = "%" /\ Value(number) > kU8Max
      /\ result \in {"assert", "eInvalidParam"} => rest[1] = "%" /\ Value(number) <= kU8Max
      /\ result = "assert" => next = {}
      /\ result = "eInvalidParam" => \E n \in next : rest[n] \notin free

\* A field is as wide as its text or its padding, whichever is wider, with the
\* text on the other side of the padding.  (Not so the line: its width is counted
\* in hexadecimal.)
FieldPadded(f, field) ==
  /\ field.before + field.text + field.after =
       IF field.text > f.pad.count THEN field.text ELSE f.pad.count
  /\ (IF f.pad.direction = "eLeft" THEN field.after ELSE field.before) = 0

FieldsPadded ==
  \A k \in DOMAIN out :
    formatters[k].kind = "builtin" /\ formatters[k].flag # "#" =>
      FieldPadded(formatters[k], out[k])
=============================================================================
