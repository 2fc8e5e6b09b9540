------------------------------- MODULE SqlScan ------------------------------
(***************************************************************************)
(* The scanner of an imported script (exchange/sql/scan.rs): a text cut    *)
(* into statements of tokens, and the layout lines found on the way.       *)
(*                                                                         *)
(* A text is a sequence of symbols.  A mark, a space and a line break are  *)
(* symbols of their own; a word and a numeral are one symbol each, so two  *)
(* of them never stand side by side.  Keywords are written in lower case,  *)
(* standing for every spelling (word() folds them).  A token is            *)
(* [is, v] with v a text; a statement is its tokens, from which a warning  *)
(* names it; a coordinate is counted in half units.                        *)
(***************************************************************************)
EXTENDS Diagram, TLC

CONSTANT MaxNumber      \* numerals go up to this one

Marks == {";", "-", "/", "*", "'", "\"", "$", "(", ")", ",", ".", ":", "|", "@", "="}
Numerals == {ToString(n) : n \in 0 .. MaxNumber}
NumberOf(numeral) == CHOOSE n \in 0 .. MaxNumber : ToString(n) = numeral
IsWord(symbol) == symbol \notin Spaces \cup Marks \cup Numerals

LooksAt(text, at, prefix) == IsPrefix(prefix, SubSeq(text, at, Len(text)))

(* The first position from `at` on that passes, or the one past the end. *)
FirstAt(text, at, Passes(_)) ==
    LET found == {k \in at .. Len(text) : Passes(k)}
    IN IF found = {} THEN Len(text) + 1 ELSE Min(found)

RECURSIVE Words(_)
(* split_whitespace *)
Words(text) ==
    LET line == Trim(text)
        end == FirstAt(line, 1, LAMBDA k : line[k] \in Spaces)
    IN IF line = <<>> THEN <<>>
       ELSE <<SubSeq(line, 1, end - 1)>> \o Words(SubSeq(line, end, Len(line)))

RECURSIVE Quoted(_, _, _)
(* quoted and split_quoted, from behind the opening delimiter: "A doubled  *)
(* delimiter inside the run is the delimiter itself".                      *)
Quoted(text, at, delimiter) ==
    LET Then(rest) == [rest EXCEPT !.v = <<text[at]>> \o @]
    IN IF at > Len(text) THEN [v |-> <<>>, at |-> at, closed |-> FALSE]
       ELSE IF text[at] # delimiter THEN Then(Quoted(text, at + 1, delimiter))
       ELSE IF LooksAt(text, at, <<delimiter, delimiter>>)
            THEN Then(Quoted(text, at + 2, delimiter))
       ELSE [v |-> <<>>, at |-> at + 1, closed |-> TRUE]

(* A coordinate of a layout line; None where it does not parse. *)
Coordinate(word) ==
    LET signed == Len(word) > 0 /\ word[1] = "-"
        number == IF signed THEN Tail(word) ELSE word
        whole == Len(number) \in {1, 3} /\ number[1] \in Numerals
        half == Len(number) = 3 /\ number[2] = "." /\ number[3] = "5"
    IN IF ~whole \/ (Len(number) = 3 /\ ~half) THEN None
       ELSE (IF signed THEN -1 ELSE 1)
            * (2 * NumberOf(number[1]) + IF half THEN 1 ELSE 0)

(* layout_hint: `-- @table "users" 120 340`, or None. *)
LayoutHint(line) ==
    LET text == Trim(SubSeq(line, FirstAt(line, 1, LAMBDA k : line[k] # "-"), Len(line)))
        rest == Trim(SubSeq(text, 3, Len(text)))
        quoted == Quoted(rest, 2, "\"")
        end == FirstAt(rest, 1, LAMBDA k : rest[k] \in Spaces)
        isQuoted == rest # <<>> /\ rest[1] = "\""
        named == IF isQuoted THEN quoted.closed ELSE end <= Len(rest)
        after == IF isQuoted THEN quoted.at ELSE end
        numbers == Words(SubSeq(rest, after, Len(rest)))
    IN IF /\ LooksAt(text, 1, <<"@", "table">>)
          /\ named
          /\ Len(numbers) >= 2
          /\ None \notin {Coordinate(numbers[1]), Coordinate(numbers[2])}
       THEN [table |-> IF isQuoted THEN quoted.v ELSE SubSeq(rest, 1, end - 1),
             x |-> Coordinate(numbers[1]), y |-> Coordinate(numbers[2]), above |-> None]
       ELSE None

(* line_comment: a layout line inside no statement belongs to the one that *)
(* comes next.                                                             *)
LineComment(text, s) ==
    LET end == FirstAt(text, s.at, LAMBDA k : text[k] = "\n")
        hint == LayoutHint(SubSeq(text, s.at, end - 1))
        placed == IF s.tokens = <<>>
                  THEN [hint EXCEPT !.above = Len(s.statements) + 1] ELSE hint
    IN [s EXCEPT !.at = end, !.hints = IF hint = None THEN @ ELSE Append(@, placed)]

RECURSIVE BlockEnd(_, _, _)
(* block_comment: "PostgreSQL nests block comments". *)
BlockEnd(text, at, depth) ==
    IF at > Len(text) THEN at
    ELSE IF LooksAt(text, at, <<"/", "*">>) THEN BlockEnd(text, at + 2, depth + 1)
    ELSE IF ~LooksAt(text, at, <<"*", "/">>) THEN BlockEnd(text, at + 1, depth)
    ELSE IF depth = 1 THEN at + 2
    ELSE BlockEnd(text, at + 2, depth - 1)

(* dollar_tag: the delimiter $tag$ that starts here, or None. *)
DollarTag(text, at) ==
    LET end == FirstAt(text, at + 1, LAMBDA k : ~IsWord(text[k]) /\ text[k] \notin Numerals)
    IN IF end <= Len(text) /\ text[end] = "$" THEN SubSeq(text, at, end) ELSE None

Push(s, kind, value, end) ==
    [s EXCEPT !.tokens = Append(@, [is |-> kind, v |-> value]), !.at = end]

DollarQuoted(text, s, tag) ==
    LET start == s.at + Len(tag)
        end == FirstAt(text, start, LAMBDA k : LooksAt(text, k, tag))
    IN Push(s, "text", SubSeq(text, start, end - 1), Min({end + Len(tag), Len(text) + 1}))

Number(text, s) ==
    LET end == FirstAt(text, s.at, LAMBDA k : text[k] \notin Numerals \cup {"."})
    IN Push(s, "number", SubSeq(text, s.at, end - 1), end)

(* finish: a statement without tokens is none. *)
FinishStatement(s) ==
    IF s.tokens = <<>> THEN s
    ELSE [s EXCEPT !.statements = Append(@, s.tokens), !.tokens = <<>>]

(* One round of Scanner::run. *)
ScanStep(text, s) ==
    LET symbol == text[s.at]
        quoted == Quoted(text, s.at + 1, symbol)
        tag == IF symbol = "$" THEN DollarTag(text, s.at) ELSE None
    IN CASE symbol = ";" -> [FinishStatement(s) EXCEPT !.at = @ + 1]
         [] LooksAt(text, s.at, <<"-", "-">>) -> LineComment(text, s)
         [] LooksAt(text, s.at, <<"/", "*">>) ->
              [s EXCEPT !.at = BlockEnd(text, s.at, 0)]
         [] symbol = "'" -> Push(s, "text", quoted.v, quoted.at)
         [] symbol = "\"" -> Push(s, "quoted", quoted.v, quoted.at)
         [] tag # None -> DollarQuoted(text, s, tag)
         [] symbol \in Spaces -> [s EXCEPT !.at = @ + 1]
         [] symbol \in Numerals -> Number(text, s)
         [] IsWord(symbol) -> Push(s, "word", Lower(<<symbol>>), s.at + 1)
         [] OTHER -> Push(s, "punct", <<symbol>>, s.at + 1)

RECURSIVE RunScanner(_, _)
RunScanner(text, s) ==
    IF s.at > Len(text) THEN FinishStatement(s) ELSE RunScanner(text, ScanStep(text, s))

(* scan: the statements and the layout hints of a text. *)
Scan(text) ==
    RunScanner(text, [at |-> 1, statements |-> <<>>, hints |-> <<>>, tokens |-> <<>>])
=============================================================================
