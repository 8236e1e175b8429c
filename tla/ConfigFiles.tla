---------------------------- MODULE ConfigFiles ----------------------------
(***************************************************************************)
(* The texts in which the management shell lets its user edit objects      *)
(* (config_file_utils.py): a preprocessor that removes comments and joins  *)
(* continued lines, and for each of the three languages a tokenizer and a  *)
(* parser.                                                                 *)
(*                                                                         *)
(* Texts are sequences of symbols.  A stage yields [ok, out]; where in the *)
(* text it failed is left out.  Spaces stand for tabs and returns too.     *)
(***************************************************************************)
EXTENDS DependencyLists

Escapes == [c \in {"\"", "\\", "\n"} |-> <<"\\", IF c = "\n" THEN "n" ELSE c>>]

\* Mutant: quotes are escaped, backslashes are not.
EscapeQuotes(text) ==
  FlattenSeq([i \in DOMAIN text |->
                IF text[i] \in {"\"", "\n"} THEN Escapes[text[i]] ELSE <<text[i]>>])

\* escape_string
Escape(text) ==
  FlattenSeq([i \in DOMAIN text |->
                IF text[i] \in DOMAIN Escapes THEN Escapes[text[i]] ELSE <<text[i]>>])

\* The character that an escape sequence stands for.
Escaped == [c \in {"\"", "\\", "n"} |-> IF c = "n" THEN "\n" ELSE c]

Go(s, mode) == [s EXCEPT !.mode = mode]
Fail(s) == Go(s, "failed")

(***************************************************************************)
(* Outside of literals a `#' starts a comment and a backslash continues    *)
(* the line.  The newline behind a comment stays, also if the comment is   *)
(* behind a backslash.                                                     *)
(***************************************************************************)
PreprocessStep(s, c) ==
  LET Put(mode) == [mode |-> mode, out |-> Append(s.out, c)] IN
  CASE s.mode = "failed" -> s
    [] s.mode = "comment" -> IF c = "\n" THEN Put("plain") ELSE s
    [] s.mode = "continued" ->
         CASE c = "\n" -> Go(s, "plain")
           [] c = "#" -> Go(s, "comment")
           [] c = " " -> s
           [] OTHER -> Fail(s)
    [] s.mode = "plain" ->
         CASE c = "#" -> Go(s, "comment")
           [] c = "\\" -> Go(s, "continued")
           [] OTHER -> Put(IF c = "\"" THEN "literal" ELSE "plain")
    [] s.mode = "literal" ->
         Put(CASE c = "\"" -> "plain" [] c = "\\" -> "escaped" [] OTHER -> "literal")
    [] s.mode = "escaped" -> Put("literal")

Preprocess(text) ==
  LET s == Scan(PreprocessStep, [mode |-> "plain", out |-> <<>>], text)
  IN  [ok |-> s.mode # "failed", out |-> s.out]

(***************************************************************************)
(* Tokenizers.                                                             *)
(***************************************************************************)
Literal(text) == [text |-> text, literal |-> TRUE]
Sign(text) == [text |-> text, literal |-> FALSE]
NewLine == Sign(<<"\n">>)

Scanner == [mode |-> "plain", token |-> <<>>, out |-> <<>>, last |-> "", earlier |-> ""]

Take(s, mode, c) == [Go(s, mode) EXCEPT !.token = Append(@, c)]
Emit(s, token) == [Go(s, "plain") EXCEPT !.token = <<>>, !.out = Append(@, token)]
Unescape(s, mode, c) == IF c \in DOMAIN Escaped THEN Take(s, mode, Escaped[c]) ELSE Fail(s)

\* Within a literal in quotes, which all of the languages have.
QuotedStep(s, c) ==
  CASE s.mode = "escaped" -> Unescape(s, "quoted", c)
    [] c = "\"" -> Emit(s, Literal(s.token))
    [] c = "\\" -> Go(s, "escaped")
    [] OTHER -> Take(s, "quoted", c)

\* At the end of the text; a word, or a relation, that ends there is a literal.
EndWord(s) == IF s.mode \in {"word", "relation"} THEN Emit(s, Literal(s.token)) ELSE s
Ended(s) == [ok |-> s.mode = "plain", out |-> s.out]

PairStep(s, c) ==
  CASE s.mode = "failed" -> s
    [] s.mode \in {"quoted", "escaped"} -> QuotedStep(s, c)
    [] c = "\"" -> Go(s, "quoted")
    [] c \in {":", ",", "[", "]", "\n"} -> Emit(s, Sign(<<c>>))
    [] c = " " -> s
    [] OTHER -> Fail(s)

TokenizePairs(text) == Ended(Scan(PairStep, Scanner, text))

Relations == [type \in {"<", ">", "<=", ">=", "!=", "==", "="} |->
                CASE type = "<=" -> <<"<", "=">> [] type = ">=" -> <<">", "=">>
                  [] type = "!=" -> <<"!", "=">> [] type = "==" -> <<"=", "=">>
                  [] OTHER -> <<type>>]
Marks == {"<", ">", "=", "!"}

\* Of a dependency list, outside of a literal.  A relation of one symbol is known by the
\* symbol behind it, unless one of another relation is before it; a literal without quotes
\* ends at white space only.
DependencyPlain(s, c) ==
  LET t == IF s.last \in {"<", ">", "="} /\ c # "=" /\ s.earlier \notin Marks
           THEN Emit(s, Sign(<<s.last>>)) ELSE s
  IN  CASE c = "\"" -> Go(t, "quoted")
        [] c \notin White \union Marks -> Take(t, "word", c)
        [] c = "\n" -> Emit(t, NewLine)
        [] c = "=" /\ s.last \in Marks -> Emit(t, Sign(<<s.last, c>>))
        [] OTHER -> t

DependencyStep(s, c) ==
  LET t == CASE s.mode = "failed" -> s
             [] s.mode \in {"quoted", "escaped"} -> QuotedStep(s, c)
             [] s.mode = "plain" -> DependencyPlain(s, c)
             [] s.mode = "word" /\ c = " " -> Emit(s, Literal(s.token))
             [] s.mode = "word" /\ c = "\n" -> Emit(Emit(s, Literal(s.token)), NewLine)
             [] s.mode = "word" /\ c = "\"" -> Fail(s)
             [] OTHER -> Take(s, "word", c)
  IN  [t EXCEPT !.last = c, !.earlier = s.last]

TokenizeDependencies(text) == Ended(EndWord(Scan(DependencyStep, Scanner, text)))

\* Of a list of pairs with dependency lists, at the start of a token.
ArrowPlain(s, c) ==
  CASE c = "\n" -> Emit(s, NewLine)
    [] c = " " -> s
    [] IsLetter(c) \/ IsDigit(c) \/ c = "." -> Take(s, "word", c)
    [] c = "-" -> Take(s, "dash", c)
    [] c = "\"" -> Go(s, "quoted")
    [] c \in {">", "<", "="} -> Take(s, "relation", c)
    [] c = "!" -> Take(s, "bang", c)
    [] OTHER -> Fail(s)

ArrowStep(s, c) ==
  CASE s.mode = "failed" -> s
    [] s.mode \in {"quoted", "escaped"} -> QuotedStep(s, c)
    [] s.mode = "dash" -> IF c = ">" THEN Emit(s, Sign(<<"-", ">">>)) ELSE Fail(s)
    [] s.mode = "bang" -> IF c = "=" THEN Emit(s, Sign(<<"!", "=">>)) ELSE Fail(s)
    [] s.mode = "word" -> IF IsLetter(c) \/ IsDigit(c) \/ c = "." THEN Take(s, "word", c)
                          ELSE ArrowPlain(Emit(s, Literal(s.token)), c)
    [] s.mode = "relation" -> IF Append(s.token, c) \in Range(Relations)
                              THEN Take(s, "relation", c)
                              ELSE ArrowPlain(Emit(s, Sign(s.token)), c)
    [] OTHER -> ArrowPlain(s, c)

TokenizeArrows(text) == Ended(EndWord(Scan(ArrowStep, Scanner, text)))

(***************************************************************************)
(* Parsers.  Each of their automata accepts lines that are empty or have   *)
(* one form, with a newline behind each of them.                           *)
(***************************************************************************)
Rejected == [ok |-> FALSE, out |-> <<>>]

Full(lines) == SelectSeq(lines, LAMBDA line : line # <<>>)
ParseLines(lines, WellFormed(_), Meaning(_)) ==
  IF Last(lines) = <<>> /\ \A line \in ToSet(Full(lines)) : WellFormed(line)
  THEN [ok |-> TRUE, out |-> Each(Meaning, Full(lines))]
  ELSE Rejected

Parse(tokenized, WellFormed(_), Meaning(_)) ==
  IF tokenized.ok THEN ParseLines(Split(tokenized.out, NewLine), WellFormed, Meaning)
  ELSE Rejected

\* "key": "value", or "key": ["item", "item"].
PairLine(line) ==
  /\ Len(line) >= 3 /\ line[1].literal /\ line[2] = Sign(<<":">>)
  /\ \/ Len(line) = 3 /\ line[3].literal
     \/ /\ line[3] = Sign(<<"[">>) /\ Last(line) = Sign(<<"]">>)
        /\ Len(line) = 4 \/ (Len(line) > 4 /\ Len(line) % 2 = 1)
        /\ \A i \in 4..(Len(line) - 1) :
             IF i % 2 = 0 THEN line[i].literal ELSE line[i] = Sign(<<",">>)

PairMeant(line) ==
  [key |-> line[1].text,
   many |-> ~line[3].literal,
   items |-> LET t == SelectSeq(Tail(line), LAMBDA e : e.literal)
             IN  [i \in DOMAIN t |-> t[i].text]]

\* name >= 1 != 2, where the constraints start behind the token number n.
ConstrainedFrom(line, n) ==
  /\ (Len(line) - n) % 2 = 0
  /\ \A i \in (n + 1)..Len(line) :
       IF (i - n) % 2 = 1 THEN ~line[i].literal /\ line[i].text \in Range(Relations)
       ELSE line[i].literal /\ VersionOf(line[i].text) # <<>>

ConstraintsFrom(line, n) ==
  [i \in 1..((Len(line) - n) \div 2) |->
     LET type == CHOOSE t \in DOMAIN Relations : Relations[t] = line[n + 2 * i - 1].text
     IN  Constraint(IF type = "==" THEN "=" ELSE type, VersionOf(line[n + 2 * i].text))]

DependencyLine(line) == line[1].literal /\ ConstrainedFrom(line, 1)
DependencyMeant(line) == [object |-> line[1].text, constraints |-> ConstraintsFrom(line, 1)]

ArrowLine(line) ==
  /\ Len(line) >= 3 /\ line[1].literal /\ line[2] = Sign(<<"-", ">">>) /\ line[3].literal
  /\ ConstrainedFrom(line, 3)
ArrowMeant(line) ==
  [key |-> line[1].text, object |-> line[3].text, constraints |-> ConstraintsFrom(line, 3)]

\* The three stages, one after the other.
Tokens(preprocessed, Tokenize(_)) ==
  IF preprocessed.ok THEN Tokenize(preprocessed.out) ELSE Rejected

ReadPairs(text) == Parse(Tokens(Preprocess(text), TokenizePairs), PairLine, PairMeant)

ReadDependencies(text) ==
  Parse(Tokens(Preprocess(text), TokenizeDependencies), DependencyLine, DependencyMeant)

ReadArrows(text) == Parse(Tokens(Preprocess(text), TokenizeArrows), ArrowLine, ArrowMeant)
=============================================================================
