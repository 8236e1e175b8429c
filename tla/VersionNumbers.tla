--------------------------- MODULE VersionNumbers ---------------------------
(***************************************************************************)
(* Version numbers (VersionNumber.py), as texts and as values.             *)
(*                                                                         *)
(* A text is a sequence of symbols; a version is a sequence of components, *)
(* numbers that are written with digits or, above Letters, with letters in *)
(* base 26.  What is no version is <<>>.                                   *)
(***************************************************************************)
EXTENDS Naturals, Sequences, SequencesExt

Alphabet == <<"a", "b", "c", "d", "e", "f", "g", "h", "i", "j", "k", "l", "m", "n", "o",
              "p", "q", "r", "s", "t", "u", "v", "w", "x", "y", "z">>
Digits == <<"0", "1", "2", "3", "4", "5", "6", "7", "8", "9">>
White == {" ", "\n"}

IsDigit(c) == c \in ToSet(Digits)
IsLetter(c) == c \in ToSet(Alphabet)
Place(c, symbols) == CHOOSE i \in DOMAIN symbols : symbols[i] = c

\* What is added to a component of letters.
Letters == 1000000000

\* FoldLeft, by a function: texts have dozens of symbols.
Scan(Step(_, _), start, text) ==
  LET after[i \in 0..Len(text)] == IF i = 0 THEN start ELSE Step(after[i - 1], text[i])
  IN  after[Len(text)]

Strip(text) ==
  LET I == {i \in DOMAIN text : text[i] \notin White} IN
  IF I = {} THEN <<>> ELSE SubSeq(text, Min(I), Max(I))

\* The parts of a text between separators.
Split(text, separator) ==
  LET Step(parts, c) == IF c = separator THEN Append(parts, <<>>)
                        ELSE [parts EXCEPT ![Len(parts)] = Append(@, c)]
  IN  Scan(Step, <<<<>>>>, text)

\* split_on_number_edge: an empty text is one empty piece.
Pieces(part) ==
  LET Step(pieces, c) ==
        LET piece == Last(pieces) IN
        IF piece = <<>> \/ IsDigit(c) = IsDigit(Last(piece))
        THEN Append(Front(pieces), Append(piece, c))
        ELSE Append(pieces, <<c>>)
  IN  Scan(Step, <<<<>>>>, part)

Number(digits) ==
  LET Step(n, c) == 10 * n + Place(c, Digits) - 1 IN Scan(Step, 0, digits)

LetterNumber(letters) ==
  LET Step(n, c) == 26 * n + Place(c, Alphabet) IN Scan(Step, 0, letters)

\* A piece without letters, such as an empty one, counts as a component of letters.
Component(piece) ==
  IF piece # <<>> /\ \A i \in DOMAIN piece : IsDigit(piece[i]) THEN Number(piece)
  ELSE Letters + LetterNumber(piece)

Valid(piece) ==
  \/ \A i \in DOMAIN piece : IsDigit(piece[i])
  \/ \A i \in DOMAIN piece : IsLetter(piece[i])

Components(pieces) ==
  IF \A i \in DOMAIN pieces : Valid(pieces[i])
  THEN [i \in DOMAIN pieces |-> Component(pieces[i])] ELSE <<>>

Each(Op(_), parts) == [i \in DOMAIN parts |-> Op(parts[i])]
StrippedPieces(part) == Each(Strip, Pieces(Strip(part)))

VersionOf(text) == Components(FlattenSeq(Each(StrippedPieces, Split(text, "."))))

DecimalText(n) ==
  LET text[k \in 0..n] ==
        Append(IF k < 10 THEN <<>> ELSE text[k \div 10], Digits[(k % 10) + 1])
  IN  text[n]

\* The letter with the number 26, z, is written as a backquote, as if it were 0.
LettersText(n) ==
  LET text[k \in 0..n] ==
        IF k = 0 THEN <<>>
        ELSE Append(text[k \div 26], IF k % 26 = 0 THEN "backquote" ELSE Alphabet[k % 26])
  IN  text[n]

ComponentText(c) == IF c >= Letters THEN LettersText(c - Letters) ELSE DecimalText(c)

VersionText(v) ==
  LET Step(text, c) == (IF text = <<>> THEN <<>> ELSE Append(text, ".")) \o ComponentText(c)
  IN  Scan(Step, <<>>, v)

\* Whether a version survives its conversion to a text.
Survives(v) == VersionText(v) # <<>> /\ VersionOf(VersionText(v)) = v

\* A version is before those that it is a prefix of: 2 before 2.0.
Before(v, w) ==
  \E i \in DOMAIN w : /\ i <= Len(v) + 1
                      /\ \A j \in 1..(i - 1) : v[j] = w[j]
                      /\ i = Len(v) + 1 \/ v[i] < w[i]
=============================================================================
