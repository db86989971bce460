------------------------ MODULE SubscriptionDecoder ------------------------
(***************************************************************************)
(* How the body of a feed becomes links: DecodeBase64Safe, SplitLines and  *)
(* ExtractProxyURLs of internal/provider/decoder.go, with the protocols    *)
(* and separators of types.go.                                             *)
(*                                                                         *)
(* A text is a sequence of pieces: "vme", "vle", "tro" and "ss" are cut so *)
(* that "vmess://" and "vless://" end in "ss://", as they do; "#" is the   *)
(* beginning of a comment, "nl" a line end or <br>, "," a comma or a pipe, *)
(* "blank" white space, "q" the junk that is trimmed off a link with it,   *)
(* and "x" anything else.                                                  *)
(***************************************************************************)
EXTENDS Integers, Sequences, FiniteSets, FiniteSetsExt, SequencesExt

Piece == {"vme", "vle", "tro", "ss", "x", "q", "blank", "#", "nl", ","}

\* Bug: the shortest prefix is looked for first.
ShortestFirst == << <<"ss">>, <<"vme", "ss">>, <<"vle", "ss">>, <<"tro">> >>

AcceptedProtocols == << <<"vme", "ss">>, <<"vle", "ss">>, <<"tro">>, <<"ss">> >>

ConfigSeparators == {"nl", ","}

StartsAt(p, line, i) ==
  i + Len(p) - 1 <= Len(line) /\ SubSeq(line, i, i + Len(p) - 1) = p
Starts(p, line) == {i \in DOMAIN line : StartsAt(p, line, i)}

\* strings.Trim: without the members of junk at either end.
TrimSet(line, junk) ==
  LET kept == {i \in DOMAIN line : line[i] \notin junk}
  IN  IF kept = {} THEN <<>> ELSE SubSeq(line, Min(kept), Max(kept))

\* The loops append what is not empty.
Kept(done, x) == IF x = <<>> THEN done ELSE Append(done, x)
NonEmpty(seq) == FoldLeft(Kept, <<>>, seq)

\* strings.Split, piece by piece.
Cut(parts, p) ==
  IF p \in ConfigSeparators THEN Append(parts, <<>>)
  ELSE Append(Front(parts), Append(Last(parts), p))
RawParts(text) == FoldLeft(Cut, << <<>> >>, text)

\* What is left of a part, which is nothing of a comment.
LineOf(part) ==
  LET trimmed == TrimSet(part, {"blank"})
  IN  IF trimmed # <<>> /\ trimmed[1] = "#" THEN <<>> ELSE trimmed

SplitLines(text) ==
  LET parts == RawParts(text)
  IN  NonEmpty([k \in DOMAIN parts |-> LineOf(parts[k])])

\* The link that begins at i, with the junk around it trimmed off.
CleanProxy(line, i) == TrimSet(SubSeq(line, i, Len(line)), {"blank", "q"})

\* The link of a line: at the first occurrence of the first protocol that
\* occurs at all.
LinkOf(line) ==
  LET used == {k \in DOMAIN AcceptedProtocols :
                 Starts(AcceptedProtocols[k], line) # {}}
  IN  IF used = {} THEN <<>>
      ELSE CleanProxy(line, Min(Starts(AcceptedProtocols[Min(used)], line)))

-----------------------------------------------------------------------------
\* Base64.  A body that is coded is known by what its characters are (those of
\* both alphabets, of one, or of each in places), how many there are in its last
\* group of four, and how many "=" follow.

CodedBodies(text) ==
  [text : {text}, alphabet : {"both", "std", "url", "mixed"},
   rest : {0, 2, 3}, pad : 0..3]
PlainBody(text) == [text |-> text, alphabet |-> "none", rest |-> 0, pad |-> 0]

Needed(b) == (4 - b.rest) % 4

\* What one of the four encodings accepts: raw ones no padding, others all of it.
Decodes(b, alphabet, raw) ==
  /\ b.alphabet \in {"both", alphabet}
  /\ b.pad = IF raw THEN 0 ELSE Needed(b)

Decodable(b) == \E a \in {"std", "url"}, raw \in BOOLEAN : Decodes(b, a, raw)

\* Bug: the padding is not completed.
AsItIs(b) == b

\* The second try, with the length rounded up to a multiple of four.
Padded(b) ==
  LET rem == (b.rest + b.pad) % 4
  IN  IF rem = 0 THEN b ELSE [b EXCEPT !.pad = @ + 4 - rem]

\* The text as the lines are split: a body that is not coded has "://" in every
\* link, which no encoding accepts, and one that cannot be decoded has none.
DecodeBase64Safe(b) ==
  IF b.alphabet = "none" \/ Decodable(b) \/ Decodable(Padded(b))
    THEN b.text ELSE <<"x">>

ExtractProxyURLs(b) ==
  LET lines == SplitLines(DecodeBase64Safe(b))
  IN  NonEmpty([k \in DOMAIN lines |-> LinkOf(lines[k])])

-----------------------------------------------------------------------------
\* What the links should be, by positions in the text.

\* Where a link begins: at its protocol, but not inside of a longer one.
Begins(text, i) ==
  \/ text[i] \in {"vme", "vle"} /\ i < Len(text) /\ text[i + 1] = "ss"
  \/ text[i] = "tro"
  \/ text[i] = "ss" /\ (i = 1 \/ text[i - 1] \notin {"vme", "vle"})

\* The positions of the stretch between two separators that i is in.
Stretch(text, i) ==
  {j \in DOMAIN text : \A k \in DOMAIN text :
     k \in Min({i, j})..Max({i, j}) => text[k] \notin ConfigSeparators}

\* A comment: its first piece that is not a blank is "#".
Commented(text, i) ==
  LET said == {j \in Stretch(text, i) : text[j] # "blank"}
  IN  text[Min(said)] = "#"

\* The link that begins at i: up to the end of its stretch, without what is
\* only junk there.
Link(text, i) ==
  LET kept == {j \in Stretch(text, i) : j >= i /\ text[j] \notin {"blank", "q"}}
  IN  SubSeq(text, i, Max(kept))

Beginnings(text) ==
  {i \in DOMAIN text : Begins(text, i) /\ ~Commented(text, i)}

\* Of the stretches with a single link each link comes through, in their order
\* and with nothing lost, whatever else is in the body; of a stretch with more
\* than one, one link.
LinksAreThere(text, links) ==
  LET begins == Beginnings(text)
      alone  == {i \in begins : Stretch(text, i) \intersect begins = {i}}
      place(i) == Cardinality({Stretch(text, j) : j \in {k \in begins : k <= i}})
  IN  /\ Len(links) = Cardinality({Stretch(text, i) : i \in begins})
      /\ \A i \in alone : links[place(i)] = Link(text, i)
      /\ \A l \in DOMAIN links : Begins(links[l], 1)

\* A coded body that a decoder can make sense of: one alphabet, and no more
\* padding than there should be.
WellCoded(b) == b.alphabet # "mixed" /\ b.pad <= Needed(b)

LinksComeThroughOf(b) ==
  b.alphabet = "none" \/ WellCoded(b) => LinksAreThere(b.text, ExtractProxyURLs(b))
=============================================================================
