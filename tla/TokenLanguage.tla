--------------------------- MODULE TokenLanguage ---------------------------
(***************************************************************************)
(* What the members of a token spell, and what their captures hold: the    *)
(* reference a compiled lexer is compared with. A spelling is [text,       *)
(* spans]: spans gives for each capture that holds something the positions *)
(* between which it stands in the text. n bounds the length of the texts.  *)
(***************************************************************************)
EXTENDS TokenWiring, Functions

Empty == [text |-> <<>>, spans |-> <<>>]

Behind(first, second) ==
    [text |-> first.text \o second.text,
     spans |-> first.spans @@ [c \in DOMAIN second.spans |->
                                  [from |-> second.spans[c].from + Len(first.text),
                                   to |-> second.spans[c].to + Len(first.text)]]]

Joined(one, other, n) ==
    {Behind(p[1], p[2]) : p \in {q \in one \X other : Len(q[1].text) + Len(q[2].text) <= n}}

Runs(one, n) ==
    LET upTo[k \in 0..n] == IF k = 0 THEN {Empty} ELSE {Empty} \cup Joined(one, upTo[k - 1], n)
    IN  upTo[n]

Repeated(repeat, one, n) ==
    LET run == IF repeat.again THEN Joined(one, Runs(one, n), n) ELSE one
    IN  IF repeat.skip THEN run \cup {Empty} ELSE run

\* A capture spans all that its member spells, and holds nothing when that is nothing.
Captured(cap, spellings) ==
    {IF cap = NoCapture \/ s.text = <<>> THEN s
     ELSE [s EXCEPT !.spans = (cap :> [from |-> 0, to |-> Len(s.text)]) @@ @] : s \in spellings}

Word(word, n) ==
    IF Len(word) > n THEN {}
    ELSE {[text |-> text, spans |-> <<>>] :
             text \in {t \in [DOMAIN word -> UNION Range(word)] : \A i \in DOMAIN word : t[i] \in word[i]}}

RECURSIVE Spelled(_, _)
SpelledAll(members, n) ==
    FoldRight(LAMBDA member, rest : Joined(Spelled(member, n), rest, n), members, {Empty})

Spelled(member, n) ==
    Captured(member.cap,
             Repeated(member.repeat,
                      CASE member.kind = "word" -> Word(member.word, n)
                        [] member.kind = "choice" -> UNION {Spelled(part, n) : part \in Range(member.parts)}
                        [] member.kind = "group" -> SpelledAll(member.parts, n),
                      n))

\* The spellings of all tokens, a token known by its place.
Spellings(tokens, n) ==
    UNION {{[token |-> i, text |-> s.text, spans |-> s.spans] : s \in SpelledAll(tokens[i], n)} : i \in DOMAIN tokens}

\* What can go on to a text. slack bounds how much of it is still missing.
Viable(tokens, n, slack) == UNION {Prefixes(s.text) : s \in Spellings(tokens, n + slack)}

\* The tokens that may begin with fewest characters, and of those the last.
FirstCharacters(members, n) == {s.text[1] : s \in {t \in SpelledAll(members, n) : t.text # <<>>}}
Preferred(tokens, n, candidates) ==
    LET Width(i) == Cardinality(FirstCharacters(tokens[i], n))
    IN  CHOOSE i \in candidates :
            \A j \in candidates \ {i} : Width(i) < Width(j) \/ (Width(i) = Width(j) /\ i > j)
=============================================================================
