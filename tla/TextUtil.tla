------------------------------- MODULE TextUtil ------------------------------
(***************************************************************************)
(* The client's helpers for text.  A string is a sequence of code units;   *)
(* in a build for Windows (Utf16) a character outside the basic plane is   *)
(* two of them, a high surrogate and a low one.                            *)
(***************************************************************************)
EXTENDS Integers, FiniteSets, FiniteSetsExt, Sequences, SequencesExt

CONSTANTS
    Utf16,                  \* __WXMSW__
    High, Low,              \* the surrogates
    Blank, Newline,         \* white space
    Alphanumeric,           \* the letters and digits, each a sequence of units
    WidthOf(_)              \* the width of a character in the font

IsHighSurrogate(unit) == Utf16 /\ unit \in High
IsLowSurrogate(unit)  == Utf16 /\ unit \in Low

\* A character that takes two units starts at i.
IsPair(s, i) == i < Len(s) /\ IsHighSurrogate(s[i]) /\ IsLowSurrogate(s[i + 1])

\* The characters of s; a surrogate without its partner counts as one.
Characters(s) ==
    LET from[i \in 1..Len(s) + 1] ==
            IF i > Len(s) THEN <<>>
            ELSE IF IsPair(s, i) THEN <<SubSeq(s, i, i + 1)>> \o from[i + 2]
            ELSE <<SubSeq(s, i, i)>> \o from[i + 1]
    IN  from[1]

GetUnicodeLength(s) == Len(Characters(s))

UnicodeLeft(s, n) ==
    LET all == Characters(s)
    IN  FlattenSeq(SubSeq(all, 1, IF n < Len(all) THEN n ELSE Len(all)))

\* What is left in a field that the user filled with s.
LimitTextLength(s, n) == IF GetUnicodeLength(s) > n THEN UnicodeLeft(s, n) ELSE s

-----------------------------------------------------------------------------
TrimRight(s) ==
    LET kept == {0} \cup {i \in 1..Len(s) : s[i] \notin {Blank, Newline}}
    IN  SubSeq(s, 1, Max(kept))
TrimLeft(s) == Reverse(TrimRight(Reverse(s)))

IsLone(character) ==
    Len(character) = 1 /\ (IsHighSurrogate(character[1]) \/ IsLowSurrogate(character[1]))

IsAlphanumeric(character) == character \in Alphanumeric

\* No surrogate without its partner, and a letter or a digit.
IsPresentable(s) ==
    /\ \A c \in ToSet(Characters(s)) : ~IsLone(c)
    /\ \E c \in ToSet(Characters(s)) : IsAlphanumeric(c)

\* (mutation: the text is trimmed after it was checked, on one side)
SanitizeThenTrim(s) == IF IsPresentable(s) THEN TrimRight(s) ELSE <<>>

SanitizeInput(s) ==
    LET trimmed == TrimRight(TrimLeft(s))
    IN  IF IsPresentable(trimmed) THEN trimmed ELSE <<>>

\* The server's side: the length it counts in the UTF-8 it is sent.
validateUtf8String(s, maxLength) ==
    /\ \A c \in ToSet(Characters(s)) : ~IsLone(c)
    /\ GetUnicodeLength(s) <= maxLength

-----------------------------------------------------------------------------
Break(wrapping) ==
    [done |-> wrapping.done \o TrimRight(wrapping.line) \o <<Newline>>,
     line |-> <<>>, width |-> 0]

Put(wrapping, character, wrapWidth) ==
    LET isFull == /\ wrapping.width + WidthOf(character) > wrapWidth
                  /\ wrapping.line # <<>>
        current == IF isFull THEN Break(wrapping) ELSE wrapping
    IN  IF character = <<Newline>> THEN Break(wrapping)
        ELSE [current EXCEPT !.line = @ \o character, !.width = @ + WidthOf(character)]

Wrap(characters, wrapWidth) ==
    LET after[i \in 0..Len(characters)] ==
            IF i = 0 THEN [done |-> <<>>, line |-> <<>>, width |-> 0]
            ELSE Put(after[i - 1], characters[i], wrapWidth)
        end == after[Len(characters)]
    IN  end.done \o TrimRight(end.line)

\* (mutation: the units of a pair are measured one by one)
WrapUnits(s, wrapWidth) == Wrap([i \in 1..Len(s) |-> <<s[i]>>], wrapWidth)

WrapText(s, wrapWidth) ==
    IF wrapWidth <= 0 \/ s = <<>> THEN s ELSE Wrap(Characters(s), wrapWidth)

\* The tokens between line breaks, of which empty ones are skipped.
EndLine(tokens) ==
    [done |-> IF tokens.line = <<>> THEN tokens.done ELSE Append(tokens.done, tokens.line),
     line |-> <<>>]

NextUnit(tokens, unit) ==
    IF unit = Newline THEN EndLine(tokens)
    ELSE [tokens EXCEPT !.line = Append(@, unit)]

Lines(s) ==
    LET upTo[i \in 0..Len(s)] == IF i = 0 THEN [done |-> <<>>, line |-> <<>>]
                                 ELSE NextUnit(upTo[i - 1], s[i])
    IN  EndLine(upTo[Len(s)]).done

=============================================================================
