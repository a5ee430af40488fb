------------------------------ MODULE MCDisplay ------------------------------
(***************************************************************************)
(* TLC instance of MessageLayout and TextUtil.  A behaviour is of one of   *)
(* three scenarios: messages come while the reader scrolls and resizes the *)
(* window, widgets are painted and lit, or nothing but a text is wrapped   *)
(* and sanitized.                                                          *)
(***************************************************************************)
EXTENDS MessageLayout, TLC

CONSTANTS x1, x2, x3, MaxSample, MaxField

VARIABLES scenario, received, sample

\* One unit each: a letter, a sign, a blank, a line feed, the halves of a pair.
Units == {"a", "!", " ", "|", "H", "L"}
Letters == {<<"a">>, <<"H", "L">>}
Width(character) == IF character = <<"H", "L">> THEN 2 ELSE 1

\* A line, and one that is two lines in a narrow window; where widgets are painted
\* it has an ampersand.
Written == [scrolling |-> {<<"a">>, <<"a", "a", " ", "a">>},
            painting  |-> {<<"a">>, <<"a", "&", " ", "a">>}, typing |-> {}]
Texts == Written["scrolling"] \cup Written["painting"]
Sizes == {<<2, 1>>, <<4, 2>>}
\* Widgets are interchangeable.
Symmetry == Permutations(Widget)

Samples == UNION {[1..n -> Units] : n \in 0..MaxSample}

MCInit ==
    /\ Init
    /\ received = 0
    /\ scenario \in {"scrolling", "painting", "typing"}
    /\ IF scenario = "typing" THEN sample \in Samples /\ area = <<4, 2>> ELSE sample = <<>>

MaxReceived == [scrolling |-> 3, painting |-> 3, typing |-> 0]

MCNext ==
    /\ Next
    /\ \A x \in Widget : widget'[x].text \in Written[scenario] \cup {<<>>}
    /\ scenario = "scrolling" => ~\E x \in Widget : widget'[x].bitmap # Nothing \/ widget'[x].lit
    /\ scenario = "painting" => /\ asked' = 0 /\ scroll' = LastRow(units', area'[2])
                                /\ Cardinality({x \in Widget : widget'[x].lit}) <= 1
                                /\ Cardinality({x \in Widget : widget'[x].bitmap # Nothing}) <= 1
    /\ asked' <= 2
    /\ received' = received + Cardinality(Came)
    /\ received' <= MaxReceived[scenario]
    /\ scenario # "typing"
    /\ UNCHANGED <<scenario, sample>>

MCSpec == MCInit /\ [][MCNext]_<<vars, scenario, received, sample>>

-----------------------------------------------------------------------------
Printed(s) == SelectSeq(s, LAMBDA unit : unit \notin {Blank, Newline})
WidthOfLine(s) == FoldLeft(LAMBDA sum, c : sum + WidthOf(c), 0, Characters(s))
CharactersOf(s) == SelectSeq(Characters(s), LAMBDA c : c \notin {<<Blank>>, <<Newline>>})

(***************************************************************************)
(* Wrapping a text loses white space only, splits no pair of surrogates,   *)
(* and leaves no line too wide that holds more than one character.         *)
(***************************************************************************)
WrappingLosesOnlyBlanks ==
    scenario = "typing" =>
        \A width \in 1..3 :
            LET wrapped == WrapText(sample, width)
            IN  /\ CharactersOf(wrapped) = CharactersOf(sample)
                /\ \A i \in DOMAIN Lines(wrapped) :
                      LET line == Lines(wrapped)[i]
                      IN  Len(Characters(line)) > 1 => WidthOfLine(line) <= width

(***************************************************************************)
(* A name that was cut to the limit of its field and sanitized is one the  *)
(* server takes, is left alone when it is sanitized again, and was cut     *)
(* between characters.                                                     *)
(***************************************************************************)
NamesAreAcceptable ==
    scenario = "typing" =>
        LET field == LimitTextLength(sample, MaxField)
            name == SanitizeInput(field)
        IN  /\ IsPrefix(Characters(field), Characters(sample))
            /\ name # <<>> => /\ validateUtf8String(name, MaxField)
                              /\ SanitizeInput(name) = name
                              /\ {name[1], Last(name)} \cap {Blank, Newline} = {}

=============================================================================
