---------------------------- MODULE MessageWidgets ---------------------------
(***************************************************************************)
(* The widgets that show messages.  A widget keeps what it shows in caches *)
(* (CachedColorText): the number of lines it needs, which gives its height *)
(* in the view, and a bitmap of the wrapped text, and is used again for    *)
(* another message when its own leaves the view (GenericCacher).           *)
(***************************************************************************)
EXTENDS TextUtil

CONSTANTS
    Ampersand,      \* what marks a mnemonic in the label of a control
    Nothing,        \* an empty cache
    HeaderHeight    \* the height of the line with name and time

\* A widget as it was constructed.
NewWidget ==
    [text |-> <<>>, label |-> <<>>, lines |-> Nothing, bitmap |-> Nothing,
     lit |-> FALSE, shown |-> FALSE, y |-> 0, size |-> <<0, 0>>]

-----------------------------------------------------------------------------
\* CachedColorText
InvalidateCache(w) == [w EXCEPT !.bitmap = Nothing]
InvalidateLayoutCaches(w) == [w EXCEPT !.lines = Nothing]

\* (mutation: the layout is invalidated when the size changes, and only then)
SetLabelOnly(w, label) ==
    IF w.label = label THEN w ELSE InvalidateCache([w EXCEPT !.label = label])

SetLabel(w, label) ==
    IF w.label = label THEN w
    ELSE InvalidateLayoutCaches(InvalidateCache([w EXCEPT !.label = label]))

LineCount(label) ==
    LET drawn == Len(Lines(label))
        breaksOff == label # <<>> /\ Last(label) = Newline
    IN  IF label # <<>> /\ drawn = 0 /\ ~breaksOff THEN 1
        ELSE drawn + IF breaksOff THEN 1 ELSE 0

DoGetBestSize(w) == IF w.lines = Nothing THEN [w EXCEPT !.lines = LineCount(w.label)] ELSE w

Height(w) == HeaderHeight + DoGetBestSize(w).lines

RenderToCache(w) ==
    IF w.size[1] <= 0 \/ w.size[2] <= 0 THEN w
    ELSE [w EXCEPT !.bitmap = [lines |-> Lines(w.label), lit |-> w.lit, size |-> w.size]]

OnPaint(w) == IF w.bitmap = Nothing THEN RenderToCache(w) ELSE w

OnSize(w, size) ==
    IF size = w.size THEN w
    ELSE InvalidateLayoutCaches(InvalidateCache([w EXCEPT !.size = size]))

-----------------------------------------------------------------------------
\* wxControl: a text is made into a label without mnemonics.  The label is drawn
\* as it is, with every ampersand twice.
Escaped(unit) == IF unit = Ampersand THEN <<unit, unit>> ELSE <<unit>>

EscapeMnemonics(s) ==
    LET upTo[i \in 0..Len(s)] == IF i = 0 THEN <<>> ELSE upTo[i - 1] \o Escaped(s[i])
    IN  upTo[Len(s)]

SetLabelText(w, text) == SetLabel(w, EscapeMnemonics(text))

-----------------------------------------------------------------------------
\* MessageWidget
Update(w, text, wrapWidth) == SetLabelText([w EXCEPT !.text = text], WrapText(text, wrapWidth))

SetWrappedMessage(w, wrapWidth) == SetLabel(w, WrapText(w.text, wrapWidth))

\* The labels under which a text is shown: escaped by Update, and as it is once
\* it was wrapped again.
Labels(text, width) == {WrapText(text, width), EscapeMnemonics(WrapText(text, width))}

OnMouseEnter(w) == InvalidateCache([w EXCEPT !.lit = TRUE])
OnMouseLeave(w) == InvalidateCache([w EXCEPT !.lit = FALSE])

\* Where a hidden widget was is of no matter: it is placed before it is shown.
Hide(w) == [w EXCEPT !.shown = FALSE, !.y = 0]

\* MessageView::UpdateWidgetPositions, for a widget in sight and one that is not.
Place(w, y, size) ==
    LET placed == [OnSize(w, size) EXCEPT !.y = y, !.shown = TRUE]
    IN  IF w.shown THEN placed ELSE InvalidateCache(placed)

=============================================================================
