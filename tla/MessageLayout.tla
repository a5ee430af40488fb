---------------------------- MODULE MessageLayout ----------------------------
(***************************************************************************)
(* How the message view lays out its widgets and scrolls, a pixel being a  *)
(* row of the scrolled window, and the button that leads back to the       *)
(* present.  Messages come as they may: MessageView models which ones.     *)
(***************************************************************************)
EXTENDS MessageWidgets

CONSTANTS
    Widget,         \* the widgets of the view, MAX_MESSAGES + CHUNK_SIZE
    MaxMessages,    \* MAX_MESSAGES
    ChunkSize,      \* CHUNK_SIZE
    Padding,        \* how far out of sight a widget is still shown
    SnapSlack,      \* how near the end counts as being there ...
    BottomSlack,    \* ... and for following live messages
    LoadMargin,     \* how near an end a scroll loads more
    WheelStep,
    Text,           \* texts of messages
    Size            \* sizes the window may have

ASSUME WidgetsAssumption ==
    /\ MaxMessages \in Nat \ {0} /\ ChunkSize \in Nat \ {0}
    /\ IsFiniteSet(Widget) /\ Cardinality(Widget) = MaxMessages + ChunkSize

ASSUME PixelsAssumption ==
    /\ HeaderHeight \in Nat \ {0}
    /\ {Padding, SnapSlack, BottomSlack, LoadMargin, WheelStep} \subseteq Nat
    /\ Size \subseteq (Nat \ {0}) \X Nat

\* A text is a sequence of the code units that occur in texts.
Unit == UNION {ToSet(text) : text \in Text}
ASSUME TextsAssumption == Text \subseteq Seq(Unit)

VARIABLES
    widget,         \* every widget as it is
    view,           \* m_messageWidgets, from top to bottom
    pool,           \* m_widgetsPool
    scroll,         \* the first row in sight
    units,          \* the number of rows
    area,           \* width and height of the view
    loadingOlder, loadingNewer,
    asked,          \* requests for a page that have not been answered
    lastSnap,       \* m_lastKnownSnapState
    button,         \* the button is shown
    stale           \* history: the cleared view got no message for a page while the
                    \* panel knew better than the view where the view was

vars == <<widget, view, pool, scroll, units, area, loadingOlder, loadingNewer,
          asked, lastSnap, button, stale>>

loading == <<loadingOlder, loadingNewer, asked>>

Total(ws, v) ==
    LET upTo[i \in 0..Len(v)] == IF i = 0 THEN 0 ELSE upTo[i - 1] + Height(ws[v[i]])
    IN  upTo[Len(v)]
IndexOf(v, x) == CHOOSE i \in DOMAIN v : v[i] = x
Top(ws, v, x) == Total(ws, SubSeq(v, 1, IndexOf(v, x) - 1))

\* wxVScrolledWindow: a row is a size_t, and the last page is never left.
LastRow(rows, height) == IF rows > height THEN rows - height ELSE 0
ScrollToRow(rows, height, row, current) ==
    IF rows = 0 THEN current
    ELSE IF row < 0 \/ row > LastRow(rows, height) THEN LastRow(rows, height)
    ELSE row

IsSnappedToBottom(v, row, rows, height) == v = <<>> \/ row + height >= rows - SnapSlack

UpdateWidgetPositions(ws, v, row, size) ==
    [x \in Widget |->
        IF x \notin ToSet(v) THEN ws[x]
        ELSE LET w == DoGetBestSize(ws[x])
                 top == Top(ws, v, x)
             IN  IF top + Height(w) > row - Padding /\ top < row + size[2] + Padding
                 THEN Place(w, top - row, <<size[1], Height(w)>>) ELSE Hide(w)]

\* (mutation: the panel is told only when the view leaves its end)
ReportLeavingOnly(v, row, rows, height) ==
    LET snapped == IsSnappedToBottom(v, row, rows, height)
    IN  lastSnap' = snapped /\ button' = (button \/ ~snapped)

\* ChatPanel::OnSnapStateChanged comes with every change of the state.
CheckAndUpdateSnapState(v, row, rows, height) ==
    LET snapped == IsSnappedToBottom(v, row, rows, height)
    IN  /\ lastSnap' = snapped
        /\ button' = IF snapped = lastSnap THEN button ELSE ~snapped

\* How every change of the layout ends.
LayOut(ws, v, row, rows, size) ==
    /\ widget' = UpdateWidgetPositions(ws, v, row, size)
    /\ view' = v /\ scroll' = row /\ units' = rows /\ area' = size
    /\ CheckAndUpdateSnapState(v, row, rows, size[2])

-----------------------------------------------------------------------------
\* GenericCacher: the widgets taken for a batch, and those that come back.
Taken(n) == SubSeq(pool, 1, n)
Dressed(batch) ==
    [x \in Widget |->
        IF \E i \in DOMAIN batch : Taken(Len(batch))[i] = x
        THEN Update(widget[x], batch[CHOOSE i \in DOMAIN batch : pool[i] = x], area[1])
        ELSE widget[x]]
Returned(ws, xs) == [x \in Widget |-> IF x \in ToSet(xs) THEN Hide(ws[x]) ELSE ws[x]]

\* UpdateLayoutAndScroll, while older messages are awaited
Prepend(batch) ==
    LET all == Reverse(Taken(Len(batch))) \o view
        size == IF Len(all) < MaxMessages THEN Len(all) ELSE MaxMessages
        kept == SubSeq(all, 1, size)
        trimmed == Reverse(SubSeq(all, size + 1, Len(all)))
        ws == Returned(Dressed(batch), trimmed)
        rows == Total(ws, kept)
        target == IF view = <<>> THEN rows - area[2]
                  ELSE scroll + Total(Dressed(batch), Taken(Len(batch)))
    IN  /\ pool' = SubSeq(pool, Len(batch) + 1, Len(pool)) \o trimmed
        /\ LayOut(ws, kept, ScrollToRow(rows, area[2], target, scroll), rows, area)

\* The rows are counted in a size_t: with too few of them the slack wraps it.
WasAtBottom == units >= BottomSlack /\ scroll + area[2] >= units - BottomSlack

\* (mutation: what is trimmed above is not taken from the scroll position)
AppendInPlace(batch, isHistory) ==
    LET all == view \o Taken(Len(batch))
        surplus == IF Len(all) > MaxMessages THEN Len(all) - MaxMessages ELSE 0
        kept == SubSeq(all, surplus + 1, Len(all))
        trimmed == SubSeq(all, 1, surplus)
        ws == Returned(Dressed(batch), trimmed)
        rows == Total(ws, kept)
        target == IF ~isHistory /\ WasAtBottom THEN rows ELSE scroll
    IN  /\ pool' = SubSeq(pool, Len(batch) + 1, Len(pool)) \o trimmed
        /\ LayOut(ws, kept, ScrollToRow(rows, area[2], target, scroll), rows, area)

\* ... and otherwise
AppendBatch(batch, isHistory) ==
    LET all == view \o Taken(Len(batch))
        surplus == IF Len(all) > MaxMessages THEN Len(all) - MaxMessages ELSE 0
        kept == SubSeq(all, surplus + 1, Len(all))
        trimmed == SubSeq(all, 1, surplus)
        removedHeight == Total(widget, SubSeq(view, 1, IF surplus < Len(view) THEN surplus ELSE Len(view)))
        ws == Returned(Dressed(batch), trimmed)
        rows == Total(ws, kept)
        target == IF ~isHistory /\ WasAtBottom THEN rows
                  ELSE IF scroll > removedHeight THEN scroll - removedHeight ELSE 0
    IN  /\ pool' = SubSeq(pool, Len(batch) + 1, Len(pool)) \o trimmed
        /\ LayOut(ws, kept, ScrollToRow(rows, area[2], target, scroll), rows, area)

OnMessagesReceived(batch, isHistory) ==
    /\ isHistory => asked > 0
    /\ loadingOlder' = FALSE /\ loadingNewer' = FALSE
    /\ asked' = IF isHistory THEN asked - 1 ELSE asked
    /\ IF batch = <<>>
       THEN UNCHANGED <<widget, view, pool, scroll, units, area, lastSnap, button>>
       ELSE IF loadingOlder THEN Prepend(batch) ELSE AppendBatch(batch, isHistory)
    /\ stale' = (stale \/ (batch = <<>> /\ view = <<>> /\ button = lastSnap))

Clear ==
    /\ widget' = Returned(widget, view)
    /\ pool' = pool \o view
    /\ view' = <<>>
    /\ units' = 0

LoadOlderMessages == loadingOlder' = TRUE /\ asked' = asked + 1
LoadNewerMessages == loadingNewer' = TRUE /\ asked' = asked + 1

Start ==
    /\ Clear
    /\ LoadOlderMessages /\ loadingNewer' = FALSE
    /\ UNCHANGED <<scroll, area, lastSnap, stale>>

\* The button was pressed.
JumpToPresent == button /\ Start /\ UNCHANGED button

\* ResetState, as part of ShowChat
ResetState == Start /\ button' = FALSE

-----------------------------------------------------------------------------
\* OnScrolled, after the wheel moved the view by rows
OnScrolled(row) ==
    /\ LayOut(widget, view, row, units, area)
    /\ LET near == ~loadingOlder /\ ~loadingNewer
       IN  IF near /\ row <= LoadMargin
           THEN LoadOlderMessages /\ UNCHANGED loadingNewer
           ELSE IF near /\ row + area[2] >= units - LoadMargin
           THEN LoadNewerMessages /\ UNCHANGED loadingOlder
           ELSE UNCHANGED loading
    /\ UNCHANGED <<pool, stale>>

OnMouseWheel(by) ==
    LET wanted == IF scroll + by < 0 THEN 0 ELSE scroll + by
        row == ScrollToRow(units, area[2], wanted, scroll)
    IN  row # scroll /\ OnScrolled(row)

ReWrapAllMessages(width) ==
    [x \in Widget |-> IF x \in ToSet(view) THEN SetWrappedMessage(widget[x], width) ELSE widget[x]]

DoSetSize(size) ==
    LET ws == IF size[1] = area[1] THEN widget ELSE ReWrapAllMessages(size[1])
        rows == Total(ws, view)
    IN  /\ size # area
        /\ LayOut(ws, view, ScrollToRow(rows, size[2], scroll + area[2] - size[2], scroll), rows, size)
        /\ UNCHANGED <<pool, loading, stale>>

DeleteMessageById(x) ==
    LET rest == RemoveAt(view, IndexOf(view, x))
        ws == [widget EXCEPT ![x] = Hide(@)]
        rows == Total(ws, rest)
    IN  /\ pool' = Append(pool, x)
        /\ LayOut(ws, rest, ScrollToRow(rows, area[2], scroll, scroll), rows, area)
        /\ UNCHANGED <<loading, stale>>

\* The user who wrote the messages of xs changed name.
UpdateUsername(xs) ==
    LET ws == [x \in Widget |->
                  IF x \in xs THEN Update(widget[x], widget[x].text, area[1]) ELSE widget[x]]
    IN  /\ LayOut(ws, view, scroll, units, area)
        /\ UNCHANGED <<pool, loading, stale>>

\* What happens to a widget in sight.
Touch(x) ==
    /\ widget[x].shown
    /\ \/ widget' = [widget EXCEPT ![x] = OnPaint(@)]
       \/ widget' = [widget EXCEPT ![x] = OnMouseEnter(@)]
       \/ widget' = [widget EXCEPT ![x] = OnMouseLeave(@)]
    /\ UNCHANGED <<view, pool, scroll, units, area, loading, lastSnap, button, stale>>

\* OnActivate, or the system's colours change.
InvalidateCaches ==
    /\ widget' = [x \in Widget |-> IF x \in ToSet(view) /\ widget[x].shown
                                   THEN InvalidateCache(widget[x]) ELSE widget[x]]
    /\ UNCHANGED <<view, pool, scroll, units, area, loading, lastSnap, button, stale>>

-----------------------------------------------------------------------------
Init ==
    /\ widget = [x \in Widget |-> NewWidget]
    /\ view = <<>>
    /\ pool = SetToSeq(Widget)
    /\ scroll = 0 /\ units = 0
    /\ area \in Size
    /\ loadingOlder = FALSE /\ loadingNewer = FALSE /\ asked = 0
    /\ lastSnap = TRUE /\ button = FALSE
    /\ stale = FALSE

Batch(n) == UNION {[1..k -> Text] : k \in 0..n}

Next ==
    \/ \E batch \in Batch(ChunkSize) : OnMessagesReceived(batch, TRUE)
    \/ \E text \in Text : OnMessagesReceived(<<text>>, FALSE)
    \/ JumpToPresent \/ ResetState \/ InvalidateCaches
    \/ \E by \in {-WheelStep, WheelStep} : OnMouseWheel(by)
    \/ \E size \in Size : DoSetSize(size)
    \/ \E xs \in SUBSET ToSet(view) : UpdateUsername(xs)
    \/ \E x \in ToSet(view) : DeleteMessageById(x) \/ Touch(x)

Spec == Init /\ [][Next]_vars

-----------------------------------------------------------------------------
(***************************************************************************)
(* What is seen is true, however a widget was reused, renamed, resized,    *)
(* lit or scrolled out of sight and back: its label is its own text as it  *)
(* is wrapped at the width of the view, its height and its bitmap are      *)
(* those of the label, all the lines drawn fit in it, and what is in sight *)
(* is shown where it belongs.  A widget is in the view or hidden in the    *)
(* pool, never in both or in neither.  One thing is not true of what is    *)
(* seen: until the view gets another width, and again when its author      *)
(* changes name, a text shows each of its ampersands twice, and a line may *)
(* then be wider than the view.                                            *)
(***************************************************************************)
WhatIsSeenIsTrue ==
    /\ ToSet(view \o pool) = Widget /\ Len(view \o pool) = Cardinality(Widget)
    /\ \A x \in ToSet(pool) : ~widget[x].shown
    /\ \A x \in ToSet(view) :
        LET w == widget[x]
            top == Top(widget, view, x)
        IN  /\ w.label \in Labels(w.text, area[1])
            /\ w.lines \in {Nothing, LineCount(w.label)}
            /\ Len(Lines(w.label)) + HeaderHeight <= Height(w)
            /\ w.bitmap \in {Nothing, [lines |-> Lines(w.label), lit |-> w.lit, size |-> w.size]}
            /\ top < scroll + area[2] /\ top + Height(w) > scroll =>
                  w.shown /\ w.y = top - scroll /\ w.size = <<area[1], Height(w)>>

(***************************************************************************)
(* The button that leads back to the present is never shown at the end of  *)
(* the messages, and is shown whenever the end is out of sight, also after *)
(* the panel was reset behind the view's back.  One case is left out: a    *)
(* view that was away from its end when it was cleared, and then gets an   *)
(* empty page, still takes itself to be away, and what comes next, live or *)
(* as the answer to another request, may put the end out of sight without  *)
(* the button.                                                             *)
(***************************************************************************)
ButtonShowsTheWay ==
    LET atEnd == IsSnappedToBottom(view, scroll, units, area[2])
    IN  view # <<>> => (button => ~atEnd) /\ (~atEnd => button \/ stale)

\* The widgets of messages that came, live or, when asked for, as a page.
Came == ToSet(view') \ ToSet(view)

\* Where x is on the screen.
OnScreen(x) == Top(widget, view, x) - scroll

(***************************************************************************)
(* Messages that come do not move those in sight, whether they come above  *)
(* or below and whatever is trimmed for them, but where the view would     *)
(* leave its ends; a reader at the end follows live messages.              *)
(***************************************************************************)
AnchorStays ==
    [][ Came # {} /\ view # <<>> =>
          IF asked' = asked /\ WasAtBottom /\ ~loadingOlder
          THEN scroll' = LastRow(units', area[2])
          ELSE \/ scroll' \in {0, LastRow(units', area[2])}
               \/ \A x \in ToSet(view) \cap ToSet(view') : OnScreen(x)' = OnScreen(x)
      ]_vars

=============================================================================
