------------------------------- MODULE AppFrame -------------------------------
(***************************************************************************)
(* The frame of the console (client/src/components/console/app-layout.tsx): *)
(* the side bar, its width dragged with the pointer.                        *)
(*                                                                          *)
(* The listeners of a drag are closures of one render: they are made anew   *)
(* when `dragging' changes, and the effect of the render before takes its   *)
(* own off the window.  So the first press starts a drag with no listener:  *)
(* it goes on, the text of the page not selectable, until a second press.   *)
(***************************************************************************)
EXTENDS Integers

CONSTANTS
    MinWidth, MaxWidth, StartWidth,   \* SIDEBAR_MIN_WIDTH, SIDEBAR_MAX_WIDTH
    Delta,                            \* how far the pointer goes from the press
    MaxRenders                        \* bound: changes of `dragging'

ASSUME FrameAssumption ==
    /\ MinWidth \in Nat /\ MaxWidth \in Nat /\ StartWidth \in MinWidth..MaxWidth
    /\ Delta \subseteq Int /\ MaxRenders \in Nat

VARIABLES
    collapsed, dragging,
    barWidth,        \* sidebarWidth
    startWidth,      \* dragStartWidthRef
    frozen,          \* document.body.style: userSelect "none", the cursor of a drag
    render,          \* number of the closures the last render has made
    listeners        \* on the window: closures, and the `dragging' each has seen

frameVars == <<collapsed, dragging, barWidth, startWidth, frozen, render, listeners>>

Listener == [of : 0..MaxRenders, dragging : BOOLEAN]
Own == [of |-> render, dragging |-> dragging]

FrameTypeOK ==
    /\ collapsed \in BOOLEAN /\ dragging \in BOOLEAN /\ frozen \in BOOLEAN
    /\ barWidth \in MinWidth..MaxWidth /\ startWidth \in MinWidth..MaxWidth
    /\ render \in 0..MaxRenders /\ listeners \subseteq Listener

FrameClosed ==
    /\ collapsed = FALSE /\ dragging = FALSE /\ frozen = FALSE
    /\ barWidth = StartWidth /\ startWidth = StartWidth /\ render = 0 /\ listeners = {}

\* Collapsed at once on a small screen.
FrameInit ==
    /\ collapsed \in BOOLEAN /\ dragging = FALSE /\ frozen = FALSE
    /\ barWidth = StartWidth /\ startWidth = StartWidth /\ render = 0 /\ listeners = {}

\* setDragging, and the render and the cleanup that follow when it changes.
Drags(drag, kept) ==
    /\ dragging' = drag
    /\ IF drag = dragging THEN UNCHANGED render /\ listeners' = kept
       ELSE render < MaxRenders /\ render' = render + 1 /\ listeners' = kept \ {Own}

\* handlePointerDown, at the handle, which a collapsed bar does not have.
PressHandle ==
    /\ ~collapsed /\ frozen' = TRUE /\ startWidth' = barWidth
    /\ Drags(TRUE, listeners \cup {Own})
    /\ UNCHANGED <<collapsed, barWidth>>

\* handlePointerMove of a listener
MovePointer(l, delta) ==
    /\ l \in listeners /\ l.dragging
    /\ barWidth' = (IF startWidth + delta > MaxWidth THEN MaxWidth
                    ELSE IF startWidth + delta < MinWidth THEN MinWidth ELSE startWidth + delta)
    /\ UNCHANGED <<collapsed, dragging, startWidth, frozen, render, listeners>>

\* handlePointerUp of a listener: it takes itself off.
LiftPointer(l) ==
    /\ l \in listeners /\ frozen' = FALSE
    /\ Drags(FALSE, listeners \ {l})
    /\ UNCHANGED <<collapsed, barWidth, startWidth>>

\* handleToggleCollapsed
ToggleCollapsed ==
    /\ collapsed' = ~collapsed
    /\ UNCHANGED <<dragging, barWidth, startWidth, frozen, render, listeners>>

FrameNext ==
    \/ PressHandle \/ ToggleCollapsed
    \/ \E l \in listeners : LiftPointer(l) \/ \E d \in Delta : MovePointer(l, d)

----------------------------------------------------------------------------
(* Properties *)

\* The page can be selected again exactly when the drag is over, and no listener of
\* an earlier render, or of a drag that is over, is left on the window.
NoListenerIsLeft ==
    /\ frozen <=> dragging
    /\ listeners \subseteq {Own} /\ (listeners # {} => dragging)
=============================================================================
