------------------------------- MODULE Dialogs -------------------------------
(***************************************************************************)
(* web/src/components/Modal.tsx: each dialog keeps what document.body's    *)
(* overflow was, sets it to hidden, and puts it back.  Its onClose is a    *)
(* new function whenever the page renders, so every dialog that is open    *)
(* undoes and redoes its effect then.                                      *)
(***************************************************************************)
EXTENDS Naturals

\* Where a dialog comes among those of its page.
Place == [device |-> 1, browser |-> 2, import |-> 3, password |-> 4, create |-> 1, secret |-> 2]

FirstOf(open) == CHOOSE d \in open : \A e \in open : Place[d] <= Place[e]

LastOf(open) == CHOOSE d \in open : \A e \in open : Place[e] <= Place[d]

VARIABLE scroll

ScrollInit == [hidden |-> FALSE, kept |-> [d \in {} |-> FALSE], stacked |-> FALSE]

\* kept[d]: overflow was hidden already when d was set up.
ScrollType ==
  /\ scroll.hidden \in BOOLEAN /\ scroll.stacked \in BOOLEAN
  /\ \A d \in DOMAIN scroll.kept : scroll.kept[d] \in BOOLEAN

\* The effects of the dialogs that go are undone first, then of those that stay.
Undone(now) ==
  LET open == DOMAIN scroll.kept
      rest == IF open \cap now = {} THEN open ELSE open \cap now IN
  IF open = {} THEN scroll.hidden ELSE scroll.kept[LastOf(rest)]

SetUpHidden(now, found) == [d \in now |-> TRUE]

\* The first dialog finds what the others left, the others find it hidden.
SetUp(now, found) == [d \in now |-> d # FirstOf(now) \/ found]

\* stacked (history): two were open at once and overflow has not been
\* visible without a dialog since.
Render(now) ==
  LET found == Undone(now)
      hidden == now # {} \/ found IN
  scroll' = [hidden |-> hidden,
             kept |-> SetUp(now, found),
             stacked |-> hidden /\ (scroll.stacked \/ \E d, e \in now : d # e)]

\* A step that changes no dialog may render the page or not.
Rendered(now) ==
  Render(now) \/ (now = DOMAIN scroll.kept /\ UNCHANGED scroll)

\* Escape closes the first dialog, which removes the listeners of the others
\* before they hear it; the buttons and the backdrop that can be reached are
\* the last one's.
Closable(d) ==
  LET open == DOMAIN scroll.kept IN
  open # {} /\ d \in {FirstOf(open), LastOf(open)}

-----------------------------------------------------------------------------
\* The page behind a dialog does not scroll, and the page without one does
\* (Modal.tsx:48-53), as long as no two dialogs have been open at once.
ScrollLock ==
  /\ DOMAIN scroll.kept # {} => scroll.hidden
  /\ scroll.hidden => DOMAIN scroll.kept # {} \/ scroll.stacked
=============================================================================
