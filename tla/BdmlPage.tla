------------------------------ MODULE BdmlPage ------------------------------
(***************************************************************************)
(* The two scripts of a BDML page that change the document after it has   *)
(* been rendered: MenuHider.js, which on window load makes the table of    *)
(* contents title a show/hide button, and Comments.js, whose commentClick  *)
(* shows or hides the popup that follows a comment marker.                 *)
(*                                                                         *)
(* The browser runs each script and each event handler to completion, so   *)
(* every handler is one action.  A class attribute is kept as its string;  *)
(* the element lookups are abstracted to the element they find.            *)
(***************************************************************************)
EXTENDS Naturals, FiniteSets

CONSTANTS
    Popups,        \* the comment popups of the page (model values)
    PageOnloads,   \* what window.onload holds when MenuHider.js runs
    TocInit,       \* the class attributes the page may give bdml-toc-ul
    PopupInit,     \* the class attributes the page may give a popup
    MaxClicks,     \* bound on the clicks of one element
    TocPresent     \* whether a page may have, or lack, the TOC elements

(* "page_throws": a page handler that throws when it is called. *)
ASSUME PageOnloads \subseteq {"none", "page", "page_throws"}
ASSUME TocPresent \subseteq BOOLEAN

VARIABLES
    onload,       \* window.onload: one of PageOnloads, or "menuHider"
    previous,     \* bdml_menu_hider_previous_onload
    phase,        \* "loading", "scripts_run", "loaded"
    runs,         \* how often each onload handler has run
    tocUl,        \* className of bdml-toc-ul
    tocTitle,     \* className of bdml-toc-title
    titleClick,   \* whether tocTitle.onclick is installed
    popup,        \* className of each popup element
    clicks,       \* clicks on the TOC title and on each comment marker
    hasToc,       \* whether the page has bdml-toc-title and bdml-toc-ul
    pageOnload    \* ghost: the window.onload the page itself installed

vars == <<onload, previous, phase, runs, tocUl, tocTitle, titleClick,
          popup, clicks, hasToc, pageOnload>>

Handlers == {"page", "page_throws", "menuHider"}

Targets == Popups \cup {"toc"}

Init ==
    /\ onload \in PageOnloads
    /\ previous = "none"
    /\ phase = "loading"
    /\ runs = [h \in Handlers |-> 0]
    /\ tocUl \in TocInit
    /\ tocTitle = ""
    /\ titleClick = FALSE
    /\ popup \in [Popups -> PopupInit]
    /\ clicks = [t \in Targets |-> 0]
    /\ hasToc \in TocPresent
    /\ pageOnload = onload

(* Mutant: window.onload saved after it has been replaced. *)
RunMenuHiderScriptLateSave ==
    /\ phase = "loading"
    /\ previous' = "menuHider"
    /\ onload' = "menuHider"
    /\ phase' = "scripts_run"
    /\ UNCHANGED <<runs, tocUl, tocTitle, titleClick, popup, clicks, hasToc,
                   pageOnload>>

(* MenuHider.js is executed: it saves window.onload and replaces it. *)
RunMenuHiderScript ==
    /\ phase = "loading"
    /\ previous' = onload
    /\ onload' = "menuHider"
    /\ phase' = "scripts_run"
    /\ UNCHANGED <<runs, tocUl, tocTitle, titleClick, popup, clicks, hasToc,
                   pageOnload>>

(* Mutant: the saved handler is not called. *)
CallPreviousNever(prev) == [h \in Handlers |-> 0]

(* if (bdml_menu_hider_previous_onload) bdml_menu_hider_previous_onload(); *)
CallPrevious(prev) == [h \in Handlers |-> IF h = prev THEN 1 ELSE 0]

(* The load event runs window.onload: the chained handler, then the TOC   *)
(* set-up.                                                                 *)
FireLoad ==
    /\ phase = "scripts_run"
    /\ onload = "menuHider"
    /\ previous # "page_throws"
    /\ hasToc
    /\ runs' = [h \in Handlers |->
                   runs[h] + CallPrevious(previous)[h]
                           + (IF h = "menuHider" THEN 1 ELSE 0)]
    /\ tocTitle' = "bdml-toc-title-hide"
    /\ titleClick' = TRUE
    /\ phase' = "loaded"
    /\ UNCHANGED <<onload, previous, tocUl, popup, clicks, hasToc, pageOnload>>

(* The saved handler throws at line 27: the exception leaves the onload   *)
(* function, so lines 30-45 never run and the title gets no handler.      *)
FireLoadPreviousThrows ==
    /\ phase = "scripts_run"
    /\ onload = "menuHider"
    /\ previous = "page_throws"
    /\ runs' = [h \in Handlers |->
                   runs[h] + CallPrevious(previous)[h]
                           + (IF h = "menuHider" THEN 1 ELSE 0)]
    /\ phase' = "loaded"
    /\ UNCHANGED <<onload, previous, tocUl, tocTitle, titleClick, popup,
                   clicks, hasToc, pageOnload>>

(* Mutant: the title looked up before the saved handler is called. *)
FireLoadNoTocLookupFirst ==
    /\ phase = "scripts_run"
    /\ onload = "menuHider"
    /\ previous # "page_throws"
    /\ ~hasToc
    /\ runs' = [h \in Handlers |-> runs[h] + (IF h = "menuHider" THEN 1 ELSE 0)]
    /\ phase' = "loaded"
    /\ UNCHANGED <<onload, previous, tocUl, tocTitle, titleClick, popup,
                   clicks, hasToc, pageOnload>>

(* A page without the TOC: the saved handler runs (line 27), then          *)
(* getElementById returns null and line 31 throws, so the title gets no   *)
(* handler.                                                                *)
FireLoadNoToc ==
    /\ phase = "scripts_run"
    /\ onload = "menuHider"
    /\ previous # "page_throws"
    /\ ~hasToc
    /\ runs' = [h \in Handlers |->
                   runs[h] + CallPrevious(previous)[h]
                           + (IF h = "menuHider" THEN 1 ELSE 0)]
    /\ phase' = "loaded"
    /\ UNCHANGED <<onload, previous, tocUl, tocTitle, titleClick, popup,
                   clicks, hasToc, pageOnload>>

(* Mutant: the title's class is not reset when the list is shown again. *)
ShowTocKeepTitle(t) == t

(* The title class once the list is shown again (lines 39-40). *)
ShowTocTitle(t) == "bdml-toc-title-hide"

(* tocTitle.onclick: toggles the list and the title together. *)
ClickTocTitle ==
    /\ titleClick
    /\ clicks["toc"] < MaxClicks
    /\ IF tocUl = "bdml-hide-toc"
       THEN /\ tocUl' = ""
            /\ tocTitle' = ShowTocTitle(tocTitle)
       ELSE /\ tocUl' = "bdml-hide-toc"
            /\ tocTitle' = "bdml-toc-title-show"
    /\ clicks' = [clicks EXCEPT !["toc"] = @ + 1]
    /\ UNCHANGED <<onload, previous, phase, runs, titleClick, popup, hasToc,
                   pageOnload>>

(* Mutant: the else branch copied from the then branch. *)
PopupAlwaysShown(cls) == "bdml-popup-shown"

(* commentClick: the popup's next class. *)
PopupToggled(cls) ==
    IF cls = "bdml-popup-hidden" THEN "bdml-popup-shown" ELSE "bdml-popup-hidden"

(* commentClick(obj) on the marker of popup p: an inline handler, live as *)
(* soon as the page is parsed.                                             *)
CommentClick(p) ==
    /\ clicks[p] < MaxClicks
    /\ popup' = [popup EXCEPT ![p] = PopupToggled(@)]
    /\ clicks' = [clicks EXCEPT ![p] = @ + 1]
    /\ UNCHANGED <<onload, previous, phase, runs, tocUl, tocTitle, titleClick,
                   hasToc, pageOnload>>

Next ==
    \/ RunMenuHiderScript
    \/ FireLoad
    \/ FireLoadPreviousThrows
    \/ FireLoadNoToc
    \/ ClickTocTitle
    \/ \E p \in Popups : CommentClick(p)

(* The browser runs the script and fires load once it has run; clicks are *)
(* up to the reader and are not fair.                                      *)
Spec ==
    /\ Init /\ [][Next]_vars
    /\ WF_vars(RunMenuHiderScript \/ FireLoad \/ FireLoadPreviousThrows
               \/ FireLoadNoToc)

-----------------------------------------------------------------------------
TypeOK ==
    /\ onload \in PageOnloads \cup {"menuHider"}
    /\ previous \in PageOnloads \cup {"none"}
    /\ phase \in {"loading", "scripts_run", "loaded"}
    /\ runs \in [Handlers -> 0..1]
    /\ titleClick \in BOOLEAN
    /\ popup \in [Popups -> PopupInit \cup {"bdml-popup-shown", "bdml-popup-hidden"}]
    /\ clicks \in [Targets -> 0..MaxClicks]
    /\ hasToc \in TocPresent
    /\ pageOnload \in PageOnloads

Odd(n) == n % 2 = 1

(***************************************************************************)
(* Installing the TOC handler keeps the page's own window.onload: once     *)
(* the load event has been handled, the handler the page installed and    *)
(* MenuHider's have each run exactly once and no other has run, also on a *)
(* page without a TOC, where the handler throws after the call, and when  *)
(* the page's handler throws.  It is about the save-and-chain in          *)
(* MenuHider.js and the call coming before the TOC look-up.               *)
(***************************************************************************)
OnloadChainKept ==
    phase = "loaded" =>
        \A h \in Handlers :
            runs[h] = IF h \in {pageOnload, "menuHider"} THEN 1 ELSE 0

(***************************************************************************)
(* The TOC title always offers the opposite of what the list shows: the   *)
(* list is hidden exactly when the title has been clicked an odd number   *)
(* of times, and the title reads "hide" exactly when the list is visible. *)
(* It is about both branches of the click handler updating both elements. *)
(***************************************************************************)
TocTitleMatchesList ==
    titleClick =>
        /\ (tocUl = "bdml-hide-toc") = Odd(clicks["toc"])
        /\ (tocTitle = "bdml-toc-title-hide") = ~Odd(clicks["toc"])

(***************************************************************************)
(* A popup is shown exactly when its marker has been clicked an odd number *)
(* of times, whatever the other popups do.  It is about commentClick       *)
(* testing and setting the class of the clicked marker's own popup.        *)
(***************************************************************************)
PopupShownAfterOddClicks ==
    \A p \in Popups : (popup[p] = "bdml-popup-shown") = Odd(clicks[p])

=============================================================================
