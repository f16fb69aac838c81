\* Two popups so that clicks on one can interleave with the other; three
\* clicks per element cover hide, show and hide again.
CONSTANTS
    Popups = {p1, p2}
    PageOnloads = {"none", "page", "page_throws"}
    TocInit = {""}
    PopupInit = {"bdml-popup-hidden"}
    MaxClicks = 3
    TocPresent = {TRUE, FALSE}
SPECIFICATION Spec
\* Once every element has been clicked MaxClicks times the page is idle.
CHECK_DEADLOCK FALSE
INVARIANTS
    TypeOK
    OnloadChainKept
    TocTitleMatchesList
    PopupShownAfterOddClicks
