------------------------------- MODULE Browser -------------------------------
(***************************************************************************)
(* The browser tool and its Chrome backend:                                *)
(* internal/adapter/tool/browser.go and browser_chromedp.go.  One mutex is *)
(* held through every call, so a call is one step; but there is one active *)
(* tab for all the sessions, and a tool call that panics is recovered by   *)
(* nobody: it ends the process.                                            *)
(***************************************************************************)
EXTENDS Integers

CONSTANTS Users,     \* sessions whose turns call the tool
          Targets,   \* the identifiers Chrome gives to pages, none of them twice
          Urls,      \* addresses that are asked for
          ValidUrls, \* those that security.ValidateURL lets through
          NoTarget,
          MaxJS      \* maxJSExpressionLen, in the unit of the expressions tried

ASSUME BrowserConstants ==
    /\ ValidUrls \subseteq Urls /\ {"unborn", "gone"} \cap Urls = {}
    /\ NoTarget \notin Targets /\ MaxJS \in Nat

VARIABLES page,      \* of every target: "unborn", "gone", "blank", or what it shows
          tabs,      \* the targets the backend has a context for
          activeID,  \* the target page calls go to
          connected,
          panicked,  \* a call has found no active tab
          lost,      \* the replacement of the last tab could not be made
          mine,      \* what a session was told is in front of it
          disturbed, \* someone else, or the order of a map, has moved it since
          misled,    \* sessions that read another page than the one they were told of
          selfClosed \* history: pages that closed or crashed by themselves

browserVars == <<page, tabs, activeID, connected, panicked, lost, mine, disturbed, misled, selfClosed>>

Alive(t)  == page[t] \notin {"unborn", "gone"}
Unborn    == {t \in Targets : page[t] = "unborn"}

(* NewChromeDPBackend: a browser that does not come up is closed again and *)
(* the tool is not registered.                                             *)
NewChromeDPBackend ==
    \/ \E t \in Targets :
          /\ page = [x \in Targets |-> IF x = t THEN "blank" ELSE "unborn"]
          /\ tabs = {t} /\ activeID = t /\ connected = TRUE
    \/ /\ page = [x \in Targets |-> "unborn"]
       /\ tabs = {} /\ activeID = NoTarget /\ connected = FALSE

BrowserInit ==
    /\ NewChromeDPBackend
    /\ panicked = FALSE /\ lost = FALSE
    /\ mine = [s \in Users |-> "none"] /\ disturbed = [s \in Users |-> FALSE]
    /\ misled = {} /\ selfClosed = {}

-----------------------------------------------------------------------------
(* What s did is what s sees; the others have been disturbed. *)

InFront(s, shown) ==
    /\ mine' = [mine EXCEPT ![s] = shown]
    /\ disturbed' = [u \in Users |-> u # s]

(* withTimeout takes the context of the active tab, which may not be there. *)
withTimeout == activeID \in tabs

Panics ==
    /\ ~withTimeout
    /\ panicked' = TRUE
    /\ UNCHANGED <<page, tabs, activeID, connected, lost, mine, disturbed, misled, selfClosed>>

Show(t, what) == page' = [page EXCEPT ![t] = what]

(* A page call that has run in the active tab and left `shown` there.  In  *)
(* a tab whose page is gone every call fails.                              *)
Ran(s, shown) ==
    /\ withTimeout /\ Alive(activeID)
    /\ Show(activeID, shown) /\ InFront(s, shown)
    /\ UNCHANGED <<tabs, activeID, connected, panicked, lost, misled, selfClosed>>

Unheeded ==
    /\ withTimeout
    /\ UNCHANGED browserVars

\* Chrome itself: a page closes its window, or crashes, whether the backend has a context
\* for it or not.  The context stays, and the tab may be the active one.
WindowCloses(t) ==
    /\ Alive(t)
    /\ Show(t, "gone") /\ selfClosed' = selfClosed \cup {t}
    /\ UNCHANGED <<tabs, activeID, connected, panicked, lost, mine, disturbed, misled>>

-----------------------------------------------------------------------------
(* The handlers: what they refuse, and what they do otherwise. *)

\* A run that times out may have loaded the page all the same.
Navigate(s, u) == Ran(s, u) \/ Ran(s, page[activeID]) \/ Unheeded \/ Panics

navigate(s, u) ==
    /\ u \in ValidUrls
    /\ Navigate(s, u)

GetContent(s) ==
    \/ /\ withTimeout /\ Alive(activeID)
       /\ misled' = IF mine[s] \in {"none", page[activeID]} \/ disturbed[s]
                    THEN misled ELSE misled \cup {s}
       /\ UNCHANGED <<page, tabs, activeID, connected, panicked, lost, mine, disturbed, selfClosed>>
    \/ Unheeded
    \/ Panics

getContent(s) == GetContent(s)

(* A script or a click may leave the page, open a window that only Chrome  *)
(* knows of, or close the window it is in.                                 *)
Scripted(s) ==
    \/ \E u \in ValidUrls : Ran(s, u)
    \/ /\ withTimeout /\ Alive(activeID)
       /\ \E t \in Unborn : Show(t, "popup")
       /\ InFront(s, page[activeID])
       /\ UNCHANGED <<tabs, activeID, connected, panicked, lost, misled, selfClosed>>
    \/ withTimeout /\ WindowCloses(activeID)
    \/ Unheeded
    \/ Panics

Click(s)    == Scripted(s)
Type(s)     == Scripted(s)
Evaluate(s) == Scripted(s)

click(s, selector)          == selector # "" /\ Click(s)
typeText(s, selector, text) == selector # "" /\ text # "" /\ Type(s)

(* containsWord finds a blocked word only where no word goes on before it. *)
containsWord(js) == js.word /\ ~js.insideWord

evaluate(s, js) ==
    /\ js.len \in 1 .. MaxJS
    /\ ~js.pattern /\ ~containsWord(js)
    /\ Evaluate(s)

WaitVisible == Unheeded \/ Panics
waitVisible(selector) == selector # "" /\ WaitVisible

(* Screenshot tries one quality after another and stops at the first that  *)
(* fits; the handler refuses what is too large at the lowest quality too.  *)
Screenshot(sizes, limit) ==
    LET fits == {q \in 1 .. 4 : sizes[q] <= limit}
    IN  IF fits = {} THEN sizes[4]
        ELSE sizes[CHOOSE q \in fits : \A r \in fits : q <= r]

screenshot(sizes, limit) ==
    \/ Screenshot(sizes, limit) <= limit /\ Unheeded
    \/ Panics

-----------------------------------------------------------------------------
(* The tabs. *)

(* A target that is made and cannot be attached stays open: TabList shows  *)
(* it, TabClose and TabFocus do not know it.  Or none is made.             *)
TabOpen(s, u, t) ==
    \/ /\ Show(t, u) /\ tabs' = tabs \cup {t} /\ activeID' = t /\ lost' = FALSE
       /\ InFront(s, u)
       /\ UNCHANGED <<connected, panicked, misled, selfClosed>>
    \/ /\ Show(t, u)
       /\ UNCHANGED <<tabs, activeID, connected, panicked, lost, mine, disturbed, misled, selfClosed>>

tabOpen(s, u) ==
    /\ u = "blank" \/ u \in ValidUrls
    /\ (\E t \in Unborn : TabOpen(s, u, t)) \/ UNCHANGED browserVars

\* Mutant: the active tab is closed like any other.
MutTabClose(s, t) ==
    /\ t \in tabs
    /\ tabs' = tabs \ {t} /\ Show(t, "gone")
    /\ UNCHANGED <<activeID, connected, panicked, lost, mine, disturbed, misled, selfClosed>>

(* Closing the active tab puts any other tab in front, or a new one, which *)
(* may turn out to be a blank page that Chrome had already; when that      *)
(* fails, the call has an error to return and no tab to leave behind.      *)
TabClose(s, t) ==
    /\ t \in tabs
    /\ IF t # activeID
       THEN /\ tabs' = tabs \ {t} /\ Show(t, "gone")
            /\ UNCHANGED <<activeID, lost, mine, disturbed>>
       ELSE \/ \E other \in tabs \ {t} :
                  /\ tabs' = tabs \ {t} /\ Show(t, "gone") /\ activeID' = other
                  /\ lost' = lost
                  /\ mine' = mine /\ disturbed' = [u \in Users |-> TRUE]
            \/ /\ tabs = {t}
               /\ \E new \in Unborn \cup {x \in Targets \ {t} : page[x] = "blank"} :
                     /\ tabs' = {new} /\ activeID' = new
                     /\ page' = [page EXCEPT ![t] = "gone", ![new] = "blank"]
               /\ lost' = lost /\ InFront(s, "blank")
            \/ /\ tabs = {t} /\ tabs' = {} /\ Show(t, "gone")
               /\ activeID' = NoTarget /\ lost' = TRUE
               /\ UNCHANGED <<mine, disturbed>>
    /\ UNCHANGED <<connected, panicked, misled, selfClosed>>

tabClose(s, t) == TabClose(s, t)

\* The tab is the active one even if Chrome fails to bring it up, its page being gone.
TabFocus(s, t) ==
    /\ t \in tabs
    /\ activeID' = t
    /\ InFront(s, page[t])
    /\ UNCHANGED <<page, tabs, connected, panicked, lost, misled, selfClosed>>

tabFocus(s, t) == TabFocus(s, t)

TabList == {t \in Targets : Alive(t)}
tabList == TabList

\* Only a connected backend looks for its active tab.
Status == connected /\ Panics
status == Status

\* A panic ends the process, and its browser with it.
PanicRestarts ==
    /\ panicked
    /\ page' = [t \in Targets |-> IF Alive(t) THEN "gone" ELSE page[t]]
    /\ tabs' = {} /\ activeID' = NoTarget /\ connected' = FALSE
    /\ panicked' = FALSE /\ lost' = FALSE
    /\ UNCHANGED <<mine, disturbed, misled, selfClosed>>

Scripts == [len : {0, 1, MaxJS + 1}, pattern : BOOLEAN, word : BOOLEAN, insideWord : BOOLEAN]

(* BrowserTool.Execute: the action is looked up and its handler called. *)
Execute(s) ==
    \/ \E u \in Urls : navigate(s, u)
    \/ getContent(s)
    \/ \E sizes \in {<<1, 1, 1, 1>>, <<3, 2, 1, 1>>, <<4, 4, 3, 3>>} : screenshot(sizes, 2)
    \/ \E sel \in {"", "button"} : click(s, sel)
    \/ \E sel \in {"", "field"}, text \in {"", "text"} : typeText(s, sel, text)
    \/ \E js \in Scripts : evaluate(s, js)
    \/ \E sel \in {"", "field"} : waitVisible(sel)
    \/ \E u \in Urls \cup {"blank"} : tabOpen(s, u)
    \/ \E t \in Targets : tabClose(s, t)
    \/ \E t \in Targets : tabFocus(s, t)
    \/ status

BrowserNext ==
    \/ connected /\ ~panicked /\ \E s \in Users : Execute(s)
    \/ \E t \in Targets : WindowCloses(t)
    \/ PanicRestarts

BrowserSpec == BrowserInit /\ [][BrowserNext]_browserVars

-----------------------------------------------------------------------------
(* There is a tab to work in, and it is the one the session was told of:   *)
(* the active target is one the backend has a context for, a call runs     *)
(* into a missing tab (and takes the process down) only after the          *)
(* replacement of the last tab could not be made, a tab the backend has a  *)
(* context for has a page in Chrome unless that page closed or crashed by  *)
(* itself (the tool never works in a tab that it closed), and what         *)
(* get_content returns is the page that this session brought to the front  *)
(* last, unless another session has used the browser since                 *)
(* (browser_chromedp.go, TabClose, TabOpen, TabFocus, withTimeout).        *)
BrowserIsWhole ==
    /\ connected => activeID \in tabs \/ (lost /\ tabs = {})
    /\ panicked => lost
    /\ \A t \in tabs : page[t] # "unborn" /\ (page[t] = "gone" => t \in selfClosed)
    /\ misled = {}

=============================================================================
