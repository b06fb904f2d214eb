------------------------------ MODULE Browser ------------------------------
(***************************************************************************)
(* The two threads of the browser (userspace/browser/browser.c): the GUI   *)
(* thread owns the page and its history; after a resize it asks the parser *)
(* thread, on another CPU, for a new layout and goes on polling events.    *)
(*                                                                         *)
(* req_seq and done_seq are read without the lock; what is read or written *)
(* under parser_state.lock is one step (the lock is Mutex.tla).  A layout  *)
(* is what it was made from: the width of the viewport and the version of  *)
(* the DOM.  The memory of a freed page is handed out again.               *)
(***************************************************************************)
EXTENDS Integers, Sequences, FiniteSets, FiniteSetsExt

CONSTANTS Pages,     \* addresses malloc may return for a struct loaded_page
          Urls,
          Widths,    \* of the viewport
          HistCap,   \* BR_HISTORY_CAP
          MaxReq,    \* bound: requests to the parser
          MaxClicks  \* bound: onclick handlers that change the DOM of one page

ASSUME BrowserAssumption == HistCap \in Nat \ {0, 1} /\ MaxReq \in Nat /\ MaxClicks \in Nat

NoPage == 0
ASSUME NoPageAssumption == NoPage \notin Pages

VARIABLES
    gui,      \* where the GUI thread is, the done_seq it read, and what it is waiting for:
              \*   the page it loaded and how (a new entry of the history, or a move in it)
    parser,   \* where the parser thread is, last_seq, and the request it works on
    req, done, consumed,  \* req_seq, done_seq, consumed_seq
    order,    \* req_page and req_viewport
    result,   \* new_ldoc, new_pb and new_viewport; NoResult when new_built is 0
    stop,     \* the shutdown flag
    page, width, dom,     \* s.page, s.viewport_w, and the version of the page's DOM
    shown,    \* the page's ldoc and pb: the width and the DOM they were made from
    live,     \* the pages that are not freed
    url,      \* the url of the page
    hist, at, \* the history and hist_idx
    crossed   \* history: an onclick changed the page while a layout of it was under way

browserVars == <<gui, parser, req, done, consumed, order, result, stop, page, width, dom,
                 shown, live, url, hist, at, crossed>>
pageVars == <<page, width, dom, shown, live, url, hist, at, crossed>>

NoResult == [page |-> NoPage, width |-> 0, dom |-> 0]
NoUrl    == ""
AtLoop   == [pc |-> "loop", done |-> 0, next |-> NoPage, url |-> NoUrl, move |-> 0]
Narrow   == Min(Widths)

\* run_gui up to its loop; without a parser thread (parser_spawn failed) layouts are made by
\* the GUI thread.
BrowserInit ==
    /\ gui = AtLoop
    /\ \E pc \in {"test", "none"} :
          parser = [pc |-> pc, last |-> 0, page |-> NoPage, width |-> 0, dom |-> 0, ok |-> TRUE]
    /\ req = 0 /\ done = 0 /\ consumed = 0
    /\ order = [page |-> NoPage, width |-> 0] /\ result = NoResult /\ stop = FALSE
    /\ \E p \in Pages, u \in Urls : page = p /\ live = {p} /\ url = u /\ hist = <<u>>
    /\ at = 1 /\ width = Narrow /\ dom = 0 /\ shown = [width |-> Narrow, dom |-> 0]
    /\ crossed = FALSE

Threaded == parser.pc # "none"
Roused == IF parser.pc = "asleep" THEN [parser EXCEPT !.pc = "test"] ELSE parser

(***************************************************************************)
(* The GUI thread.                                                         *)
(***************************************************************************)
\* GUI_EVENT_RESIZE: parser_request_relayout overwrites a request that was not taken yet.
ResizeView(w) ==
    /\ gui.pc = "loop" /\ req < MaxReq
    /\ width' = w
    /\ IF Threaded
       THEN /\ order' = [page |-> page, width |-> w]
            /\ req' = req + 1 /\ parser' = Roused /\ UNCHANGED shown
       ELSE shown' = [width |-> w, dom |-> dom] /\ UNCHANGED <<order, req, parser>>
    /\ UNCHANGED <<gui, done, consumed, result, stop, page, dom, live, url, hist, at, crossed>>

\* A click on an element with an onclick handler that changes the DOM: relayout_page.
Click ==
    /\ gui.pc = "loop" /\ dom < MaxClicks
    /\ dom' = dom + 1 /\ shown' = [width |-> width, dom |-> dom']
    /\ crossed' = (crossed \/ req # done \/ result # NoResult)
    /\ UNCHANGED <<gui, parser, req, done, consumed, order, result, stop, page, width, live, url,
                   hist, at>>

\* parser_absorb_completion: the test of done_seq, and what is done under the lock.
Absorb(pc, then) ==
    /\ gui.pc = pc /\ done # consumed
    /\ gui' = [gui EXCEPT !.pc = then, !.done = done]
    /\ UNCHANGED <<parser, req, done, consumed, order, result, stop, pageVars>>

Take(pc, then) ==
    /\ gui.pc = pc
    /\ gui' = [gui EXCEPT !.pc = then, !.done = 0]
    /\ IF result = NoResult THEN UNCHANGED shown
       ELSE shown' = [width |-> result.width, dom |-> result.dom]
    /\ consumed' = gui.done /\ result' = NoResult
    /\ UNCHANGED <<parser, req, done, order, stop, page, width, dom, live, url, hist, at, crossed>>

\* load_page of a navigation (move 0), a reload (the same entry) or a step in the history; the
\* old page stays in use if it fails.
Load(u, move) ==
    /\ gui.pc = "loop"
    /\ \E p \in Pages \ live :
          /\ live' = live \union {p}
          /\ gui' = [AtLoop EXCEPT !.pc = IF Threaded THEN "wait" ELSE "swap",
                                   !.next = p, !.url = u, !.move = move]
    /\ UNCHANGED <<parser, req, done, consumed, order, result, stop, page, width, dom, shown,
                   url, hist, at, crossed>>

Navigate == \E u \in Urls : Load(u, 0)
Go(move) == at + move \in 1 .. Len(hist) /\ Load(hist[at + move], move)
Reload   == Load(url, 2)

\* Mutant: the parser is not waited for.
WaitIdle_Not ==
    /\ gui.pc = "wait" /\ gui' = [gui EXCEPT !.pc = "swap"]
    /\ UNCHANGED <<parser, req, done, consumed, order, result, stop, pageVars>>

\* parser_wait_idle: nothing under way, or sleep until the parser publishes; either way what it
\* has published is absorbed.
WaitIdle ==
    /\ gui.pc = "wait"
    /\ gui' = [gui EXCEPT !.pc = IF req = done THEN "last" ELSE "sleep", !.done = done]
    /\ UNCHANGED <<parser, req, done, consumed, order, result, stop, pageVars>>

\* futex_wait, which compares again.
GuiSleep ==
    /\ gui.pc = "sleep"
    /\ gui' = [gui EXCEPT !.pc = IF done = gui.done THEN "asleep" ELSE "drain"]
    /\ UNCHANGED <<parser, req, done, consumed, order, result, stop, pageVars>>

NothingNew(pc, then) ==
    /\ gui.pc = pc /\ done = consumed
    /\ gui' = [gui EXCEPT !.pc = then]
    /\ UNCHANGED <<parser, req, done, consumed, order, result, stop, pageVars>>

\* hist_push: the forward tail goes, and the oldest entry when there is no room.
HistPush(h, i, u) ==
    LET kept == SubSeq(h, 1, i)
    IN  IF i >= HistCap THEN Append(Tail(kept), u) ELSE Append(kept, u)

\* The old page is freed and the new one, laid out for the width it was loaded at, takes its
\* place; when the window closes there is none.
Swap ==
    /\ gui.pc = "swap"
    /\ IF gui.next = NoPage
       THEN gui' = [gui EXCEPT !.pc = IF Threaded THEN "shut" ELSE "end"]
            /\ UNCHANGED pageVars
       ELSE /\ gui' = AtLoop
            /\ live' = live \ {page} /\ page' = gui.next /\ url' = gui.url
            /\ dom' = 0 /\ shown' = [width |-> width, dom |-> 0] /\ crossed' = FALSE
            /\ hist' = IF gui.move = 0 THEN HistPush(hist, at, gui.url) ELSE hist
            /\ at' = CASE gui.move = 0 -> Len(hist') [] gui.move = 2 -> at [] OTHER -> at + gui.move
            /\ UNCHANGED width
    /\ UNCHANGED <<parser, req, done, consumed, order, result, stop>>

\* GUI_EVENT_CLOSE, then parser_shutdown: the flag, a bump of req_seq, and the join.
CloseWindow ==
    /\ gui.pc = "loop"
    /\ gui' = [AtLoop EXCEPT !.pc = IF Threaded THEN "wait" ELSE "swap"]
    /\ UNCHANGED <<parser, req, done, consumed, order, result, stop, pageVars>>

Shut ==
    /\ gui.pc = "shut" /\ gui' = [gui EXCEPT !.pc = "join"]
    /\ stop' = TRUE /\ req' = req + 1 /\ parser' = Roused
    /\ UNCHANGED <<done, consumed, order, result, pageVars>>

End ==
    /\ gui.pc = "end" \/ (gui.pc = "join" /\ parser.pc = "gone")
    /\ gui' = [gui EXCEPT !.pc = "gone"]
    /\ live' = live \ {page} /\ result' = NoResult
    /\ UNCHANGED <<parser, req, done, consumed, order, stop, page, width, dom, shown, url, hist, at,
                   crossed>>

GuiStep ==
    \/ \E w \in Widths : ResizeView(w)
    \/ Click \/ Navigate \/ Go(-1) \/ Go(1) \/ Reload \/ CloseWindow
    \/ Absorb("loop", "absorb") \/ Take("absorb", "loop")
    \/ WaitIdle \/ GuiSleep
    \/ Absorb("last", "absorbLast") \/ Take("absorbLast", "swap") \/ NothingNew("last", "swap")
    \/ Absorb("drain", "absorbMore") \/ Take("absorbMore", "wait") \/ NothingNew("drain", "wait")
    \/ Swap \/ Shut \/ End

(***************************************************************************)
(* The parser thread.                                                      *)
(***************************************************************************)
GuiOnly == UNCHANGED <<req, consumed, order, stop, pageVars>>

\* The loop around futex_wait, and futex_wait, which compares again.
Test ==
    /\ parser.pc = "test"
    /\ parser' = [parser EXCEPT !.pc = IF stop THEN "gone" ELSE IF req = parser.last THEN "sleep" ELSE "snap"]
    /\ UNCHANGED <<gui, done, result>> /\ GuiOnly

ParserSleep ==
    /\ parser.pc = "sleep"
    /\ parser' = [parser EXCEPT !.pc = IF req = parser.last THEN "asleep" ELSE "test"]
    /\ UNCHANGED <<gui, done, result>> /\ GuiOnly

Snap ==
    /\ parser.pc = "snap"
    /\ parser' = [parser EXCEPT !.pc = "layout", !.last = req, !.page = order.page, !.width = order.width]
    /\ UNCHANGED <<gui, done, result>> /\ GuiOnly

\* layout_build_and_run of the page's DOM, which may fail.
Layout ==
    /\ parser.pc = "layout"
    /\ \E ok \in BOOLEAN : parser' = [parser EXCEPT !.pc = "publish", !.ok = ok, !.dom = dom]
    /\ UNCHANGED <<gui, done, result>> /\ GuiOnly

\* A result the GUI has not taken is freed.
Publish ==
    /\ parser.pc = "publish" /\ done' = parser.last
    /\ result' = IF parser.ok THEN [page |-> parser.page, width |-> parser.width, dom |-> parser.dom]
                 ELSE NoResult
    /\ parser' = [parser EXCEPT !.pc = "wake", !.page = NoPage, !.width = 0, !.dom = 0]
    /\ UNCHANGED gui /\ GuiOnly

WakeGui ==
    /\ parser.pc = "wake"
    /\ parser' = [parser EXCEPT !.pc = "test"]
    /\ gui' = IF gui.pc = "asleep" THEN [gui EXCEPT !.pc = "drain"] ELSE gui
    /\ UNCHANGED <<done, result>> /\ GuiOnly

ParserStep == Test \/ ParserSleep \/ Snap \/ Layout \/ Publish \/ WakeGui

BrowserNext == GuiStep \/ ParserStep

BrowserSpec == BrowserInit /\ [][BrowserNext]_browserVars

(***************************************************************************)
(* Properties.                                                             *)
(***************************************************************************)
\* browser.c: "The GUI thread's contract: parser_wait_idle() before any free_page()": the page
\* the parser lays out, and the one its result is for, are the current one and not freed.
ParserOwnsPage ==
    /\ parser.pc \in {"layout", "publish"} => parser.page = page /\ page \in live
    /\ result # NoResult => result.page = page /\ page \in live

\* Coalescing loses no resize: when no request is outstanding and no result is left to take, the
\* page is laid out for the last width and the DOM as it is, unless the layout failed or a
\* click changed the page under the parser.
LayoutIsLatest ==
    gui.pc = "loop" /\ req = done /\ done = consumed /\ parser.ok /\ ~crossed =>
        shown = [width |-> width, dom |-> dom]

\* Neither thread sleeps while it is the other's turn: the wake is on its way, or the other
\* one still has to publish.
NobodySleepsOn ==
    /\ gui.pc = "asleep" => parser.pc = "wake" \/ (req # done /\ parser.pc \notin {"asleep", "gone"})
    /\ parser.pc = "asleep" => req = parser.last /\ ~stop

\* Through back, forward, reload and navigation, and with the oldest entries dropped, the entry
\* the history points at is the page on the screen.
HistoryIsHere ==
    gui.pc # "gone" => at \in 1 .. Len(hist) /\ Len(hist) <= HistCap /\ hist[at] = url

BrowserSound == ParserOwnsPage /\ LayoutIsLatest /\ NobodySleepsOn /\ HistoryIsHere
=============================================================================
