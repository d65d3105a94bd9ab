------------------------------- MODULE Console -------------------------------
(***************************************************************************)
(* The browser console: the router, the session gate and the search palette *)
(* of src/public/js/app.js, with the layers and the failing requests of     *)
(* core.js and the gate of gate.js.  A route loads the view's module, lets  *)
(* the old view leave, and renders; each is an await during which another   *)
(* route may start.  All views draw into the same element.                  *)
(***************************************************************************)
EXTENDS Requests, Functions

CONSTANTS
  Views,        \* the routes
  Cleaning,     \* views whose render returns a clean-up
  MaxRoutes,    \* bound: calls of route
  MaxQueries    \* bound: what is typed into the palette

ASSUME ConsoleAssumption == Cleaning \subseteq Views /\ None \notin Views

VARIABLES
  hash,        \* the view the address names
  events,      \* hashchange events not handled yet
  current,     \* `current` of app.js: [name, cleanup, token]
  nav,         \* the view the navigation marks
  painted,     \* what the element shows: [by, name], by being the token of a route
  routes,      \* the calls of route under way: token -> [pc, name, same]
  gate,        \* "closed", or "open" while reauth is set and the person has to sign in
  palette,     \* the open palette: [input, due, seq, asked, shown, failed], or None
  live,        \* history: tokens of renders whose clean-up is to be run
  overlapped,  \* history: a view was entered while another was rendering
  stuck        \* history: tokens of routes whose module could not be loaded

consoleVars == <<hash, events, current, nav, painted, routes, gate, palette, live, overlapped, stuck>>

\* route() from its start to its first await; it closes any layer, so the palette.
Route(force) ==
  LET t == current.token + 1 IN
  /\ t =< MaxRoutes
  /\ current' = [current EXCEPT !.token = t]
  /\ routes' = Patched(routes, [x \in {t} |-> [pc |-> "load", name |-> hash, same |-> current.name = hash /\ ~force]])
  /\ nav' = hash
  /\ palette' = None

Without(t) == Restrict(routes, DOMAIN routes \ {t})

\* The address changes, by a link or by navigate(); navigate() to the same address routes at once.
SetHash ==
  /\ events < 2
  /\ \E v \in Views \ {hash} : hash' = v
  /\ events' = events + 1
  /\ UNCHANGED <<current, nav, painted, routes, gate, palette, live, overlapped, stuck>>

HashChanged ==
  /\ events > 0 /\ events' = events - 1
  /\ Route(FALSE)
  /\ UNCHANGED <<hash, painted, gate, live, overlapped, stuck>>

\* navigate() to where one is, or the retry button of an error.
RouteAgain ==
  /\ gate = "closed" /\ Route(TRUE)
  /\ UNCHANGED <<hash, events, painted, gate, live, overlapped, stuck>>

\* The old view is cleaned up and render() draws its frame, up to its first request.
Enter(t) ==
  /\ live' = live \ {current.cleanup}
  /\ current' = [current EXCEPT !.cleanup = None, !.name = routes[t].name]
  /\ painted' = [by |-> t, name |-> routes[t].name]
  /\ routes' = [routes EXCEPT ![t].pc = "render"]
  /\ overlapped' = (overlapped \/ \E u \in DOMAIN routes : routes[u].pc = "render")

\* After an await, a route that is not the newest any more ends.
Superseded(t) ==
  /\ t # current.token
  /\ routes' = Without(t)
  /\ UNCHANGED <<current, painted, live, overlapped, stuck>>

\* The module is there, or cannot be loaded.
Loaded(t) ==
  /\ routes[t].pc = "load"
  /\ \/ Superseded(t)
     \/ /\ t = current.token
        /\ \/ /\ ~routes[t].same /\ current.name # None
              /\ routes' = [routes EXCEPT ![t].pc = "leave"]
              /\ UNCHANGED <<current, painted, live, overlapped, stuck>>
           \/ (routes[t].same \/ current.name = None) /\ Enter(t) /\ UNCHANGED stuck
     \/ /\ routes' = Without(t) /\ stuck' = stuck \cup {t}
        /\ UNCHANGED <<current, painted, live, overlapped>>
  /\ UNCHANGED <<hash, events, nav, gate, palette>>

\* Seeded fault: only the load is checked for a newer route.
Left_Unchecked(t) ==
  /\ routes[t].pc = "leave" /\ Enter(t)
  /\ UNCHANGED <<hash, events, nav, gate, palette, stuck>>

\* The old view has faded.
Left(t) ==
  /\ routes[t].pc = "leave"
  /\ \/ Superseded(t)
     \/ t = current.token /\ Enter(t) /\ UNCHANGED stuck
  /\ UNCHANGED <<hash, events, nav, gate, palette>>

\* render() returns, in whatever view is there now: its clean-up becomes the current one.
Rendered(t) ==
  LET c == IF routes[t].name \in Cleaning THEN t ELSE None IN
  /\ routes[t].pc = "render"
  /\ current' = [current EXCEPT !.cleanup = c]
  /\ live' = live \cup ({c} \ {None})
  /\ routes' = Without(t)
  /\ UNCHANGED <<hash, events, nav, painted, gate, palette, overlapped, stuck>>

\* render() throws, as a request failed or as its frame is gone: the error is painted over what is there.
Failed(t) ==
  /\ routes[t].pc = "render"
  /\ painted' = [by |-> t, name |-> routes[t].name]
  /\ routes' = Without(t)
  /\ UNCHANGED <<hash, events, current, nav, gate, palette, live, overlapped, stuck>>

\* Any request refused for want of a session opens the gate, once, and closes the layer.
SessionEnds ==
  /\ gate = "closed" /\ gate' = "open"
  /\ palette' = None
  /\ UNCHANGED <<hash, events, current, nav, painted, routes, live, overlapped, stuck>>

\* Signed in again, the view is painted anew.
SignIn ==
  /\ gate = "open" /\ gate' = "closed"
  /\ Route(TRUE)
  /\ UNCHANGED <<hash, events, painted, live, overlapped, stuck>>

-----------------------------------------------------------------------------
(* The palette. *)

PaletteOnly == UNCHANGED <<hash, events, current, nav, painted, routes, gate, live, overlapped, stuck>>

OpenPalette ==
  /\ palette = None /\ gate = "closed"
  /\ palette' = [input |-> 0, due |-> FALSE, seq |-> 1, asked |-> <<>>, shown |-> 0, failed |-> FALSE]
  /\ PaletteOnly

ClosePalette ==
  /\ palette # None /\ palette' = None
  /\ PaletteOnly

Type ==
  /\ palette # None /\ palette.input < MaxQueries
  /\ palette' = [palette EXCEPT !.input = @ + 1, !.due = TRUE]
  /\ PaletteOnly

\* search(): a short query is answered on the spot, another by the server.
SearchPalette ==
  LET mine == palette.seq + 1 IN
  /\ palette # None /\ palette.due
  /\ \/ palette' = [palette EXCEPT !.due = FALSE, !.seq = mine, !.failed = FALSE, !.shown = palette.input]
     \/ palette' = [palette EXCEPT !.due = FALSE, !.seq = mine, !.failed = FALSE,
                                    !.asked = Patched(@, [x \in {mine} |-> palette.input])]
  /\ PaletteOnly

\* An answer is shown if no search has begun since; a failed one leaves what is shown.
Found ==
  /\ palette # None
  /\ \E mine \in DOMAIN palette.asked :
       \/ palette' = [palette EXCEPT !.asked = Restrict(@, DOMAIN @ \ {mine}),
                                     !.shown = IF mine = palette.seq THEN palette.asked[mine] ELSE @]
       \/ palette' = [palette EXCEPT !.asked = Restrict(@, DOMAIN @ \ {mine}), !.failed = @ \/ mine = palette.seq]
  /\ PaletteOnly

ConsoleInit ==
  /\ hash \in Views
  /\ events = 0
  /\ current = [name |-> None, cleanup |-> None, token |-> 1]   \* boot() routes
  /\ routes = [t \in {1} |-> [pc |-> "load", name |-> hash, same |-> FALSE]]
  /\ nav = hash
  /\ painted = [by |-> 0, name |-> None]
  /\ gate = "closed" /\ palette = None
  /\ live = {} /\ overlapped = FALSE /\ stuck = {}

ConsoleNext ==
  \/ SetHash \/ HashChanged \/ RouteAgain \/ SessionEnds \/ SignIn
  \/ \E t \in DOMAIN routes : Loaded(t) \/ Left(t) \/ Rendered(t) \/ Failed(t)
  \/ OpenPalette \/ ClosePalette \/ Type \/ SearchPalette \/ Found

ConsoleSpec == ConsoleInit /\ [][ConsoleNext]_consoleVars

-----------------------------------------------------------------------------
\* When no route is under way, the console shows the view the address names: the navigation, what is
\* painted and the clean-up that will run are that view's, however many routes superseded each other while
\* they loaded or left, and no clean-up of another view is lost (app.js, route).  Excepted are a view
\* entered while another was still rendering, and a module that could not be loaded.  The palette shows
\* what was typed last (search), unless that search failed.
LatestWins ==
  /\ (DOMAIN routes = {} /\ events = 0 /\ ~overlapped /\ current.token \notin stuck) =>
       /\ nav = hash /\ current.name = hash /\ painted.name = hash
       /\ painted.by = current.token
       /\ live \subseteq {current.cleanup}
  /\ palette # None /\ ~palette.due /\ DOMAIN palette.asked = {} /\ ~palette.failed =>
       palette.shown = palette.input
=============================================================================
