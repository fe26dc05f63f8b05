----------------------------- MODULE BrowserTab -----------------------------
(***************************************************************************)
(* One tab of the web client (apps/web/src).  A page of the client is a     *)
(* React component: the modules that extend this one model one page, or a   *)
(* few panels of one page, each.  The tab shows one of them; every step is a *)
(* handler of the page up to its first await, what follows an await when an  *)
(* answer arrives, an effect, or something the server does meanwhile.        *)
(*                                                                         *)
(* React runs a handler to its next await without a pause, and it renders    *)
(* and runs the effects before the next event: that is why a handler and the *)
(* effects that its state changes trigger are one step.                     *)
(***************************************************************************)
EXTENDS Integers, FiniteSets, Sequences

VARIABLES
  screen,   \* what the mounted page keeps: its state, refs and mutable closures
  calls,    \* its requests that are under way, and what their closures captured
  server    \* what the server holds of the things the page shows

tabVars == <<screen, calls, server>>

Mounted(page) == screen.page = page

\* The call is over: its promise was settled and its continuation has run.
Ended(c) == calls' = calls \ {c}

\* The call moves on to another stage of its life.
Advances(c, stage) == calls' = (calls \ {c}) \cup {[c EXCEPT !.stage = stage]}
=============================================================================
