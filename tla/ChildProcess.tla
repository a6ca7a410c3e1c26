---------------------------- MODULE ChildProcess ----------------------------
(***************************************************************************)
(* A child of the node process, as official-cli-adapter.ts and             *)
(* verification-runner.ts know it: they start it, may send it a signal,    *)
(* and hear of its end by the event "close".  That event comes when the    *)
(* child has exited and nothing it started holds its output any more.      *)
(* The operating system and node are not under src/.                       *)
(***************************************************************************)

CONSTANT Deaf   \* {FALSE}, or BOOLEAN: whether a child may ignore SIGTERM

ASSUME DeafAssumption == Deaf \subseteq BOOLEAN

VARIABLES child,   \* the latest child
          signal   \* the AbortSignal of the run is aborted

Codes == {"zero", "nonzero", "null"}   \* null: ended by a signal

Child == [state   : {"none", "alive", "exited", "closed"},
          code    : Codes,
          deaf    : BOOLEAN,
          helpers : BOOLEAN,   \* processes it left behind hold its output
          sent    : {"none", "SIGTERM", "SIGKILL"}]

NoChild == [state |-> "none", code |-> "null", deaf |-> FALSE,
            helpers |-> FALSE, sent |-> "none"]

NewChildren == {[NoChild EXCEPT !.state = "alive", !.deaf = d] : d \in Deaf}

ChildTypeOK == child \in Child /\ signal \in BOOLEAN

\* kill(): nothing happens to a child that is over.
Signalled(c, s) == IF c.state = "alive" THEN [c EXCEPT !.sent = s] ELSE c

Closed(c) == [c EXCEPT !.state = "closed"]

\* The event "close" is about to be delivered.
CloseReady == child.state = "exited" /\ ~child.helpers

ExitWith(code) ==
  /\ child.state = "alive"
  /\ \E h \in BOOLEAN :
       child' = [child EXCEPT !.state = "exited", !.code = code, !.helpers = h]

\* The child ends by itself, also after a signal it handles, or crashes; or what it
\* was sent ends it.
Exit == \E code \in Codes : ExitWith(code)
Die  == /\ \/ child.sent = "SIGKILL"
           \/ child.sent = "SIGTERM" /\ ~child.deaf
        /\ ExitWith("null")

HelpersEnd ==
  /\ child.state = "exited" /\ child.helpers
  /\ child' = [child EXCEPT !.helpers = FALSE]
=============================================================================
