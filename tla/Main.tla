-------------------------------- MODULE Main --------------------------------
(***************************************************************************)
(* The buff binary: one run of it, which copies (module Copy), pastes      *)
(* (Paste), serves (Serve) or asks the server one question (-l, -s, -d),   *)
(* with signals arriving at any moment of it (Command).                    *)
(***************************************************************************)
EXTENDS Copy, Paste, Serve

vars == <<commandVars, copyVars, pasteVars, serverVars>>

TypeOK == CommandTypeOK /\ CopyTypeOK /\ PasteTypeOK /\ ServeTypeOK

Init ==
  /\ CommandInit({"copy", "paste", "serve", "ask"})
  /\ CopyInit /\ PasteInit /\ ServeInit

\* dispatch to list, stat or delete: one round trip and its output.
Ask ==
  /\ act = "ask" /\ ~Over
  /\ \E err \in {"none", "notfound", "consumed", "unreachable", "unavailable", "fault"} :
       Returns(err)
  /\ UNCHANGED <<act, signals>>

Next ==
  \/ CopyNext /\ UNCHANGED <<pasteVars, serverVars>>
  \/ PasteNext /\ UNCHANGED <<copyVars, serverVars>>
  \/ ServeNext /\ UNCHANGED <<copyVars, pasteVars>>
  \/ (Ask \/ Interrupt) /\ UNCHANGED <<copyVars, pasteVars, serverVars>>

\* Goroutines run, and the server commits a body that ended.  Nothing is
\* assumed of standard input, of the writer a paste waits for, of a signal or
\* of the time a transfer takes; the drain's window passes.  A mutex does not
\* starve a waiter (sync.Mutex hands itself over) and a select does not prefer
\* the tick for ever: both are strong fairness, of the one reaper.
Fairness ==
  /\ WF_vars(Archiver /\ UNCHANGED <<pasteVars, serverVars>>)
  /\ WF_vars(LoopRuns /\ UNCHANGED <<pasteVars, serverVars>>)
  /\ WF_vars(Flow /\ UNCHANGED <<pasteVars, serverVars>>)
  /\ WF_vars(ServerStores /\ UNCHANGED <<pasteVars, serverVars>>)
  /\ WF_vars(PasteRuns /\ UNCHANGED <<copyVars, serverVars>>)
  /\ WF_vars(Runtime /\ UNCHANGED <<copyVars, pasteVars>>)
  /\ SF_vars(Work("reaper") /\ UNCHANGED <<copyVars, pasteVars>>)
  /\ SF_vars(ReaperReturns /\ UNCHANGED <<copyVars, pasteVars>>)
  /\ \A h \in Handlers :
       WF_vars((Work(h) \/ Unwind(h)) /\ UNCHANGED <<copyVars, pasteVars>>)
  /\ WF_vars(Ask /\ UNCHANGED <<copyVars, pasteVars, serverVars>>)

Spec == Init /\ [][Next]_vars /\ Fairness

-----------------------------------------------------------------------------
(* Properties *)

\* Every run ends, whatever fails and whenever it is canceled, unless it waits
\* for somebody else for ever: a copy for standard input (net/http joins its
\* write loop, so the first signal does not cut that read), a paste --wait for
\* a value, a server for its stop.  No goroutine of a failed copy stays stuck
\* on the pipe, no handler and no sweep on a lock, and a server whose Serve
\* faulted does not hang in g.Wait.
CommandEnds == <>[](Over \/ AwaitsInput \/ AwaitsClip \/ AwaitsStop)
=============================================================================
