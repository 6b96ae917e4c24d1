-------------------------------- MODULE Relay --------------------------------
(***************************************************************************)
(* The HTTP edge, end to end, for one generation: a client's Put, the put  *)
(* handler with its cancel watcher and idle deadline, the get handlers and *)
(* the framing that proves completion, the clients' completion check, and  *)
(* the server's graceful stop.                                             *)
(*                                                                         *)
(* The store below is reduced to the one generation's fate and size        *)
(* (modules Slot and Buffer have the rest); net/http, the network and an   *)
(* intermediary are modelled by what the code relies on.  Bytes are        *)
(* counted.  A parked rendezvous GET is module Slot's.                     *)
(***************************************************************************)
EXTENDS Naturals

CONSTANTS
  Readers,        \* GET requests, one connection each
  MaxBytes,       \* bound: the size of the source
  Window,         \* bytes the transport takes before a reader must drain it
  Intermediary,   \* whether something between may end a body cleanly but short
  Panics          \* whether a handler may hit an unexpected panic

ASSUME RelayAssumption ==
  /\ MaxBytes \in Nat /\ Window \in Nat \ {0}
  /\ Intermediary \in BOOLEAN /\ Panics \in BOOLEAN

VARIABLES
  (* the uploading client *)
  len, sent, src,   \* source size, bytes sent, "more" / "ended" / "faulted"
  up,               \* the upload connection: "open" or "broken"
  pres,             \* what Put returned
  (* the put handler *)
  ppc, answer,      \* program point; the reply
  dl, timed,        \* the connection's read deadline; whether arm has set one
  watch, disarmed,  \* the cancel watcher: "off", "on", "retired"; its guard
  (* the generation *)
  gen, taken,       \* "none", "live", "finalized", "aborted"; bytes published
  (* the get handlers and their clients *)
  gpc, frame, declared, reply,
  off, fin, trailer,   \* bytes written; how the response ended; the trailer
  link, got, cres,     \* connection; bytes delivered; what the client concluded
  (* the server runtime *)
  stop                 \* "running", "stopping", "forced", "drained"

clientVars == <<len, sent, src, pres>>
putVars  == <<ppc, answer, timed>>
watchVars == <<watch, disarmed>>
genVars  == <<gen, taken>>
getVars  == <<gpc, frame, declared, reply, off, fin, trailer>>
readVars == <<got, cres>>
vars == <<clientVars, up, putVars, dl, watchVars, genVars, getVars, link,
          readVars, stop>>

PutPoints == {"idle", "arm", "reading", "closing", "unwind", "abort",
              "returned", "done", "reused"}
Answers == {"none", "200", "400", "500", "503", "store", "panic"}

TypeOK ==
  /\ len \in 0..MaxBytes /\ sent \in 0..len /\ taken \in 0..sent
  /\ src \in {"more", "ended", "faulted"}
  /\ up \in {"open", "broken"}
  /\ pres \in (Answers \ {"panic"}) \cup {"source", "unreachable"}
  /\ ppc \in PutPoints /\ answer \in Answers
  /\ dl \in {"none", "future", "expired", "poked"}
  /\ timed \in BOOLEAN /\ disarmed \in BOOLEAN
  /\ watch \in {"off", "on", "retired"}
  /\ gen \in {"none", "live", "finalized", "aborted"}
  /\ gpc \in [Readers -> {"idle", "opened", "copying", "ended"}]
  /\ frame \in [Readers -> {"none", "length", "chunked"}]
  /\ declared \in [Readers -> 0..MaxBytes]
  /\ reply \in [Readers -> {"none", "404", "500", "503"}]
  /\ off \in [Readers -> 0..MaxBytes] /\ got \in [Readers -> 0..MaxBytes]
  /\ fin \in [Readers -> {"open", "clean", "reset"}]
  /\ trailer \in [Readers -> BOOLEAN]
  /\ link \in [Readers -> {"up", "down"}]
  /\ cres \in [Readers -> {"none", "ok", "torn", "404", "500", "503", "unreachable"}]
  /\ stop \in {"running", "stopping", "forced", "drained"}

Init ==
  /\ len \in 0..MaxBytes /\ sent = 0 /\ src = "more" /\ pres = "none"
  /\ up = "open"
  /\ ppc = "idle" /\ answer = "none" /\ timed = FALSE
  /\ dl = "none" /\ watch = "off" /\ disarmed = FALSE
  /\ gen = "none" /\ taken = 0
  /\ gpc = [r \in Readers |-> "idle"]
  /\ frame = [r \in Readers |-> "none"]
  /\ declared = [r \in Readers |-> 0]
  /\ reply = [r \in Readers |-> "none"]
  /\ off = [r \in Readers |-> 0] /\ got = [r \in Readers |-> 0]
  /\ fin = [r \in Readers |-> "open"]
  /\ trailer = [r \in Readers |-> FALSE]
  /\ link = [r \in Readers |-> "up"]
  /\ cres = [r \in Readers |-> "none"]
  /\ stop = "running"

-----------------------------------------------------------------------------
(* The put handler (handlers.go, deadline.go) *)

\* The body ends: the whole of it arrived, as net/http delimits it.
bodyEndedOrCut == taken = sent /\ (src = "ended" \/ up = "broken")
bodyEnded == taken = sent /\ src = "ended"

\* The request context is canceled by the stop; by net/http when a read of the
\* connection fails, the handler's or the one it starts in the background once
\* the body has ended; and by net/http once the handler has returned.
canceled ==
  \/ stop # "running" \/ ppc \in {"done", "reused"}
  \/ answer \in {"400", "503"}
  \/ up = "broken" /\ bodyEnded /\ ppc \notin {"idle", "arm", "reading"}

\* The cause of a cancellation is written once, so what counts is whether the
\* stop had begun when the read failed.
stoppingCutNever == FALSE
stoppingCut == stop # "running"

Goto(l) == ppc' = l

\* Parse and Create: refused with nothing to undo, or a live generation, the
\* deferred abort and the cancel watcher.
PutStart ==
  /\ ppc = "idle"
  /\ stop \in {"running", "stopping"} /\ up = "open"
  /\ \/ /\ Goto("returned") /\ answer' = "store"
        /\ UNCHANGED <<watch, gen>>
     \/ /\ Goto("arm") /\ watch' = "on" /\ gen' = "live"
        /\ UNCHANGED answer
  /\ UNCHANGED <<clientVars, up, timed, dl, disarmed, taken, getVars, link,
                 readVars, stop>>

\* idleResetReader.arm: the first read always sets the deadline, a later one
\* only once half the window has passed.  It may overwrite a poke.
deadlinesNever == {dl}
deadlines == IF timed THEN {dl, "future"} ELSE {"future"}

PutArm ==
  /\ ppc = "arm"
  /\ Goto("reading")
  /\ dl' \in deadlines
  /\ timed' = TRUE
  /\ UNCHANGED <<clientVars, up, answer, watchVars, genVars, getVars, link,
                 readVars, stop>>

\* The client stalls for the idle window, or the upload reaches its maximum.
IdleExpire ==
  /\ ppc = "reading"
  /\ dl = "future"
  /\ dl' = "expired"
  /\ UNCHANGED <<clientVars, up, putVars, watchVars, genVars, getVars, link,
                 readVars, stop>>

\* One turn of the copy: read some bytes and store them.
PutCopy ==
  /\ ppc = "reading"
  /\ \E k \in 1..(sent - taken) : taken' = taken + k
  /\ Goto("arm")
  /\ UNCHANGED <<clientVars, up, answer, timed, dl, watchVars, gen, getVars,
                 link, readVars, stop>>

\* The store refuses the chunk (a cap, a backing fault): the writer's fault.
PutRefused ==
  /\ ppc = "reading"
  /\ sent > taken
  /\ Goto("unwind")
  /\ answer' = "store"
  /\ UNCHANGED <<clientVars, up, timed, dl, watchVars, genVars, getVars, link,
                 readVars, stop>>

PutEnd ==
  /\ ppc = "reading"
  /\ bodyEnded
  /\ Goto("closing")
  /\ UNCHANGED <<clientVars, up, answer, timed, dl, watchVars, genVars, getVars,
                 link, readVars, stop>>

\* The read fails; classifyPut decides whom to blame.
PutCut ==
  /\ ppc = "reading"
  /\ dl \in {"expired", "poked"} \/ (up = "broken" /\ ~bodyEnded)
  /\ Goto("unwind")
  /\ answer' = IF stoppingCut THEN "503" ELSE "400"
  /\ UNCHANGED <<clientVars, up, timed, dl, watchVars, genVars, getVars, link,
                 readVars, stop>>

PutPanic ==
  /\ Panics
  /\ ppc = "reading"
  /\ Goto("unwind")
  /\ answer' = "panic"
  /\ UNCHANGED <<clientVars, up, timed, dl, watchVars, genVars, getVars, link,
                 readVars, stop>>

\* The finalize commits and is acknowledged, or fails and has discarded.
PutClose ==
  /\ ppc = "closing"
  /\ \/ gen' = "finalized" /\ answer' = "200"
     \/ gen' = "aborted" /\ answer' = "500"
  /\ Goto("unwind")
  /\ UNCHANGED <<clientVars, up, timed, dl, watchVars, taken, getVars, link,
                 readVars, stop>>

\* The deferred calls, last registered first: stop the watcher, then abort
\* what was not committed.
PutDisarm ==
  /\ ppc = "unwind"
  /\ Goto("abort")
  /\ disarmed' = TRUE
  /\ UNCHANGED <<clientVars, up, answer, timed, dl, watch, genVars, getVars,
                 link, readVars, stop>>

leftBehind == IF answer = "panic" THEN gen ELSE IF gen = "live" THEN "aborted" ELSE gen
settledAs == IF gen = "live" THEN "aborted" ELSE gen

PutAbort ==
  /\ ppc = "abort"
  /\ Goto("returned")
  /\ gen' = settledAs
  /\ UNCHANGED <<clientVars, up, answer, timed, dl, watchVars, taken, getVars,
                 link, readVars, stop>>

\* recoverer turns a panic that wrote nothing into a 500; then net/http sends
\* the reply and cancels the request context.
PutReturn ==
  /\ ppc = "returned"
  /\ Goto("done")
  /\ answer' = IF answer = "panic" THEN "500" ELSE answer
  /\ UNCHANGED <<clientVars, up, timed, dl, watchVars, genVars, getVars, link,
                 readVars, stop>>

\* net/http keeps the connection for the next request: it sets its own read
\* deadline first.
NextRequest ==
  /\ ppc = "done"
  /\ up = "open" /\ bodyEnded /\ stop = "running"
  /\ Goto("reused")
  /\ dl' = "none"
  /\ UNCHANGED <<clientVars, up, answer, timed, watchVars, genVars, getVars,
                 link, readVars, stop>>

\* abortOnCancel's goroutine: cancelGuard.fire sets a deadline in the past
\* unless the handler disarmed it; it ends after that, or when stopped.
pokeAnyway == "poked"
poke == IF disarmed THEN dl ELSE "poked"

WatchFire ==
  /\ watch = "on"
  /\ canceled
  /\ watch' = "retired"
  /\ dl' = poke
  /\ UNCHANGED <<clientVars, up, putVars, disarmed, genVars, getVars, link,
                 readVars, stop>>

WatchStop ==
  /\ watch = "on"
  /\ disarmed
  /\ watch' = "retired"
  /\ UNCHANGED <<clientVars, up, putVars, dl, disarmed, genVars, getVars, link,
                 readVars, stop>>

-----------------------------------------------------------------------------
(* The uploading client (client/put.go) *)

Send ==
  /\ src = "more" /\ up = "open" /\ ppc # "done"
  /\ \/ sent < len /\ sent' = sent + 1 /\ UNCHANGED src
     \/ sent = len /\ src' = "ended" /\ UNCHANGED sent
  /\ UNCHANGED <<len, pres, up, putVars, dl, watchVars, genVars, getVars, link,
                 readVars, stop>>

\* The source faults: the transport gives the request up.
SourceFaults ==
  /\ src = "more" /\ up = "open"
  /\ src' = "faulted"
  /\ up' = "broken"
  /\ UNCHANGED <<len, sent, pres, putVars, dl, watchVars, genVars, getVars,
                 link, readVars, stop>>

UploadBreaks ==
  /\ up = "open"
  /\ up' = "broken"
  /\ UNCHANGED <<clientVars, putVars, dl, watchVars, genVars, getVars, link,
                 readVars, stop>>

\* A reply is authoritative; an early one may lose to the failed body write.
PutResult ==
  /\ pres = "none"
  /\ \/ up = "open" /\ ppc \in {"done", "reused"} /\ pres' = answer
     \/ up = "open" /\ ppc = "done" /\ src = "more" /\ pres' = "unreachable"
     \/ up = "broken" /\ src = "faulted" /\ pres' = "source"
     \/ up = "broken" /\ src # "faulted" /\ pres' = "unreachable"
  /\ UNCHANGED <<len, sent, src, up, putVars, dl, watchVars, genVars, getVars,
                 link, readVars, stop>>

-----------------------------------------------------------------------------
(* The get handler (handlers.go, framing.go, recover.go) *)

\* What a follower's context says: the stop, or a client that went away.
cut(r) == stop # "running" \/ link[r] = "down"

End(r, how) ==
  /\ gpc' = [gpc EXCEPT ![r] = "ended"]
  /\ fin' = [fin EXCEPT ![r] = how]

\* Open: declined with a 503 or a reset, not found, or resolved; the framing
\* is fixed by whether the generation is finalized now.
GetOpen(r) ==
  /\ gpc[r] = "idle"
  /\ stop \in {"running", "stopping"}
  /\ IF cut(r)
       THEN /\ IF stoppingCut
               THEN End(r, "clean") /\ reply' = [reply EXCEPT ![r] = "503"]
               ELSE End(r, "reset") /\ UNCHANGED reply
            /\ UNCHANGED <<frame, declared>>
     ELSE IF gen \in {"none", "aborted"}
       THEN /\ End(r, "clean")
            /\ reply' = [reply EXCEPT ![r] = "404"]
            /\ UNCHANGED <<frame, declared>>
     ELSE /\ gpc' = [gpc EXCEPT ![r] = "opened"]
          /\ frame' = [frame EXCEPT ![r] = IF gen = "live" THEN "chunked" ELSE "length"]
          /\ declared' = [declared EXCEPT ![r] = IF gen = "live" THEN 0 ELSE taken]
          /\ UNCHANGED <<reply, fin>>
  /\ UNCHANGED <<clientVars, up, putVars, dl, watchVars, genVars, off, trailer,
                 link, readVars, stop>>

\* The header goes out; a live response is flushed at once.
GetHeaders(r) ==
  /\ gpc[r] = "opened"
  /\ IF frame[r] = "chunked" /\ link[r] = "down"
       THEN End(r, "reset")
       ELSE gpc' = [gpc EXCEPT ![r] = "copying"] /\ UNCHANGED fin
  /\ UNCHANGED <<clientVars, up, putVars, dl, watchVars, genVars, frame,
                 declared, reply, off, trailer, link, readVars, stop>>

\* What the reader has for this response: the live log as published, or the
\* fixed section, which watches no context.
available(r) == IF frame[r] = "chunked" THEN taken ELSE declared[r]
wanted(r) == frame[r] = "length" \/ ~cut(r)

GetCopy(r) ==
  /\ gpc[r] = "copying"
  /\ wanted(r) /\ link[r] = "up"
  /\ \E k \in 1..(available(r) - off[r]) :
       /\ off[r] + k - got[r] <= Window
       /\ off' = [off EXCEPT ![r] = @ + k]
  /\ UNCHANGED <<clientVars, up, putVars, dl, watchVars, genVars, gpc, frame,
                 declared, reply, fin, trailer, link, readVars, stop>>

\* The write fails: the client is gone, or stalled for the idle window.
stalledNever(r) == FALSE
stalled(r) == off[r] < available(r) /\ off[r] - got[r] >= Window

GetWriteFails(r) ==
  /\ gpc[r] = "copying"
  /\ stalled(r) \/ (link[r] = "down" /\ off[r] < available(r))
  /\ End(r, "reset")
  /\ UNCHANGED <<clientVars, up, putVars, dl, watchVars, genVars, frame,
                 declared, reply, off, trailer, link, readVars, stop>>

\* The follower ends torn: the upload was aborted, or its context is done.
GetTorn(r) ==
  /\ gpc[r] = "copying"
  /\ frame[r] = "chunked"
  /\ cut(r) \/ (gen = "aborted" /\ off[r] = taken)
  /\ End(r, "reset")
  /\ UNCHANGED <<clientVars, up, putVars, dl, watchVars, genVars, frame,
                 declared, reply, off, trailer, link, readVars, stop>>

\* The reader's clean EOF, the one success: a live response gets its trailer.
sealed(r) == frame[r] = "chunked" /\ off[r] = taken /\ gen = "finalized" /\ ~cut(r)

GetEnd(r) ==
  /\ gpc[r] = "copying"
  /\ sealed(r) \/ (frame[r] = "length" /\ off[r] = declared[r])
  /\ End(r, "clean")
  /\ trailer' = [trailer EXCEPT ![r] = frame[r] = "chunked"]
  /\ UNCHANGED <<clientVars, up, putVars, dl, watchVars, genVars, frame,
                 declared, reply, off, link, readVars, stop>>

\* recoverer: a 500 if nothing was written, else the reset.
GetPanic(r) ==
  /\ Panics
  /\ \/ gpc[r] = "opened" /\ End(r, "clean") /\ reply' = [reply EXCEPT ![r] = "500"]
     \/ gpc[r] = "copying" /\ End(r, "reset") /\ UNCHANGED reply
  /\ UNCHANGED <<clientVars, up, putVars, dl, watchVars, genVars, frame,
                 declared, off, trailer, link, readVars, stop>>

-----------------------------------------------------------------------------
(* The reading client (client/get.go) *)

Receive(r) ==
  /\ got[r] < off[r]
  /\ cres[r] = "none"
  /\ got' = [got EXCEPT ![r] = @ + 1]
  /\ UNCHANGED <<clientVars, up, putVars, dl, watchVars, genVars, getVars, link,
                 cres, stop>>

LinkBreaks(r) ==
  /\ link[r] = "up"
  /\ link' = [link EXCEPT ![r] = "down"]
  /\ UNCHANGED <<clientVars, up, putVars, dl, watchVars, genVars, getVars,
                 readVars, stop>>

\* body.complete, at a clean end of the body: the declared length, or the
\* trailer as it was received.
completeAtEOF(r, t) == TRUE
complete(r, t) == IF frame[r] = "length" THEN got[r] = declared[r] ELSE t

Concluded(r, t) == IF complete(r, t) THEN "ok" ELSE "torn"
whole(r) == fin[r] = "clean" /\ link[r] = "up" /\ got[r] = off[r]
broken(r) == fin[r] = "reset" \/ link[r] = "down"

\* The declared length has arrived: what becomes of the connection after that
\* is no concern of this body.
satisfied(r) == frame[r] = "length" /\ got[r] = declared[r] /\ got[r] > 0

\* What a failed read means: torn once the header has come, else unreachable.
failures(r) ==
  (IF gpc[r] = "opened" \/ frame[r] = "none" THEN {} ELSE {"torn"})
    \cup (IF got[r] = 0 THEN {"unreachable"} ELSE {})

\* An intermediary may drop a trailer, or end a broken body as if it were over.
ReadResult(r) ==
  /\ cres[r] = "none"
  /\ \/ /\ reply[r] # "none" /\ whole(r)
        /\ cres' = [cres EXCEPT ![r] = reply[r]]
     \/ /\ reply[r] = "none" /\ frame[r] # "none" /\ whole(r)
        /\ \E t \in {trailer[r]} \cup (IF Intermediary THEN {FALSE} ELSE {}) :
             cres' = [cres EXCEPT ![r] = Concluded(r, t)]
     \/ /\ satisfied(r)
        /\ cres' = [cres EXCEPT ![r] = Concluded(r, FALSE)]
     \/ /\ broken(r) /\ ~satisfied(r)
        /\ \E f \in failures(r) : cres' = [cres EXCEPT ![r] = f]
     \/ /\ Intermediary /\ broken(r) /\ frame[r] # "none" /\ gpc[r] # "opened"
        /\ cres' = [cres EXCEPT ![r] = Concluded(r, FALSE)]
  /\ UNCHANGED <<clientVars, up, putVars, dl, watchVars, genVars, getVars, link,
                 got, stop>>

-----------------------------------------------------------------------------
(* The server runtime (cmd/buff/server.go) *)

serving == ppc \notin {"idle", "done", "reused"} \/ \E r \in Readers : gpc[r] \in {"opened", "copying"}

\* A signal, or a fatal Serve fault: every request context is canceled with
\* the stop as its cause.
BeginStop ==
  /\ stop = "running"
  /\ stop' = "stopping"
  /\ UNCHANGED <<clientVars, up, putVars, dl, watchVars, genVars, getVars, link,
                 readVars>>

\* shutdown: the handlers finish within the window, or their connections are
\* closed under them.
Drain ==
  /\ stop = "stopping"
  /\ ~serving
  /\ stop' = "drained"
  /\ UNCHANGED <<clientVars, up, putVars, dl, watchVars, genVars, getVars, link,
                 readVars>>

ForceClose ==
  /\ stop = "stopping"
  /\ serving
  /\ stop' = "forced"
  /\ up' = "broken"
  /\ link' = [r \in Readers |-> "down"]
  /\ UNCHANGED <<clientVars, putVars, dl, watchVars, genVars, getVars, readVars>>

-----------------------------------------------------------------------------
PutStep == \/ PutArm \/ PutCopy \/ PutRefused \/ PutEnd \/ PutCut \/ PutClose
           \/ PutDisarm \/ PutAbort \/ PutReturn
GetStep(r) == GetHeaders(r) \/ GetCopy(r) \/ GetWriteFails(r) \/ GetTorn(r) \/ GetEnd(r)
Watcher == WatchFire \/ WatchStop
Runtime == BeginStop \/ Drain \/ ForceClose

Next ==
  \/ PutStart \/ PutStep \/ PutPanic \/ IdleExpire \/ NextRequest \/ Watcher
  \/ Send \/ SourceFaults \/ UploadBreaks \/ PutResult
  \/ \E r \in Readers : \/ GetOpen(r) \/ GetStep(r) \/ GetPanic(r)
                        \/ Receive(r) \/ LinkBreaks(r) \/ ReadResult(r)
  \/ Runtime

Spec == Init /\ [][Next]_vars

\* Handlers and the watcher run, and deadlines pass.  Nothing is asked of the
\* clients, the network or the operator.
Fairness ==
  /\ WF_vars(PutStep) /\ WF_vars(IdleExpire) /\ WF_vars(Watcher)
  /\ \A r \in Readers : WF_vars(GetStep(r))

FairSpec == Spec /\ Fairness

-----------------------------------------------------------------------------
(* Properties *)

\* A client that reads to a clean end has every byte of a finalized clip: no
\* abort, broken link, panic, forced close or intermediary makes a truncated
\* read look finished (stream, body.complete).
CompleteMeansWhole ==
  \A r \in Readers : cres[r] = "ok" => gen = "finalized" /\ got[r] = len

\* Put succeeds only for what was stored, and only the whole source is stored:
\* a cut body never finalizes (put, idleResetReader).
StoredIsWhole ==
  /\ pres = "200" => gen = "finalized"
  /\ gen = "finalized" => taken = len /\ src = "ended"

\* An upload cut by the stop, poked or force-closed, is never blamed on the
\* client as a bad request (classifyPut, stoppingCut).
StopIsNotBlamed ==
  [][ppc = "reading" /\ answer' = "400" => dl # "poked" /\ stop # "forced"]_vars

\* A connection kept for another request carries no deadline in the past: the
\* watcher never fires into it (cancelGuard; net/http cancels every request
\* context once its handler has returned).
NextRequestReads == ppc = "reused" => dl # "poked"

\* An upload and a response end without their client's help: an upload leaves no
\* live generation behind whatever ended it (put's deferred Abort,
\* idleResetReader), and every reader of a response is closed.
TransfersEnd ==
  /\ ppc \notin {"idle", "done", "reused"} ~>
       ppc \in {"done", "reused"} /\ gen # "live"
  /\ \A r \in Readers : gpc[r] \in {"opened", "copying"} ~> gpc[r] = "ended"
=============================================================================
