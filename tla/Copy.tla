-------------------------------- MODULE Copy --------------------------------
(***************************************************************************)
(* buff copying to a slot (cli/copy.go, cli/source.go, archive/stream.go,  *)
(* client/put.go).  Three goroutines: the archiver writes a tar into a     *)
(* synchronous pipe, the transport's write loop reads the request body,    *)
(* and the copy flow waits for the round trip, joins the archiver and      *)
(* decides which of the two errors is the cause.                           *)
(*                                                                         *)
(* A copy of standard input or of one file has no archiver: the write loop *)
(* reads the source.  The server, another writer of the slot and a         *)
(* header-stripping proxy are the environment.                             *)
(***************************************************************************)
EXTENDS Command

CONSTANTS
  Sources,           \* kinds of source: subset of {"stdin", "file", "archive"}
  MaxPieces          \* bound: pieces of a source (an archive's entries)

ASSUME CopyAssumption ==
  /\ Sources \subseteq {"stdin", "file", "archive"}
  /\ MaxPieces \in Nat

Refusals == {"toolarge", "busy", "unavailable"}

VARIABLES
  source, once,      \* arguments: the source's kind; consume-once asked for
  strips,            \* headers a proxy drops: "request", "response"
  left,              \* pieces the source still has
  count,             \* entries the archiver wrote
  prod,              \* the archiver's program point
  srcErr,            \* its result
  readEnd,           \* whether the pipe's read end is open
  loop, rec,         \* the write loop; recordingReader.err
  wire,              \* the request body as the server sees it
  link,              \* whether the connection stands
  server, reply,     \* the handler; its response
  value,             \* what the slot holds: nothing, this clip or another's
  flow,              \* the copy flow's program point
  putErr, copyErr,   \* Put's and the flow's results
  deleted            \* whether the clean-up Delete was acknowledged

argVars   == <<source, once, strips>>
prodVars  == <<left, count, prod, srcErr>>
loopVars  == <<loop, rec, wire>>
serveVars == <<link, server, reply, value>>
flowVars  == <<flow, readEnd, putErr, copyErr, deleted>>
copyVars  == <<argVars, prodVars, loopVars, serveVars, flowVars>>

CopyTypeOK ==
  /\ source \in {"stdin", "file", "archive"} /\ once \in BOOLEAN
  /\ strips \subseteq {"request", "response"}
  /\ left \in 0..MaxPieces /\ count \in 0..MaxPieces
  /\ prod \in {"none", "walk", "entry", "cut", "shrunk", "trailer", "done"}
  /\ srcErr \in {"none", "fault", "empty", "short", "eof", "canceled", "closedpipe"}
  /\ readEnd \in {"open", "closed"}
  /\ loop \in {"idle", "reading", "done"}
  /\ rec \in {"none", "fault", "canceled"}
  /\ wire \in {"open", "ended"} /\ link \in {"up", "down"}
  /\ server \in {"reading", "stored", "refused"}
  /\ reply \in {"none", "plain", "once"} \cup Refusals
  /\ value \in {"none", "plain", "once", "other"}
  /\ flow \in {"open", "put", "clean", "join", "receive", "over"}
  /\ putErr \in {"none", "source", "unreachable", "unconfirmed"} \cup Refusals
  /\ copyErr \in {"pending", "none", "source", "unreachable", "unconfirmed"} \cup Refusals
  /\ deleted \in BOOLEAN

CopyInit ==
  LET active == act = "copy"
  IN  /\ source \in IF active THEN Sources ELSE {"stdin"}
      /\ once \in IF active THEN BOOLEAN ELSE {FALSE}
      /\ strips \in IF once THEN SUBSET {"request", "response"} ELSE {{}}
      /\ left \in IF active THEN 0..MaxPieces ELSE {0}
      /\ count = 0 /\ prod = "none" /\ srcErr = "none" /\ readEnd = "open"
      /\ loop = "idle" /\ rec = "none" /\ wire = "open" /\ link = "up"
      /\ server = "reading" /\ reply = "none" /\ value = "none"
      /\ flow = "open" /\ putErr = "none" /\ copyErr = "pending"
      /\ deleted = FALSE

-----------------------------------------------------------------------------
(* The archiver: archive.Stream in its goroutine *)

\* Stream returns: CloseWithError on the pipe's write end, then the result is
\* sent on the buffered channel.
stop(err) == prod' = "done" /\ srcErr' = err /\ UNCHANGED <<left, count>>

\* What the pipe's reader gets after CloseWithError(err).
closeWithError(err) ==
  CASE err \in {"none", "eof"} -> "eof"
    [] err = "canceled"        -> "canceled"
    [] OTHER                   -> "fault"

Archiving == act = "copy" /\ ~Over

\* One entry of the walk: skipped, unreadable, or offered to the pipe.
Walk ==
  /\ Archiving /\ prod = "walk" /\ left > 0
  /\ \/ stop("fault")                     \* WalkDir's own error comes first
     \/ ~Canceled /\ left' = left - 1 /\ UNCHANGED <<count, prod, srcErr>>   \* a special file
     \/ ~Canceled /\ prod' \in {"entry", "cut"} /\ UNCHANGED <<left, count, srcErr>>
  /\ UNCHANGED <<argVars, loopVars, serveVars, flowVars, commandVars>>

WalkCanceled ==
  /\ Archiving /\ prod = "walk" /\ left > 0 /\ Canceled
  /\ stop("canceled")
  /\ UNCHANGED <<argVars, loopVars, serveVars, flowVars, commandVars>>

\* All roots are walked: the trailer, unless nothing was archived.
WalkEnds ==
  /\ Archiving /\ prod = "walk" /\ left = 0
  /\ IF count = 0
       THEN stop("empty")
       ELSE prod' = "trailer" /\ UNCHANGED <<left, count, srcErr>>
  /\ UNCHANGED <<argVars, loopVars, serveVars, flowVars, commandVars>>

\* copyEntry: a file shorter than its header said.
copyEntryPlain == "eof"
copyEntry == "short"

EntryShort ==
  /\ Archiving /\ prod = "shrunk"
  /\ stop(copyEntry)
  /\ UNCHANGED <<argVars, loopVars, serveVars, flowVars, commandVars>>

Offering == prod \in {"entry", "cut", "trailer"}

\* A write to a pipe nobody reads any more.
WriteClosed ==
  /\ Archiving /\ Offering /\ readEnd = "closed"
  /\ stop("closedpipe")
  /\ UNCHANGED <<argVars, loopVars, serveVars, flowVars, commandVars>>

Archiver == Walk \/ WalkCanceled \/ WalkEnds \/ EntryShort \/ WriteClosed

-----------------------------------------------------------------------------
(* The transport: its write loop and the round trip *)

Refused == reply \in Refusals

\* The connection takes no more of the request.
Dead == link = "down" \/ Canceled \/ Refused

Transferring == act = "copy" /\ ~Over /\ loop = "reading" /\ readEnd = "open"

\* After a piece is read it is written, and a dead connection noticed.
sent == IF Dead THEN "done" ELSE "reading"

\* The pipe hands over what the archiver offers.
PipePiece ==
  /\ Transferring /\ source = "archive" /\ Offering
  /\ loop' = sent
  /\ CASE prod = "entry" -> /\ prod' = "walk" /\ left' = left - 1
                            /\ count' = count + 1 /\ UNCHANGED srcErr
       [] prod = "cut"   -> prod' = "shrunk" /\ UNCHANGED <<left, count, srcErr>>
       [] OTHER          -> stop("none")
  /\ UNCHANGED <<argVars, rec, wire, serveVars, flowVars, commandVars>>

\* A body that ends: cleanly the request is ended, otherwise the error is
\* recorded and the request torn.
bodyEnds(how) ==
  /\ loop' = "done"
  /\ rec' = IF how = "eof" THEN rec ELSE how
  /\ wire' \in IF how # "eof" \/ link = "down" THEN {wire}
              ELSE {"ended"} \cup IF Dead THEN {wire} ELSE {}
  /\ UNCHANGED <<argVars, prodVars, serveVars, flowVars, commandVars>>

PipeEnds ==
  /\ Transferring /\ source = "archive" /\ prod = "done"
  /\ bodyEnds(closeWithError(srcErr))

\* Standard input or a file, read directly.
SourcePiece ==
  /\ Transferring /\ source # "archive"
  /\ left > 0
  /\ left' = left - 1
  /\ loop' = sent
  /\ UNCHANGED <<argVars, count, prod, srcErr, rec, wire, serveVars, flowVars,
                 commandVars>>

SourceEnds ==
  /\ Transferring /\ source # "archive"
  /\ \/ left = 0 /\ bodyEnds("eof")
     \/ bodyEnds("fault")

Loop == PipePiece \/ PipeEnds \/ SourcePiece \/ SourceEnds

\* A connection is made, or cannot be.
Dial ==
  /\ act = "copy" /\ ~Over /\ flow = "put" /\ loop = "idle"
  /\ \/ link = "up" /\ ~Canceled /\ loop' = "reading" /\ UNCHANGED link
     \/ loop' = "done" /\ link' = IF Canceled THEN link ELSE "down"
  /\ UNCHANGED <<argVars, prodVars, rec, wire, server, reply, value, flowVars,
                 commandVars>>

-----------------------------------------------------------------------------
(* The server and the rest of the world (external) *)

LinkDrops ==
  /\ act = "copy" /\ ~Over /\ link = "up"
  /\ link' = "down"
  /\ UNCHANGED <<argVars, prodVars, loopVars, server, reply, value, flowVars,
                 commandVars>>

\* A cap, a conflict or a stop: answered without reading the body to its end.
ServerRefuses ==
  /\ act = "copy" /\ server = "reading" /\ loop # "idle" /\ link = "up"
  /\ server' = "refused"
  /\ reply' \in Refusals
  /\ UNCHANGED <<argVars, prodVars, loopVars, link, value, flowVars, commandVars>>

\* Only a body that ended cleanly is committed; the response echoes what is stored.
ServerStores ==
  /\ act = "copy" /\ server = "reading" /\ wire = "ended"
  /\ server' = "stored"
  /\ value' = IF once /\ "request" \notin strips THEN "once" ELSE "plain"
  /\ reply' = IF value' = "once" /\ "response" \notin strips THEN "once" ELSE "plain"
  /\ UNCHANGED <<argVars, prodVars, loopVars, link, flowVars, commandVars>>

OtherWrites ==
  /\ act = "copy" /\ ~Over /\ value \in {"once", "plain"}
  /\ value' = "other"
  /\ UNCHANGED <<argVars, prodVars, loopVars, link, server, reply, flowVars,
                 commandVars>>

-----------------------------------------------------------------------------
(* copyFlow, and Put inside it *)

\* The source opens, or the copy ends here; an archive starts its goroutine.
CopyOpen ==
  /\ act = "copy" /\ ~Over /\ flow = "open"
  /\ \/ /\ flow' = "put"
        /\ prod' = IF source = "archive" THEN "walk" ELSE "none"
        /\ UNCHANGED <<srcErr, copyErr, exit>>
     \/ /\ source # "stdin"
        /\ flow' = "over" /\ srcErr' = "fault"
        /\ copyErr' = "source" /\ Returns("source")
        /\ UNCHANGED prod
  /\ UNCHANGED <<argVars, left, count, loopVars, serveVars, readEnd, putErr,
                 deleted, act, signals>>

\* The response arrives before any error of the round trip.  A consume-once
\* that the 200 does not echo was not honoured.
confirmedAlways == TRUE
confirmed == once => reply = "once"

PutReplied ==
  /\ act = "copy" /\ ~Over /\ flow = "put" /\ link = "up" /\ reply # "none"
  /\ IF Refused THEN putErr' = reply /\ flow' = "join"
     ELSE flow' = (IF confirmed THEN "join" ELSE "clean") /\ UNCHANGED putErr
  /\ UNCHANGED <<argVars, prodVars, loopVars, serveVars, readEnd, copyErr,
                 deleted, commandVars>>

\* do fails, after the write loop has ended: the source's fault, if it has one.
putErrorPlain == "unreachable"
putError == IF rec = "fault" THEN "source" ELSE "unreachable"

PutFails ==
  /\ act = "copy" /\ ~Over /\ flow = "put" /\ loop = "done"
  /\ Dead \/ rec # "none"
  /\ putErr' = putError
  /\ flow' = "join"
  /\ UNCHANGED <<argVars, prodVars, loopVars, serveVars, readEnd, copyErr,
                 deleted, commandVars>>

\* Put's best-effort Delete: it removes whatever the slot holds by then; its
\* answer may be lost, or it may never be sent.
CleanUp ==
  /\ act = "copy" /\ ~Over /\ flow = "clean"
  /\ \/ link = "up" /\ ~Canceled /\ value' = "none" /\ deleted' \in BOOLEAN
     \/ (Canceled \/ link = "down") /\ UNCHANGED <<value, deleted>>
  /\ putErr' = "unconfirmed"
  /\ flow' = "join"
  /\ UNCHANGED <<argVars, prodVars, loopVars, link, server, reply, readEnd,
                 copyErr, commandVars>>

\* The archiver's own failure is the cause, unless it is the flow's doing.
resolveCopyErrorFirst == IF srcErr # "none" THEN "source" ELSE putErr
resolveCopyError ==
  IF srcErr \notin {"none", "closedpipe", "canceled"} THEN "source" ELSE putErr

\* join: the read end is closed first, so that the archiver cannot be stuck.
joinReadEndKept == "open"
joinReadEnd == "closed"

JoinClose ==
  /\ act = "copy" /\ ~Over /\ flow = "join" /\ source = "archive"
  /\ readEnd' = joinReadEnd
  /\ flow' = "receive"
  /\ UNCHANGED <<argVars, prodVars, loopVars, serveVars, putErr, copyErr,
                 deleted, commandVars>>

CopyReturn ==
  /\ act = "copy" /\ ~Over
  /\ \/ flow = "join" /\ source # "archive"
     \/ flow = "receive" /\ prod = "done"
  /\ flow' = "over"
  /\ readEnd' = "closed"
  /\ copyErr' = resolveCopyError
  /\ Returns(resolveCopyError)
  /\ UNCHANGED <<argVars, prodVars, loopVars, serveVars, putErr, deleted, act,
                 signals>>

Flow == CopyOpen \/ Dial \/ PutReplied \/ PutFails \/ CleanUp \/ JoinClose
        \/ CopyReturn

CopyNext == Archiver \/ Loop \/ Flow \/ LinkDrops \/ ServerRefuses
            \/ ServerStores \/ OtherWrites

\* The part of the write loop that nobody has to type for.
LoopRuns == Loop /\ source # "stdin"

\* The copy waits for standard input.
AwaitsInput == act = "copy" /\ source = "stdin" /\ loop = "reading"

-----------------------------------------------------------------------------
(* Properties *)

\* The server commits, and the copy succeeds, only with a whole source: a tar
\* cut by a shrinking file, a read fault, an archive of nothing or a cancel
\* reaches the server as a torn body (copyEntry, CloseWithError), never as a
\* clean end.
CommitsOnlyWhole ==
  /\ server = "stored" /\ source = "archive" =>
       prod = "done" /\ srcErr = "none" /\ count > 0
  /\ act = "copy" /\ exit = 0 => server = "stored"

\* The reported error is the cause: the source is blamed exactly when it
\* faulted (unless the server had already refused a plain source), and the
\* server is called unreachable only if the connection broke, the run was
\* canceled or a cap cut the connection; a pipe closed by the join is neither.
BlameIsRight ==
  LET faulted == srcErr \in {"fault", "empty", "short", "eof"} \/ rec = "fault"
  IN  copyErr # "pending" =>
        /\ copyErr = "source" => faulted
        /\ faulted => copyErr \in {"source"} \cup IF source = "archive" THEN {} ELSE Refusals
        /\ copyErr = "unreachable" => Dead

\* A value meant to be read once that was stored as an ordinary one is removed
\* again, or the copy says that it may still be there: never a success, and no
\* acknowledged clean-up that left it readable.
NoSecretLeft ==
  copyErr # "pending" /\ once /\ value = "plain" =>
    copyErr = "unreachable" \/ (copyErr = "unconfirmed" /\ ~deleted)
=============================================================================
